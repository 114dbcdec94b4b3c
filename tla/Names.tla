-------------------------------- MODULE Names --------------------------------
(***************************************************************************)
(* URIs and the names of heads, calls and CIDs (memodb/lib/URI.cpp and     *)
(* Store.cpp).  A text is a sequence of characters; a number, and the two  *)
(* hexadecimal digits after %, are one character.                          *)
(***************************************************************************)
EXTENDS Integers, FiniteSets, SequencesExt

CONSTANTS
  Hex,      \* a function: the hexadecimal digits of every character
  Lower,    \* a function: the small letters of capital ones
  Ports,    \* numbers that fit a port
  CIDText,  \* a function: the base64url text of a CID
  AllNames, \* names to be written
  Texts     \* URIs to be read

Has(s, c) == c \in ToSet(s)
StartsWith(s, c) == s # <<>> /\ s[1] = c
Low(s) == [i \in 1 .. Len(s) |-> IF s[i] \in DOMAIN Lower THEN Lower[s[i]] ELSE s[i]]
\* The place of the first character of cs, or the one after the end.
First(s, cs) ==
  CHOOSE i \in 1 .. Len(s) + 1 : (i = Len(s) + 1 \/ s[i] \in cs) /\ \A j \in 1 .. i - 1 : s[j] \notin cs
Upto(s, c) == SubSeq(s, 1, First(s, {c}) - 1)
Beyond(s, c) == SubSeq(s, First(s, {c}) + 1, Len(s))

RECURSIVE Split(_, _)
Split(s, c) == <<Upto(s, c)>> \o (IF Has(s, c) THEN Split(Beyond(s, c), c) ELSE <<>>)
Join(parts, c) == FlattenSeq([i \in 1 .. Len(parts) |-> IF i = 1 THEN parts[i] ELSE <<c>> \o parts[i]])

-----------------------------------------------------------------------------
(* URI::encode; of the characters of the model, these are not allowed *)

HostEscaped == {"/", "?", "#", "%", "@", " "}
PathEscaped == {"/", "?", "#", "%", "[", "]", " "}
QueryEscaped == {"&", "#", "%", "[", "]", " "}
FragmentEscaped == {"#", "%", "[", "]", " "}

PercentEncode(s, escaped) ==
  FlattenSeq([i \in 1 .. Len(s) |-> IF s[i] \in escaped THEN <<"%", Hex[s[i]]>> ELSE <<s[i]>>])
Encoded(parts, escaped) == [i \in 1 .. Len(parts) |-> PercentEncode(parts[i], escaped)]

URI == [scheme |-> <<>>, host |-> <<>>, port |-> "0", rootless |-> FALSE, segments |-> <<>>, query |-> <<>>,
        fragment |-> <<>>]

\* escape is escape_slashes_in_segments.
EncodeURI(u, escape) ==
  (IF u.scheme # <<>> THEN Low(u.scheme) \o <<":">> ELSE <<>>) \o
  (IF u.host # <<>> \/ u.port # "0"
   THEN <<"/", "/">> \o PercentEncode(Low(u.host), HostEscaped) \o (IF u.port # "0" THEN <<":", u.port>> ELSE <<>>)
   ELSE <<>>) \o
  (IF u.rootless THEN <<>> ELSE <<"/">>) \o
  Join(Encoded(u.segments, IF escape THEN PathEscaped ELSE PathEscaped \ {"/"}), "/") \o
  (IF u.query # <<>> THEN <<"?">> \o Join(Encoded(u.query, QueryEscaped), "&") ELSE <<>>) \o
  (IF u.fragment # <<>> THEN <<"#">> \o PercentEncode(u.fragment, FragmentEscaped) ELSE <<>>)

-----------------------------------------------------------------------------
(* URI::parse; no URI is the one that is not ok *)

NoURI == [ok |-> FALSE, uri |-> URI]

Decodes(s) == \A i \in 1 .. Len(s) : s[i] = "%" => i < Len(s) /\ s[i + 1] \in Range(Hex)

RECURSIVE PercentDecode(_)
PercentDecode(s) ==
  IF ~Has(s, "%") THEN s
  ELSE LET after == Beyond(s, "%")
       IN  Upto(s, "%") \o <<CHOOSE c \in DOMAIN Hex : Hex[c] = after[1]>> \o PercentDecode(Tail(after))

\* The host and the port of an authority.
Authority(a) ==
  LET j == First(a, {"]"})
      port == SubSeq(a, j + 1, Len(a))
  IN  CASE Has(a, "@") -> [ok |-> FALSE, host |-> <<>>, port |-> <<>>]
        [] ~Has(a, "@") /\ StartsWith(a, "[") ->
             [ok |-> Has(a, "]") /\ (port = <<>> \/ port[1] = ":"), host |-> SubSeq(a, 1, j), port |-> SubSeq(port, 2, Len(port))]
        [] OTHER -> [ok |-> TRUE, host |-> Upto(a, ":"), port |-> Beyond(a, ":")]

Segments(path) ==
  LET rooted == IF StartsWith(path, "/") THEN Tail(path) ELSE path
      parts == Split(rooted, "/")
  IN  IF rooted = <<>> THEN <<>> ELSE [i \in 1 .. Len(parts) |-> PercentDecode(parts[i])]

Query(query) == IF query = <<>> THEN <<>> ELSE LET params == Split(query, "&") IN [k \in 1 .. Len(params) |-> PercentDecode(params[k])]

\* What is decoded, and what may not be in a path.
AllDecode(parts) == \A s \in parts : Decodes(s)
DotSegments(segments) == \E k \in 1 .. Len(segments) : segments[k] \in {<<".">>, <<".", ".">>}

Parsed(scheme, auth, path, query, fragment, allow_dot_segments) ==
  IF \/ ~auth.ok
     \/ auth.port # <<>> /\ (Len(auth.port) # 1 \/ auth.port[1] \notin Ports)
     \/ ~AllDecode({auth.host, fragment} \cup ToSet(Split(path, "/")) \cup ToSet(Split(query, "&")))
  THEN NoURI
  ELSE IF ~allow_dot_segments /\ DotSegments(Segments(path)) THEN NoURI
  ELSE [ok |-> TRUE,
        uri |-> [scheme |-> Low(scheme), host |-> Low(PercentDecode(auth.host)),
                 port |-> IF auth.port = <<>> THEN "0" ELSE auth.port[1],
                 rootless |-> ~StartsWith(path, "/"), segments |-> Segments(path), query |-> Query(query),
                 fragment |-> PercentDecode(fragment)]]

\* The parts of a URI are cut off one by one.
WithAuthority(scheme, authority, hier, allow_dot_segments) ==
  LET before == Upto(hier, "#")
  IN  Parsed(scheme, Authority(authority), Upto(before, "?"), Beyond(before, "?"), Beyond(hier, "#"), allow_dot_segments)
WithScheme(scheme, rest, allow_dot_segments) ==
  IF Len(rest) >= 2 /\ rest[1] = "/" /\ rest[2] = "/"
  THEN LET net == SubSeq(rest, 3, Len(rest))
           i == First(net, {"/", "?", "#"})
       IN  WithAuthority(scheme, SubSeq(net, 1, i - 1), SubSeq(net, i, Len(net)), allow_dot_segments)
  ELSE WithAuthority(scheme, <<>>, rest, allow_dot_segments)
ParseURI(text, allow_dot_segments) ==
  LET schemed == Has(text, ":")
  IN  WithScheme(IF schemed THEN Upto(text, ":") ELSE <<>>, IF schemed THEN Beyond(text, ":") ELSE text, allow_dot_segments)

-----------------------------------------------------------------------------
(* Names: <<"head", name>>, <<"cid", cid>>, <<"call", func, args>> *)

\* Name::asURI, Head::asURI and Call::asURI, and operator<<.
Write(name) ==
  CASE name[1] = "head" -> EncodeURI([URI EXCEPT !.segments = << <<"head">>, name[2]>>], FALSE)
    [] name[1] = "cid" -> EncodeURI([URI EXCEPT !.segments = << <<"cid">>, CIDText[name[2]]>>], TRUE)
    [] name[1] = "call" ->
         EncodeURI([URI EXCEPT !.segments =
           << <<"call">>, name[2], Join([i \in 1 .. Len(name[3]) |-> CIDText[name[3][i]]], ",")>>], TRUE)

NoName == <<"none">>
ParseCID(s) == CHOOSE c \in DOMAIN CIDText : CIDText[c] = s

\* Name::parse; a head is the rest of the path, with its slashes (URI::getPathString).
CallNamed(func, args) ==
  IF func = <<>> \/ \E i \in 1 .. Len(args) : args[i] \notin Range(CIDText) THEN NoName
  ELSE <<"call", func, [i \in 1 .. Len(args) |-> ParseCID(args[i])]>>
Named(segments) ==
  CASE segments[1] = <<"head">> -> LET name == Join(Tail(segments), "/") IN IF name = <<>> THEN NoName ELSE <<"head", name>>
    [] segments[1] = <<"cid">> /\ Len(segments) = 2 ->
         IF segments[2] \in Range(CIDText) THEN <<"cid", ParseCID(segments[2])>> ELSE NoName
    [] segments[1] = <<"call">> /\ Len(segments) = 3 -> CallNamed(segments[2], Split(segments[3], ","))
    [] OTHER -> NoName
NameIn(r) ==
  IF ~r.ok \/ [r.uri EXCEPT !.segments = <<>>] # URI \/ Len(r.uri.segments) < 2 THEN NoName ELSE Named(r.uri.segments)
Parse(text) == NameIn(ParseURI(text, FALSE))

-----------------------------------------------------------------------------
(* A name is written and read, or a URI is read and written *)

VARIABLES name, text, result

vars == <<name, text, result>>

Init ==
  /\ \/ name \in AllNames /\ text = <<>>
     \/ name = NoName /\ text \in Texts
  /\ result = NoName

WriteName == name # NoName /\ text = <<>> /\ text' = Write(name) /\ UNCHANGED <<name, result>>
ParseName == text # <<>> /\ result = NoName /\ result' = Parse(text) /\ UNCHANGED <<name, text>>

Next == WriteName \/ ParseName

Spec == Init /\ [][Next]_vars

\* Segments that a path may not have, in the name of a head or a function.
Dots(n) == n[1] # "cid" /\ \E s \in ToSet(Split(n[2], "/")) : s \in {<<".">>, <<".", ".">>}
Colon(n) == n[1] # "cid" /\ Has(n[2], ":")

\* A name without dot segments and colons is read as it was written, so that the server
\* and the client, or two runs of the tool, mean the same head, call or CID; heads that
\* have slashes keep them and functions that have slashes stay functions.
ReadsBack == name # NoName /\ text # <<>> /\ ~Dots(name) /\ ~Colon(name) => Parse(text) = name

\* A URI that has a scheme is written as one that is read as the same, in every part,
\* when its path does not begin with two slashes.
Stable ==
  text # <<>> => \A r \in {ParseURI(text, TRUE)} :
    r.ok /\ r.uri.scheme # <<>> /\ ~(Len(r.uri.segments) > 1 /\ r.uri.segments[1] = <<>>) =>
      ParseURI(EncodeURI(r.uri, TRUE), TRUE) = r

=============================================================================

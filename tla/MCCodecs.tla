------------------------------ MODULE MCCodecs ------------------------------
(***************************************************************************)
(* The conversions of MemoDB, each on bounded inputs of its own: part says *)
(* which one a behaviour is about, and a, b and c are its variables.       *)
(***************************************************************************)
EXTENDS Integers, SequencesExt

CONSTANT None

VARIABLES part, a, b, c

vars == <<part, a, b, c>>

UpTo(S, n) == UNION {[1 .. k -> S] : k \in 0 .. n}

-----------------------------------------------------------------------------
(* CBOR: bytes of eight values, arguments below 4 in the first byte *)

CBORDigits(n, w) == [i \in 1 .. w |-> (n \div 8 ^ (w - i)) % 8]
CBORWiden(minor, n) == IF minor = 27 THEN CBORDigits(n, 8) ELSE CBORDigits(n * 64, 8)
CBORInts == {-8 ^ 8 \div 2, -8 ^ 4 - 1, -8 ^ 4, -9, -8, -5, -4, -1, 0, 3, 4, 7, 8, 63, 64, 65, 8 ^ 4 - 1, 8 ^ 4,
  8 ^ 8 \div 2 - 1, 8 ^ 8 \div 2, 8 ^ 8 - 1}
NotFinite == <<3, 7, 7, 7, 0, 0, 0, 0>>

CBORScalars ==
  {<<"int", n>> : n \in CBORInts} \cup {<<"null", 0>>, <<"bool", TRUE>>, <<"bool", FALSE>>} \cup
  {<<"float", f>> : f \in {<<0, 0, 0, 0, 0, 0, 0, 0>>, <<3, 7, 4, 0, 0, 0, 0, 1>>, NotFinite}} \cup
  {<<k, s>> : k \in {"string", "bytes"}, s \in {<<>>, <<1>>, <<1, 2, 3>>, <<1, 2, 3, 4>>, <<0, 6, 5, 4, 3, 2, 1, 0, 0>>}} \cup
  {<<"link", l>> : l \in {<<1>>, <<1, 5>>}}

CBORFew == {<<"null", 0>>, <<"int", 8>>, <<"bytes", <<7>> >>, <<"link", <<1>> >>, <<"list", <<>> >>, <<"map", <<>> >>}

CBORNodes ==
  CBORScalars \cup {<<"list", s>> : s \in UpTo(CBORFew, 2)} \cup
  {<<"list", [i \in 1 .. 9 |-> <<"int", i>>]>>} \cup
  {<<"map", << <<k1, v1>> >> >> : k1 \in {<<>>, <<1>>, <<2, 1>>}, v1 \in CBORFew} \cup
  {<<"map", << <<k1, v1>>, <<k2, v2>> >> >> : k1 \in {<<>>, <<3>>}, k2 \in {<<4>>, <<0, 0>>}, v1 \in CBORFew, v2 \in CBORFew}

\* Heads of every kind with parts of strings, keys, breaks and ends; no first byte holds
\* an argument of Direct or more, as none holds one of 24 or more.
CBORBytes == {0, 2, 3, 24, 25, 33, 56, 64 + 1, 64 + 24, 64 + 31, 96 + 1, 96 + 31, 128 + 1, 128 + 31, 160 + 1, 160 + 2,
  160 + 31, 192 + 25, 224 + 20, 224 + 23, 255}

\* Longer ones: tags, chunks and maps.
CBORLong ==
  {<<192 + 25, 5, 2, 64 + 2, p>> \o s : p \in {0, 1}, s \in {<<1>>, <<2>>, <<1, 5>>, <<>>}} \cup
  {<<64 + 31, h, 1, i, 2, j>> : h \in {64 + 1, 96 + 1}, i \in {64 + 1, 64 + 31, 255}, j \in {255, 64}} \cup
  {<<m>> \o k \o <<0>> \o l \o <<2>> \o e : m \in {160 + 2, 160 + 31}, k \in {<<96 + 1, 1>>, <<96 + 2, 1, 1>>, <<1>>},
     l \in {<<96 + 1, 1>>, <<96 + 1, 0>>, <<96>>}, e \in {<<>>, <<255>>}} \cup
  {<<h, i, j, 1, 1>> : h \in {24, 25, 26, 64 + 24, 128 + 24, 128 + 25}, i \in {0, 1, 7}, j \in {0, 2}} \cup
  {<<h>> \o [i \in 1 .. 8 |-> IF i = 1 THEN j ELSE 7] : h \in {27, 32 + 27, 224 + 25, 224 + 26, 224 + 27}, j \in {0, 3, 4, 7}}

CBOR == INSTANCE NodeCBOR WITH Byte <- 8, Direct <- 4, Illegal <- {7}, ValidCID <- {<<1>>, <<1, 5>>},
  NonFinite <- {NotFinite}, Widen <- CBORWiden, IdentityMax <- 5, Nodes <- CBORNodes,
  Inputs <- UpTo(CBORBytes, 3) \cup CBORLong, item <- a, data <- b, loaded <- c

-----------------------------------------------------------------------------
(* JSON: integers of five bits *)

Base64 == (<<1>> :> <<"A", "=">>) @@ (<<1, 2>> :> <<"A", "B">>) @@ (<<>> :> <<>>)
JSONCIDs == (<<1>> :> <<"C", "D">>) @@ (<<2>> :> <<"C">>)

JSONFloats == {<<"nan">>, <<"inf", TRUE>>, <<"inf", FALSE>>, <<"number", TRUE, <<>>, 0>>, <<"number", FALSE, <<>>, 0>>} \cup
  {<<"number", neg, s, e>> : neg \in BOOLEAN, s \in {<<"1">>, <<"2", "5">>, <<"9", "0", "7">>}, e \in -12 .. 24}
JSONScalars == {<<"null", 0>>, <<"bool", TRUE>>, <<"bool", FALSE>>} \cup {<<"int", n>> : n \in -13 .. 25} \cup
  {<<"float", f>> : f \in JSONFloats} \cup {<<"string", s>> : s \in UpTo({"a", "\"", "\\", "c0a", "c01", "map"}, 3)} \cup
  {<<"bytes", d>> : d \in DOMAIN Base64} \cup {<<"link", l>> : l \in DOMAIN JSONCIDs}

JSONKeys == {<<"map">>, <<"cid">>, <<"base64">>, <<"float">>, <<>>, <<"\"">>}
JSONInner == {<<"int", 5>>, <<"string", <<"A", "B">> >>, <<"link", <<1>> >>, <<"list", <<>> >>, <<"map", <<>> >>}
JSONSmall == {<<"map", << <<k, v>> >> >> : k \in JSONKeys, v \in JSONInner} \cup JSONInner
JSONNodes ==
  JSONScalars \cup JSONSmall \cup {<<"list", s>> : s \in UpTo(JSONInner, 2)} \cup {<<"list", <<v>> >> : v \in JSONSmall} \cup
  {<<"map", << <<k, v>> >> >> : k \in JSONKeys, v \in JSONSmall} \cup
  {<<"map", << <<k, v>>, <<l, w>> >> >> : k \in {<<>>, <<"a">>}, l \in {<<"map">>, <<"cid">>}, v \in JSONInner, w \in JSONSmall}

JSONTexts ==
  UpTo({"{", "}", "[", "]", ",", ":", "\"", "a", "1", "0", "-"}, 3) \cup
  {<<"{", "\"", k, "\"", ":">> \o v \o t \o e : k \in {"map", "cid", "float", "base64", "a"},
     v \in {<<"{">>, <<"{", " ", "\"", "a", "\"", ":", "1", ",">>, <<"{", "\"", "map", "\"", ":", "{">>, <<>>},
     t \in {<<>>, <<"\"", "a", "\"", ":", "5">>, <<"\"", "u", "C", "\"">>, <<"\"", "1", ".", "0", "e", "-", "3", "\"">>,
            <<"\"", "\"", " ", ":", " ", "[", "2", "0", "]">>, <<"\"", "\\", "n", "\"", ":", "null", ",", "\"", "b", "\"", ":", "true">>},
     e \in {<<"}">>, <<"}", "}">>, <<" ", "}", "}", " ">>, <<"}", "}", "}">>}}

JSON == INSTANCE NodeJSON WITH IMax <- 12, UMax <- 25, CIDText <- JSONCIDs, Zeros <- 20, Nodes <- JSONNodes,
  Texts <- JSONTexts, item <- a, text <- b, loaded <- c

-----------------------------------------------------------------------------
(* CIDs: bytes of four bits, bases of two and three bits *)

Bases == {
  [prefix |-> "f", bits |-> 2, chars |-> <<"0", "1", "2", "3">>, pad |-> ""],
  [prefix |-> "m", bits |-> 3, chars |-> <<"A", "B", "C", "D", "E", "F", "G", "H">>, pad |-> ""],
  [prefix |-> "M", bits |-> 3, chars |-> <<"A", "B", "C", "D", "E", "F", "G", "H">>, pad |-> "="],
  [prefix |-> "u", bits |-> 3, chars |-> <<"A", "B", "C", "D", "E", "F", "-", "_">>, pad |-> ""]}

CIDStrings == {[i \in 1 .. n |-> i] : n \in 5 .. 7} \cup UpTo(0 .. 15, 2) \cup UpTo({0, 7, 15}, 4)
CIDSequences == {p \o v \o t \o h \o r :
  p \in {<<>>, <<0>>}, v \in {<<1>>, <<9, 0>>, <<2>>}, t \in {<<5>>, <<6>>, <<9, 1>>, <<9, 2>>, <<13, 0>>},
  h \in {<<0, 0>>, <<0, 1>>, <<0, 8, 0>>, <<0, 8, 1>>, <<8, 0, 1>>, <<14, 8, 1, 3>>, <<14, 8, 1, 2>>, <<14, 8, 9, 0, 3>>, <<1, 1>>, <<9, 9, 9, 9, 1>>},
  r \in {<<>>, <<4, 3, 2>>, [i \in 1 .. 9 |-> i]}}
CIDTexts == {<<p>> \o s : p \in {"f", "m", "M", "x"}, s \in UpTo({"A", "B", "H", "0", "="}, 4)}

CID == INSTANCE CIDCodec WITH ByteBits <- 4, AllBases <- Bases, VarIntMax <- 4, EnumMax <- 600, CIDv1 <- 1, Identity <- 0,
  Blake <- 70, ContentTypes <- {5, 6, 9}, BlakeSize <- 3, ByteStrings <- CIDStrings \cup CIDSequences, Texts <- CIDTexts,
  bytes <- a, text <- b

-----------------------------------------------------------------------------
(* Names and URIs *)

HexDigits == "/" :> "2F" @@ "?" :> "3F" @@ "#" :> "23" @@ "%" :> "25" @@ "[" :> "5B" @@ "]" :> "5D" @@ " " :> "20" @@
  "&" :> "26" @@ "@" :> "40" @@ "." :> "2E" @@ "a" :> "61" @@ ":" :> "3A"
NameCIDs == "c1" :> <<"u", "A">> @@ "c2" :> <<"u", "-">>

NameChars == {"a", "/", ":", "%", ".", "?", "#", "&", "2F", " "}
NameStrings == {s \in UpTo(NameChars, 3) : s # <<>>}
NamesWritten ==
  {<<"head", s>> : s \in NameStrings} \cup {<<"cid", l>> : l \in {"c1", "c2"}} \cup
  {<<"call", f, args>> : f \in {s \in NameStrings : Len(s) < 3 /\ "#" \notin ToSet(s)},
     args \in {<<"c1">>, <<"c2", "c1">>, <<"c1", "c1", "c2">>}}

URITexts == {s \o h \o p \o q \o f :
  s \in {<<>>, <<"H", ":">>, <<"head", ":">>},
  h \in {<<>>, <<"/", "/">>, <<"/", "/", "A", ":", "80">>, <<"/", "/", "[", ":", "a", "]", ":", "0">>, <<"/", "/", ":", "80">>, <<"/", "/", "a", "@", "a">>},
  p \in {<<>>, <<"/">>, <<"a", "/", "a">>, <<"/", "a", "%", "2F", "a", "/", ".">>, <<"/", "%", "3A", "/", "/">>, <<"/", "/", "a">>, <<"/", "head", "/", "%">>},
  q \in {<<>>, <<"?">>, <<"?", "a", "&", "%", "26", "&">>, <<"?", "%", "a">>},
  f \in {<<>>, <<"#">>, <<"#", "%", "23", "?", "/", "&">>}}

Name == INSTANCE Names WITH Hex <- HexDigits, Lower <- ("A" :> "a" @@ "H" :> "h"), Ports <- {"0", "80"}, CIDText <- NameCIDs,
  AllNames <- NamesWritten, Texts <- URITexts, name <- a, text <- b, result <- c

-----------------------------------------------------------------------------
(* Accept and If-None-Match: two ranges written in every way, three without spaces *)

MediaRange == {<<"application", "json">>, <<"application", "octet-stream">>, <<"application", "cbor">>,
               <<"text", "html">>, <<"application", "*">>, <<"*", "*">>}
Written(qs, space, quoted) == [range : MediaRange, q : qs, space : space, quoted : quoted]
AnyRange == Written({None, <<"0">>, <<"1", ".", "0", "0", "0">>, <<"0", ".", "2", "5">>}, BOOLEAN, BOOLEAN)
PlainRange == Written({None, <<"0", ".", "4", "9", "9">>}, {FALSE}, {FALSE})

\* No range is there twice.
AcceptLists ==
  {l \in {<<>>} \cup {<<r>> : r \in AnyRange} \cup {<<r, s>> : r \in AnyRange, s \in PlainRange} \cup
         {<<s, r>> : r \in AnyRange, s \in PlainRange} \cup (PlainRange \X PlainRange \X PlainRange) :
     \A i, j \in 1 .. Len(l) : i # j => l[i].range # l[j].range}

Accept == INSTANCE Negotiation WITH Headers <- AcceptLists,
  Tags <- UpTo([tag : {"e1", "e2", "*"}, weak : BOOLEAN, space : BOOLEAN], 3), header <- a, tags <- b, chosen <- c

-----------------------------------------------------------------------------
Init ==
  \/ part = "cbor" /\ CBOR!Init
  \/ part = "json" /\ JSON!Init
  \/ part = "cid" /\ c = None /\ CID!Init
  \/ part = "name" /\ Name!Init
  \/ part = "accept" /\ Accept!Init

Next ==
  /\ \/ part = "cbor" /\ CBOR!Next
     \/ part = "json" /\ JSON!Next
     \/ part = "cid" /\ CID!Next /\ UNCHANGED c
     \/ part = "name" /\ Name!Next
     \/ part = "accept" /\ Accept!Next
  /\ UNCHANGED part

Spec == Init /\ [][Next]_vars

\* What is written is read again as itself: a node saved as CBOR, as a block or as JSON,
\* of which no beginning is accepted, a CID in every base, a name, and a URI with a
\* scheme (NodeCBOR!RoundTrip, Blocks, NodeJSON!RoundTrip, CIDCodec!ReadsBack,
\* Calculated, Names!ReadsBack, Stable).
ReadsBack ==
  /\ part = "cbor" => CBOR!RoundTrip /\ CBOR!Blocks
  /\ part = "json" => JSON!RoundTrip
  /\ part = "cid" => CID!ReadsBack /\ CID!Calculated
  /\ part = "name" => Name!ReadsBack /\ Name!Stable

\* Whatever CBOR, JSON, text or bytes of a CID are accepted have one form that they
\* would be written in: equal nodes have equal CIDs however they were sent
\* (NodeCBOR!OneForm, NodeJSON!OneForm, CIDCodec!OnlyPadBits, OneCID).
OneForm ==
  /\ part = "cbor" => CBOR!OneForm
  /\ part = "json" => JSON!OneForm
  /\ part = "cid" => CID!OnlyPadBits /\ CID!OneCID

\* Every content type has the quality of the most specific range of the Accept header,
\* the preferred one of the best quality is chosen, and an entity tag is found anywhere
\* in its list (Negotiation!MostSpecific, Preferred, TagFound).
Negotiated == part = "accept" => Accept!MostSpecific /\ Accept!Preferred /\ Accept!TagFound

=============================================================================

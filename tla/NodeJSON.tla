------------------------------ MODULE NodeJSON ------------------------------
(***************************************************************************)
(* Nodes as MemoDB JSON (memodb/lib/JSONEncoder.cpp and Node.cpp).  A text *)
(* is a sequence of characters; a word that is only ever compared as a     *)
(* whole (null, map, cid, the hexadecimal digits after \u) is one          *)
(* character.  Nodes are as in NodeCBOR, except that a float is one of     *)
(* <<"nan">>, <<"inf", neg>> and <<"number", neg, digits, exponent>>, with *)
(* the digits and the exponent that dragonbox returns.                     *)
(***************************************************************************)
EXTENDS Integers, FiniteSets, SequencesExt

CONSTANTS
  IMax, UMax,  \* the largest signed and the largest unsigned integer
  Base64,      \* a function: the base64 text of a byte string
  CIDText,     \* a function: the base64url text of a CID, without the u
  Zeros,       \* how many zeros visitFloat has ready
  Nodes,       \* nodes to be written
  Texts        \* texts to be read

Digit == <<"0", "1", "2", "3", "4", "5", "6", "7", "8", "9">>
Number(s) == FoldLeft(LAMBDA n, c : 10 * n + (CHOOSE d \in 0 .. 9 : Digit[d + 1] = c), 0, s)
IsDigit(c) == c \in ToSet(Digit)
Decimal(n) == LET f[m \in 0 .. n] == IF m < 10 THEN <<Digit[m + 1]>> ELSE Append(f[m \div 10], Digit[(m % 10) + 1]) IN f[n]
Signed(n) == IF n < 0 THEN <<"-">> \o Decimal(-n) ELSE Decimal(n)

-----------------------------------------------------------------------------
(* JSONEncoder *)

\* The control characters 8 to 13 except 11, and their letters in "btn.fr".
Letter == [c08 |-> "b", c09 |-> "t", c0a |-> "n", c0c |-> "f", c0d |-> "r"]
Control == {"c01", "c0b"}

Escape(c) ==
  CASE c \in DOMAIN Letter -> <<"\\", Letter[c]>>
    [] c \in Control -> <<"\\", "u", c>>
    [] c \in {"\\", "\""} -> <<"\\", c>>
    [] OTHER -> <<c>>

Quoted(s) == <<"\"">> \o s \o <<"\"">>
VisitString(s) == Quoted(FlattenSeq([i \in 1 .. Len(s) |-> Escape(s[i])]))

\* zeros.take_front.
TakeZeros(n) == [i \in 1 .. (IF n > Zeros THEN Zeros ELSE n) |-> "0"]

\* A number with the digits s before the exponent.
Plain(s, exponent) ==
  LET k == Len(s)
      n == exponent + k
  IN  CASE k <= n /\ n <= 21 -> s \o TakeZeros(n - k)
        [] n < k /\ n > 0 /\ n <= 21 -> SubSeq(s, 1, n) \o <<".">> \o SubSeq(s, n + 1, k)
        [] n <= 0 /\ n > -6 -> <<"0", ".">> \o TakeZeros(-n) \o s
        [] OTHER -> <<s[1]>> \o (IF k > 1 THEN <<".">> \o Tail(s) ELSE <<>>) \o <<"e">> \o
                    (IF n >= 1 THEN <<"+">> ELSE <<>>) \o Signed(n - 1)

VisitFloat(f) ==
  IF f[1] = "nan" THEN <<"NaN">>
  ELSE (IF f[2] THEN <<"-">> ELSE <<>>) \o
       (IF f[1] = "inf" THEN <<"Infinity">> ELSE IF f[3] = <<>> THEN <<"0">> ELSE Plain(f[3], f[4]))

Special(key, text) == <<"{", "\"", key, "\"", ":">> \o text \o <<"}">>
Commas(parts) == FlattenSeq([i \in 1 .. Len(parts) |-> IF i = 1 THEN parts[i] ELSE <<",">> \o parts[i]])

RECURSIVE Encode(_)
Encode(node) ==
  LET v == node[2] IN
  CASE node[1] = "null" -> <<"null">>
    [] node[1] = "bool" -> IF v THEN <<"true">> ELSE <<"false">>
    [] node[1] = "int" -> Signed(v)
    [] node[1] = "float" -> Special("float", Quoted(VisitFloat(v)))
    [] node[1] = "string" -> VisitString(v)
    [] node[1] = "bytes" -> Special("base64", Quoted(Base64[v]))
    [] node[1] = "link" -> Special("cid", Quoted(<<"u">> \o CIDText[v]))
    [] node[1] = "list" -> <<"[">> \o Commas([i \in 1 .. Len(v) |-> Encode(v[i])]) \o <<"]">>
    [] node[1] = "map" ->
         Special("map", <<"{">> \o Commas([i \in 1 .. Len(v) |-> VisitString(v[i][1]) \o <<":">> \o Encode(v[i][2])]) \o <<"}">>)

-----------------------------------------------------------------------------
(* llvm::json::parse of a string and StringRef::getAsDouble *)

RECURSIVE Unescape(_)
Unescape(s) ==
  IF s = <<>> THEN <<>>
  ELSE IF s[1] # "\\" THEN <<s[1]>> \o Unescape(Tail(s))
  ELSE IF s[2] = "u" THEN <<s[3]>> \o Unescape(SubSeq(s, 4, Len(s)))
  ELSE (IF s[2] \in {"\\", "\""} THEN <<s[2]>> ELSE <<CHOOSE c \in DOMAIN Letter : Letter[c] = s[2]>>) \o
       Unescape(SubSeq(s, 3, Len(s)))

\* Every control character is escaped and every escape is one that there is.
WellEscaped(s) ==
  /\ \A i \in 1 .. Len(s) : s[i] \notin DOMAIN Letter /\ (s[i] \in Control => i > 2 /\ s[i - 1] = "u" /\ s[i - 2] = "\\")
  /\ LET esc[i \in 0 .. Len(s)] == i > 0 /\ s[i] = "\\" /\ ~esc[i - 1]
     IN  \A i \in 1 .. Len(s) : esc[i] =>
           /\ i < Len(s)
           /\ s[i + 1] \in {"\\", "\"", "b", "t", "n", "f", "r"} \/ (s[i + 1] = "u" /\ i + 1 < Len(s) /\ s[i + 2] \in Control)

\* The digits without zeros at their ends, and the exponent of the last one.
Strip(neg, digits, exponent) ==
  LET some == {i \in 1 .. Len(digits) : digits[i] # "0"}
      last == CHOOSE i \in some : \A j \in some : j <= i
      first == CHOOSE i \in some : \A j \in some : i <= j
  IN  IF some = {} THEN <<"number", neg, <<>>, 0>>
      ELSE <<"number", neg, SubSeq(digits, first, last), exponent + Len(digits) - last>>

\* Where c is in s, or the place after its end.
Find(s, c) == IF c \in ToSet(s) THEN CHOOSE i \in 1 .. Len(s) : s[i] = c ELSE Len(s) + 1

IsNumber(t) ==
  LET e == Find(t, "e")
      m == SubSeq(t, 1, e - 1)
      digits(s) == s # <<>> /\ \A i \in 1 .. Len(s) : IsDigit(s[i])
  IN  /\ digits(Remove(m, "."))
      /\ e <= Len(t) => LET x == SubSeq(t, e + 1, Len(t))
                        IN  digits(IF x # <<>> /\ x[1] \in {"+", "-"} THEN Tail(x) ELSE x)

GetAsDouble(text) ==
  LET neg == text[1] = "-"
      t == IF neg THEN Tail(text) ELSE text
      e == Find(t, "e")
      m == SubSeq(t, 1, e - 1)
      x == SubSeq(t, e + 1, Len(t))
      power == IF x = <<>> THEN 0
               ELSE IF x[1] = "-" THEN -Number(Tail(x)) ELSE Number(IF x[1] = "+" THEN Tail(x) ELSE x)
  IN  Strip(neg, Remove(m, "."), power - (IF Find(m, ".") <= Len(m) THEN Len(m) - Find(m, ".") ELSE 0))

-----------------------------------------------------------------------------
(* loadFromJSON *)

Error == [ok |-> FALSE, node |-> <<"null", 0>>, rest |-> <<>>]
Return(node, rest) == [ok |-> TRUE, node |-> node, rest |-> rest]

StartsWith(json, c) == json # <<>> /\ json[1] = c
Drop(json, n) == SubSeq(json, n + 1, Len(json))

RECURSIVE Skip(_)
Skip(json) == IF StartsWith(json, " ") THEN Skip(Tail(json)) ELSE json

\* The place of the quote that ends the string, or one after the text.
RECURSIVE EndQuote(_, _)
EndQuote(json, i) ==
  IF i > Len(json) THEN Len(json) + 1
  ELSE IF json[i] = "\"" THEN i ELSE EndQuote(json, IF json[i] = "\\" THEN i + 2 ELSE i + 1)

StringUpto(json, end) ==
  LET inside == SubSeq(json, 2, end - 1)
  IN  IF ~StartsWith(json, "\"") \/ end > Len(json) \/ ~WellEscaped(inside) THEN Error
      ELSE Return(<<"string", Unescape(inside)>>, Drop(json, end))
ConsumeJSONString(text) == LET json == Skip(text) IN StringUpto(json, EndQuote(json, 2))

\* consumeInteger: all the digits there are.
Integer(json, neg, max) ==
  LET end == CHOOSE i \in 0 .. Len(json) :
               (\A j \in 1 .. i : IsDigit(json[j])) /\ (i = Len(json) \/ ~IsDigit(json[i + 1]))
      n == Number(SubSeq(json, 1, end))
  IN  IF end = 0 \/ n > max THEN Error ELSE Return(<<"int", IF neg THEN -n ELSE n>>, Drop(json, end))

\* An object with one pair that stands for another node.
SpecialObject(pairs, rest) ==
  LET key == pairs[1][1]
      value == pairs[1][2]
      text == value[2]
  IN  CASE Len(pairs) # 1 -> Error
        [] Len(pairs) = 1 /\ key = <<"map">> /\ value[1] = "map" -> Return(value, rest)
        [] Len(pairs) = 1 /\ key = <<"cid">> /\ value[1] = "string" ->
             IF StartsWith(text, "u") /\ Tail(text) \in Range(CIDText)
             THEN Return(<<"link", CHOOSE c \in DOMAIN CIDText : CIDText[c] = Tail(text)>>, rest) ELSE Error
        [] Len(pairs) = 1 /\ key = <<"base64">> /\ value[1] = "string" ->
             IF text \in Range(Base64)
             THEN Return(<<"bytes", CHOOSE b \in DOMAIN Base64 : Base64[b] = text>>, rest) ELSE Error
        [] Len(pairs) = 1 /\ key = <<"float">> /\ value[1] = "string" ->
             CASE text = <<"NaN">> -> Return(<<"float", <<"nan">> >>, rest)
               [] text = <<"Infinity">> -> Return(<<"float", <<"inf", FALSE>> >>, rest)
               [] text = <<"-", "Infinity">> -> Return(<<"float", <<"inf", TRUE>> >>, rest)
               [] text # <<>> /\ IsNumber(IF text[1] = "-" THEN Tail(text) ELSE text) ->
                    Return(<<"float", GetAsDouble(text)>>, rest)
               [] OTHER -> Error
        [] OTHER -> Error

\* The end of a list or of an object.
Close(json, bracket, node) == IF StartsWith(json, bracket) THEN Return(node, Tail(json)) ELSE Error

\* try_emplace into the order of NodeMap, shorter keys first; the keys of one length
\* are told apart by their first character.
Order == <<"a", "b", "\"", "\\", "c0a", "c01", "map", "cid", "base64", "float">>
Before(k, l) ==
  \/ Len(k) < Len(l)
  \/ Len(k) = Len(l) /\ k # <<>> /\ (CHOOSE i \in 1 .. Len(Order) : Order[i] = k[1]) < (CHOOSE i \in 1 .. Len(Order) : Order[i] = l[1])
Emplace(pairs, key, value) ==
  InsertAt(pairs, Cardinality({i \in 1 .. Len(pairs) : Before(pairs[i][1], key)}) + 1, <<key, value>>)

\* try_emplace finds the key.
Known(pairs, key) == \E i \in 1 .. Len(pairs) : pairs[i][1] = key

RECURSIVE ConsumeJSON(_, _), Items(_, _), Pairs(_, _, _)

AfterItem(rest, all) == IF StartsWith(rest, ",") THEN Items(Tail(rest), all) ELSE Close(rest, "]", <<"list", all>>)
WithItem(item, sofar) == IF ~item.ok THEN Error ELSE AfterItem(Skip(item.rest), Append(sofar, item.node))
Items(json, sofar) == WithItem(ConsumeJSON(json, TRUE), sofar)

\* Inside of an object that stands for another one, objects are maps, and the other way round.
AfterPair(rest, special, all) ==
  IF StartsWith(rest, ",") THEN Pairs(Tail(rest), special, all) ELSE Close(rest, "}", <<"map", all>>)
WithValue(key, value, special, sofar) ==
  IF ~value.ok \/ Known(sofar, key) THEN Error
  ELSE AfterPair(Skip(value.rest), special, Emplace(sofar, key, value.node))
WithKey(key, colon, special, sofar) ==
  IF ~key.ok \/ ~StartsWith(colon, ":") THEN Error
  ELSE WithValue(key.node[2], ConsumeJSON(Tail(colon), ~special), special, sofar)
Pairs(json, special, sofar) == LET key == ConsumeJSONString(json) IN WithKey(key, Skip(key.rest), special, sofar)

List(inside) == IF StartsWith(inside, "]") THEN Return(<<"list", <<>> >>, Tail(inside)) ELSE Items(inside, <<>>)
Object(inside, special) ==
  IF StartsWith(inside, "}") THEN Return(<<"map", <<>> >>, Tail(inside)) ELSE Pairs(inside, special, <<>>)
Meant(object, special) == IF ~object.ok \/ ~special THEN object ELSE SpecialObject(object.node[2], object.rest)

ConsumeValue(json, special) ==
  CASE json = <<>> -> Error
    [] StartsWith(json, "false") -> Return(<<"bool", FALSE>>, Tail(json))
    [] StartsWith(json, "true") -> Return(<<"bool", TRUE>>, Tail(json))
    [] StartsWith(json, "null") -> Return(<<"null", 0>>, Tail(json))
    [] StartsWith(json, "-") -> IF StartsWith(Tail(json), "0") THEN Return(<<"int", 0>>, Drop(json, 2))
                                ELSE Integer(Tail(json), TRUE, IMax + 1)
    [] StartsWith(json, "0") -> Return(<<"int", 0>>, Tail(json))
    [] json # <<>> /\ IsDigit(json[1]) /\ json[1] # "0" -> Integer(json, FALSE, UMax)
    [] StartsWith(json, "\"") -> ConsumeJSONString(json)
    [] StartsWith(json, "[") -> List(Skip(Tail(json)))
    [] StartsWith(json, "{") -> Meant(Object(Skip(Tail(json)), special), special)
    [] OTHER -> Error
ConsumeJSON(text, special) == ConsumeValue(Skip(text), special)

\* loadFromJSON.
Whole(r) == IF r.ok /\ Skip(r.rest) = <<>> THEN r ELSE Error
Load(json) == Whole(ConsumeJSON(json, TRUE))

-----------------------------------------------------------------------------
(* A node is written and read, or a text is read and written *)

VARIABLES item, text, loaded

vars == <<item, text, loaded>>

Init ==
  /\ \/ item \in Nodes /\ text = <<>>
     \/ item = <<"none", 0>> /\ text \in Texts
  /\ loaded = Error

Save ==
  /\ item[1] # "none" /\ text = <<>>
  /\ text' = Encode(item)
  /\ UNCHANGED <<item, loaded>>

LoadIt ==
  /\ ~loaded.ok /\ (item[1] = "none" \/ text # <<>>)
  /\ loaded' = Load(text)
  /\ UNCHANGED <<item, text>>

Next == Save \/ LoadIt

Spec == Init /\ [][Next]_vars

\* The text of a node is read as that node, also when keys are the names of special
\* objects, when strings have quotes and backslashes, and when numbers need zeros or an
\* exponent; and a reader that got only the beginning of a text notices, unless it is a
\* number.
RoundTrip ==
  item[1] # "none" /\ text # <<>> =>
    \A i \in 0 .. Len(text) :
      \A r \in {Load(SubSeq(text, 1, i))} : IF i = Len(text) THEN r.ok /\ r.node = item ELSE item[1] = "int" \/ ~r.ok

\* A text that is accepted, whatever its spaces and its order of keys, is a node whose
\* own text is accepted as the same node, and no key of a map was lost or came twice.
OneForm ==
  loaded.ok =>
    /\ Load(Encode(loaded.node)).node = loaded.node
    /\ loaded.node[1] = "map" => \A i, j \in 1 .. Len(loaded.node[2]) :
         i < j => Before(loaded.node[2][i][1], loaded.node[2][j][1])

=============================================================================

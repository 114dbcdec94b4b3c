------------------------------ MODULE NodeCBOR ------------------------------
(***************************************************************************)
(* Nodes as CBOR (memodb/lib/Node.cpp, CBOREncoder.cpp and NodeVisitor.cpp)*)
(* A node is a tuple that begins with its kind; a map is the sequence of   *)
(* its pairs in the order of NodeMap.  The sizes are parameters so that    *)
(* every width of an argument occurs with small numbers: in the code       *)
(* Direct is 24 and a byte has 256 values, so that eight bytes are 64      *)
(* bits; the first byte of an item is 32 times its major type plus its     *)
(* minor type whatever Byte is.                                            *)
(***************************************************************************)
EXTENDS Integers, FiniteSets, SequencesExt

CONSTANTS
  Byte,       \* how many values a byte has
  Direct,     \* arguments below this are part of the first byte
  Illegal,    \* bytes that no UTF-8 string has
  ValidCID,   \* the byte strings that CID::fromBytes accepts
  NonFinite,  \* floats, as their eight bytes, that are NaN or infinite
  Widen(_, _), \* the eight bytes of a float of two, four or eight bytes
  IdentityMax, \* the longest content that is made part of its CID
  Nodes,      \* nodes to be saved
  Inputs      \* byte strings to be loaded

\* The largest numbers of eight bytes, unsigned and signed.
UMax == Byte ^ 8 - 1
IMax == Byte ^ 8 \div 2 - 1

-----------------------------------------------------------------------------
(* CBOREncoder *)

\* n as w bytes, the most significant one first.
Digits(n, w) == [i \in 1 .. w |-> (n \div Byte ^ (w - i)) % Byte]

\* Mutant: an argument of the largest size is cut.
EncodeHeadCut(major, n) ==
  IF n < Direct THEN <<major * 32 + n>>
  ELSE LET w == CHOOSE e \in 0 .. 2 : n < Byte ^ (2 ^ e) \/ e = 2
       IN <<major * 32 + 24 + w>> \o Digits(n, 2 ^ w)

\* encodeHead: the argument in the first byte, or in one, two, four or eight more.
EncodeHead(major, n) ==
  IF n < Direct THEN <<major * 32 + n>>
  ELSE LET w == CHOOSE e \in 0 .. 3 : n < Byte ^ (2 ^ e) /\ \A d \in 0 .. e - 1 : n >= Byte ^ (2 ^ d)
       IN <<major * 32 + 24 + w>> \o Digits(n, 2 ^ w)

\* visitNode.  A float is always written with its eight bytes.
RECURSIVE Encode(_)
Encode(node) ==
  LET v == node[2] IN
  CASE node[1] = "null" -> <<7 * 32 + 22>>
    [] node[1] = "bool" -> <<7 * 32 + (IF v THEN 21 ELSE 20)>>
    [] node[1] = "int" -> IF v < 0 THEN EncodeHead(1, -(v + 1)) ELSE EncodeHead(0, v)
    [] node[1] = "float" -> <<7 * 32 + 27>> \o v
    [] node[1] = "string" -> EncodeHead(3, Len(v)) \o v
    [] node[1] = "bytes" -> EncodeHead(2, Len(v)) \o v
    [] node[1] = "link" -> EncodeHead(6, 42) \o EncodeHead(2, Len(v) + 1) \o <<0>> \o v
    [] node[1] = "list" -> EncodeHead(4, Len(v)) \o FlattenSeq([i \in 1 .. Len(v) |-> Encode(v[i])])
    [] node[1] = "map" ->
         EncodeHead(5, Len(v)) \o
         FlattenSeq([i \in 1 .. Len(v) |-> Encode(<<"string", v[i][1]>>) \o Encode(v[i][2])])

\* isValidDAGCBOR.
RECURSIVE DAG(_)
DAG(node) ==
  LET v == node[2] IN
  CASE node[1] = "int" -> v <= IMax
    [] node[1] = "float" -> v \notin NonFinite
    [] node[1] = "list" -> \A i \in 1 .. Len(v) : DAG(v[i])
    [] node[1] = "map" -> \A i \in 1 .. Len(v) : DAG(v[i][2])
    [] OTHER -> TRUE

-----------------------------------------------------------------------------
(* NodeMap: shorter keys first, keys of one length in lexicographic order *)

Shorter(a, b) ==
  \/ Len(a) < Len(b)
  \/ /\ Len(a) = Len(b)
     /\ \E i \in 1 .. Len(a) : a[i] < b[i] /\ \A j \in 1 .. i - 1 : a[j] = b[j]

\* Mutant: a pair goes to the end, where a sorted encoding would have it.
InsertOrAssignLast(m, key, value) == Append(SelectSeq(m, LAMBDA p : p[1] # key), <<key, value>>)

\* insert_or_assign at the lower bound of the key.
InsertOrAssign(m, key, value) ==
  LET at == Cardinality({i \in 1 .. Len(m) : Shorter(m[i][1], key)}) + 1
  IN  IF at <= Len(m) /\ m[at][1] = key THEN [m EXCEPT ![at] = <<key, value>>]
      ELSE InsertAt(m, at, <<key, value>>)

-----------------------------------------------------------------------------
(* loadFromCBORSequence; what it returns is ok, the node and the rest, or not ok *)

Error == [ok |-> FALSE, node |-> <<"null", 0>>, rest |-> <<>>]
Return(node, rest) == [ok |-> TRUE, node |-> node, rest |-> rest]

NumberOf(s) == FoldLeft(LAMBDA n, d : n * Byte + (d % Byte), 0, s)

\* start: the first byte and the argument.
StartItem(in) ==
  LET major == in[1] \div 32
      minor == in[1] % 32
      w == 2 ^ (minor - 24)
      head == [ok |-> TRUE, major |-> major, minor |-> minor, arg |-> minor, indefinite |-> FALSE, rest |-> Tail(in)]
      bad == [ok |-> FALSE, major |-> 0, minor |-> 0, arg |-> 0, indefinite |-> FALSE, rest |-> <<>>]
  IN  CASE in = <<>> -> bad
        [] in # <<>> /\ minor < 24 -> head
        [] in # <<>> /\ minor \in 24 .. 27 ->
             IF Len(in) - 1 < w THEN bad
             ELSE [head EXCEPT !.arg = NumberOf(SubSeq(in, 2, w + 1)), !.rest = SubSeq(in, w + 2, Len(in))]
        [] in # <<>> /\ minor = 31 /\ major \in 2 .. 5 -> [head EXCEPT !.arg = 0, !.indefinite = TRUE]
        [] OTHER -> bad

Break(in) == in # <<>> /\ in[1] = 255

\* The parts of a string; h is its head, the parts of an indefinite one have their own.
RECURSIVE Chunks(_, _, _)
WithChunk(h, part, sofar) ==
  IF ~part.ok \/ part.major # h.major \/ part.indefinite \/ Len(part.rest) < part.arg THEN Error
  ELSE Chunks(h, SubSeq(part.rest, part.arg + 1, Len(part.rest)), sofar \o SubSeq(part.rest, 1, part.arg))
Chunks(h, in, sofar) ==
  IF Break(in) THEN Return(<<"bytes", sofar>>, Tail(in)) ELSE WithChunk(h, StartItem(in), sofar)

Contents(h) ==
  IF h.indefinite THEN Chunks(h, h.rest, <<>>)
  ELSE IF Len(h.rest) < h.arg THEN Error
  ELSE Return(<<"bytes", SubSeq(h.rest, 1, h.arg)>>, SubSeq(h.rest, h.arg + 1, Len(h.rest)))

\* Byte strings, text strings and, inside of tag 42, CIDs with their prefix 0.
StringNode(h, is_cid, s) ==
  LET bytes == s.node[2]
  IN  CASE ~s.ok -> Error
        [] s.ok /\ is_cid ->
             IF bytes # <<>> /\ bytes[1] = 0 /\ Tail(bytes) \in ValidCID
             THEN Return(<<"link", Tail(bytes)>>, s.rest) ELSE Error
        [] s.ok /\ h.major = 2 /\ ~is_cid -> s
        [] s.ok /\ h.major = 3 ->
             IF ToSet(bytes) \cap Illegal # {} THEN Error ELSE Return(<<"string", bytes>>, s.rest)
LoadString(h, is_cid) == StringNode(h, is_cid, Contents(h))

\* Simple values and floats; decode_float makes eight bytes of the narrower ones.
LoadSimple(h) ==
  CASE h.minor = 20 -> Return(<<"bool", FALSE>>, h.rest)
    [] h.minor = 21 -> Return(<<"bool", TRUE>>, h.rest)
    [] h.minor \in {22, 23} -> Return(<<"null", 0>>, h.rest)
    [] h.minor \in 25 .. 27 -> Return(<<"float", Widen(h.minor, h.arg)>>, h.rest)
    [] OTHER -> Error

RECURSIVE Load(_), LoadList(_, _, _, _), LoadMap(_, _, _, _)

\* next_item, with the number of items left unless it is indefinite.
More(h, left, in) == IF h.indefinite THEN ~Break(in) ELSE left > 0
After(h, in) == IF h.indefinite THEN Tail(in) ELSE in

WithItem(h, left, item, sofar) ==
  IF ~item.ok THEN Error ELSE LoadList(h, left - 1, item.rest, Append(sofar, item.node))
LoadList(h, left, in, sofar) ==
  IF ~More(h, left, in) THEN Return(<<"list", sofar>>, After(h, in))
  ELSE WithItem(h, left, Load(in), sofar)

WithValue(h, left, key, value, sofar) ==
  IF ~value.ok THEN Error ELSE LoadMap(h, left - 1, value.rest, InsertOrAssign(sofar, key, value.node))
WithKey(h, left, key, sofar) ==
  IF ~key.ok \/ key.node[1] # "string" THEN Error ELSE WithValue(h, left, key.node[2], Load(key.rest), sofar)
LoadMap(h, left, in, sofar) ==
  IF ~More(h, left, in) THEN Return(<<"map", sofar>>, After(h, in)) ELSE WithKey(h, left, Load(in), sofar)

LoadItem(h, is_cid) ==
  CASE ~h.ok \/ (is_cid /\ h.major # 2) -> Error
    [] OTHER ->
       CASE h.major = 0 -> Return(<<"int", h.arg>>, h.rest)
         [] h.major = 1 -> IF h.arg > IMax THEN Error ELSE Return(<<"int", -h.arg - 1>>, h.rest)
         [] h.major \in {2, 3} -> LoadString(h, is_cid)
         [] h.major = 4 -> LoadList(h, h.arg, h.rest, <<>>)
         [] h.major = 5 -> LoadMap(h, h.arg, h.rest, <<>>)
         [] h.major = 6 -> Error
         [] h.major = 7 -> LoadSimple(h)
LoadTagged(first) ==
  LET is_cid == first.major = 6 /\ first.arg = 42
  IN  LoadItem(IF is_cid THEN StartItem(first.rest) ELSE first, is_cid)
Load(in) == LoadTagged(StartItem(in))

\* loadFromCBOR: nothing may follow.
Whole(r) == IF r.ok /\ r.rest = <<>> THEN r ELSE Error
LoadFromCBOR(in) == Whole(Load(in))

-----------------------------------------------------------------------------
(* Blocks: a CID with a codec and either the content itself or its hash *)

\* CID::calculate; a hash is as good as what it is the hash of.
Calculate(codec, content, no_identity) ==
  LET identity == ~no_identity /\ Len(content) <= IdentityMax
  IN  [codec |-> codec, identity |-> identity, hash |-> IF identity THEN content ELSE <<"hash", content>>]

\* saveAsIPLD.
SaveAsIPLD(node, no_identity) ==
  LET raw == node[1] = "bytes"
      content == IF raw THEN node[2] ELSE Encode(node)
      codec == IF raw THEN "raw" ELSE IF DAG(node) THEN "dag-cbor" ELSE "dag-cbor-unrestricted"
      cid == Calculate(codec, content, no_identity)
  IN  [cid |-> cid, content |-> IF cid.identity THEN <<>> ELSE content]

\* loadFromIPLD.
LoadFromIPLD(cid, payload) ==
  LET content == IF cid.identity THEN cid.hash ELSE payload
  IN  CASE cid.identity /\ payload # <<>> -> Error
        [] cid.codec = "raw" -> Return(<<"bytes", content>>, <<>>)
        [] OTHER -> LoadFromCBOR(content)

-----------------------------------------------------------------------------
(* Node::compare, for nodes of one kind that are not containers *)

-----------------------------------------------------------------------------
(* One node is saved, or one byte string is loaded *)

VARIABLES item, data, loaded

vars == <<item, data, loaded>>

Init ==
  /\ \/ item \in Nodes /\ data = <<>>
     \/ item = <<"none", 0>> /\ data \in Inputs
  /\ loaded = Error

Save ==
  /\ item[1] # "none" /\ data = <<>>
  /\ data' = Encode(item)
  /\ UNCHANGED <<item, loaded>>

LoadIt ==
  /\ ~loaded.ok /\ (item[1] = "none" \/ data # <<>>)
  /\ loaded' = Load(data)
  /\ UNCHANGED <<item, data>>

Next == Save \/ LoadIt

Spec == Init /\ [][Next]_vars

\* What is saved is loaded again, with nothing left over, for every kind of node and
\* every width of an argument; no part of it is a whole item, so a file that was cut or
\* a sequence of items is never read wrongly.
RoundTrip ==
  item[1] # "none" /\ data # <<>> =>
    LET longer == data \o <<7, 255>>
    IN  /\ LoadFromCBOR(data) = Return(item, <<>>)
        /\ \A i \in 0 .. Len(longer) : \A r \in {Load(SubSeq(longer, 1, i))} :
             IF i < Len(data) THEN ~r.ok ELSE r = Return(item, SubSeq(longer, Len(data) + 1, i))

\* Whatever form an item comes in (indefinite, with a longer head, keys in another order
\* or twice), its node is saved in one form, which is loaded as the same node, has no
\* more bytes unless a float was widened, and has keys in the order of the encoding.
OneForm ==
  loaded.ok /\ DAG(loaded.node) =>
    \A again \in {Encode(loaded.node)} :
    /\ Load(again) = Return(loaded.node, <<>>)
    /\ loaded.node[1] = "float" \/ Len(again) <= Len(data) - Len(loaded.rest)
    /\ loaded.node[1] = "map" => \A i, j \in 1 .. Len(loaded.node[2]) :
         i < j => Shorter(loaded.node[2][i][1], loaded.node[2][j][1])

\* A block is loaded as the node it was saved from, whether its CID holds it or a hash;
\* and no two nodes have the same CID, so storing one never stands for another.
Blocks ==
  item[1] # "none" /\ data # <<>> =>
    /\ \A no_identity \in BOOLEAN :
         \A block \in {SaveAsIPLD(item, no_identity)} : LoadFromIPLD(block.cid, block.content) = Return(item, <<>>)
    /\ \A other \in Nodes \ {item} : SaveAsIPLD(other, FALSE).cid # SaveAsIPLD(item, FALSE).cid

=============================================================================

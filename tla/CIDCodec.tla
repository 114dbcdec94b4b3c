------------------------------ MODULE CIDCodec ------------------------------
(***************************************************************************)
(* Multibase texts and CIDs (memodb/lib/Multibase.cpp and CID.cpp).  A     *)
(* byte is a number below 2^ByteBits; in the code ByteBits is 8 and a char *)
(* of a base stands for 4, 5 or 6 bits.                                    *)
(***************************************************************************)
EXTENDS Integers, FiniteSets, SequencesExt

CONSTANTS
  ByteBits,
  AllBases,   \* records of prefix, bits, chars (a sequence) and pad ("" for none)
  VarIntMax,  \* the most bytes of a varint
  EnumMax,    \* the largest number that fits Multicodec
  CIDv1, Identity, Blake, ContentTypes,
  BlakeSize,  \* the bytes of a hash
  ByteStrings, Texts  \* what is encoded and what is decoded

Nothing == [ok |-> FALSE, value |-> <<>>, rest |-> <<>>]
Some(value, rest) == [ok |-> TRUE, value |-> value, rest |-> rest]

-----------------------------------------------------------------------------
(* BitwiseBase *)

\* The bits of n, the most significant first, and back.
ToBits(n, w) == [i \in 1 .. w |-> (n \div 2 ^ (w - i)) % 2]
FromBits(s) == FoldLeft(LAMBDA n, b : 2 * n + b, 0, s)
Take(s, n) == SubSeq(s, 1, IF n < Len(s) THEN n ELSE Len(s))
Drop(s, n) == SubSeq(s, n + 1, Len(s))
Fill(s, n, x) == s \o [i \in 1 .. n - Len(s) |-> x]

\* How many chars, and how many bytes, are a group of whole chars and whole bytes.
GroupChars(base) == CHOOSE n \in 1 .. ByteBits : n * base.bits % ByteBits = 0 /\ \A m \in 1 .. n - 1 : m * base.bits % ByteBits # 0
GroupBytes(base) == (GroupChars(base) * base.bits) \div ByteBits

Value(c, base) == (CHOOSE i \in 1 .. Len(base.chars) : base.chars[i] = c) - 1

UnusedChar(n, base) == n * base.bits % ByteBits >= base.bits

\* One group of the decoder; n is the number of its chars before the padding.
DecodeGroup(group, base) ==
  LET n == Cardinality({i \in 1 .. Len(group) : \A j \in 1 .. i : group[j] # base.pad})
      bits == FlattenSeq([i \in 1 .. n |-> ToBits(Value(group[i], base), base.bits)])
  IN  IF \/ n = 0
         \/ \E i \in 1 .. n : group[i] \notin ToSet(base.chars)
         \/ \E i \in n + 1 .. Len(group) : group[i] # base.pad
         \/ base.pad # "" /\ Len(group) < GroupChars(base)
         \/ UnusedChar(n, base)
      THEN Nothing
      ELSE Some([i \in 1 .. (n * base.bits) \div ByteBits |-> FromBits(SubSeq(bits, (i - 1) * ByteBits + 1, i * ByteBits))], <<>>)

\* decodeWithoutPrefix; nothing may follow a group with padding.
RECURSIVE DecodeWithoutPrefix(_, _)
DecodeWithoutPrefix(str, base) ==
  IF str = <<>> THEN Some(<<>>, <<>>)
  ELSE LET g == DecodeGroup(Take(str, GroupChars(base)), base)
           rest == Drop(str, GroupChars(base))
           others == DecodeWithoutPrefix(rest, base)
       IN  IF ~g.ok \/ ~others.ok \/ (rest # <<>> /\ Len(g.value) < GroupBytes(base)) THEN Nothing
           ELSE Some(g.value \o others.value, <<>>)

\* encodeWithoutPrefix.
RECURSIVE EncodeWithoutPrefix(_, _)
EncodeWithoutPrefix(bytes, base) ==
  IF bytes = <<>> THEN <<>>
  ELSE LET group == Take(bytes, GroupBytes(base))
           valid == FlattenSeq([i \in 1 .. Len(group) |-> ToBits(group[i], ByteBits)])
           bits == Fill(valid, GroupChars(base) * base.bits, 0)
           n == (Len(valid) + base.bits - 1) \div base.bits
           chars == [i \in 1 .. n |-> base.chars[FromBits(SubSeq(bits, (i - 1) * base.bits + 1, i * base.bits)) + 1]]
       IN  (IF base.pad = "" THEN chars ELSE Fill(chars, GroupChars(base), base.pad)) \o
           EncodeWithoutPrefix(Drop(bytes, GroupBytes(base)), base)

\* Multibase::decode and encode.
Decode(str) ==
  IF str = <<>> \/ \A base \in AllBases : base.prefix # str[1] THEN Nothing
  ELSE DecodeWithoutPrefix(Tail(str), CHOOSE base \in AllBases : base.prefix = str[1])
EncodeIn(bytes, base) == <<base.prefix>> \o EncodeWithoutPrefix(bytes, base)

-----------------------------------------------------------------------------
(* CIDs: a record of content type, hash type, hash and bytes *)

Half == 2 ^ (ByteBits - 1)

RECURSIVE WriteVarInt(_)
WriteVarInt(n) == IF n < Half THEN <<n>> ELSE <<(n % Half) + Half>> \o WriteVarInt(n \div Half)

CIDBytes(content_type, hash_type, hash) ==
  WriteVarInt(CIDv1) \o WriteVarInt(content_type) \o WriteVarInt(hash_type) \o WriteVarInt(Len(hash)) \o hash

MakeCID(content_type, hash_type, hash) ==
  [type |-> content_type, hash_type |-> hash_type, hash |-> hash, bytes |-> CIDBytes(content_type, hash_type, hash)]

\* calculate chooses what is shorter, as the type of a hash is two bytes longer than
\* that of no hash; the hash of content is any BlakeSize bytes.
IdentityFits(content) == Len(content) <= BlakeSize + 2
Calculate(content_type, content, hash) ==
  IF IdentityFits(content) THEN MakeCID(content_type, Identity, content) ELSE MakeCID(content_type, Blake, hash)

TrailingZero(b, i) == b = 0 /\ i > 1

\* loadVarIntFromSequence.
LoadVarInt(bytes) ==
  LET n == SelectInSeq(bytes, LAMBDA b : b < Half)
  IN  IF n = 0 THEN Nothing
      ELSE IF n > VarIntMax \/ TrailingZero(bytes[n], n) THEN Nothing
      ELSE Some(FoldRight(LAMBDA b, v : v * Half + (b % Half), Take(bytes, n), 0), Drop(bytes, n))

\* The version, the content type and the hash type, which loadMulticodecFromSequence
\* loads, and the size of the hash.
LoadHeader(bytes) ==
  FoldLeft(LAMBDA before, i :
             IF ~before.ok THEN Nothing
             ELSE LET n == LoadVarInt(before.rest) IN
                  IF n.ok /\ (i < 4 => n.value <= EnumMax) THEN Some(Append(before.value, n.value), n.rest) ELSE Nothing,
           Some(<<>>, bytes), <<1, 2, 3, 4>>)

KnownHash(hash_type, size) == hash_type = Identity \/ (hash_type = Blake /\ size = BlakeSize)

\* loadFromSequence, with what follows its header.
Loaded(bytes, header) ==
  LET size == header.value[4]
      rest == Drop(header.rest, size)
  IN  IF ~header.ok THEN Nothing
      ELSE IF \/ header.value[1] # CIDv1 \/ Len(header.rest) < size \/ header.value[2] \notin ContentTypes
              \/ ~KnownHash(header.value[3], size)
      THEN Nothing
      ELSE Some([type |-> header.value[2], hash_type |-> header.value[3], hash |-> Take(header.rest, size),
                 bytes |-> Take(bytes, Len(bytes) - Len(rest))], rest)
LoadFromSequence(in) ==
  LET bytes == IF in # <<>> /\ in[1] = 0 THEN Tail(in) ELSE in IN Loaded(bytes, LoadHeader(bytes))

Whole(r) == IF r.ok /\ r.rest = <<>> THEN r ELSE Nothing
FromBytes(bytes) == Whole(LoadFromSequence(bytes))
ParseCID(text) == LET b == Decode(text) IN IF b.ok THEN FromBytes(b.value) ELSE Nothing

-----------------------------------------------------------------------------
(* One byte string or one text at a time *)

VARIABLES bytes, text

vars == <<bytes, text>>

Init == (bytes \in ByteStrings /\ text = <<>>) \/ (bytes = <<>> /\ text \in Texts)

\* Bytes are written in a base, or a text is read.
Write == text = <<>> /\ \E base \in AllBases : text' = EncodeIn(bytes, base) /\ UNCHANGED bytes
Read == text # <<>> /\ Decode(text).ok /\ bytes' = Decode(text).value /\ UNCHANGED text

Next == Write \/ Read

Spec == Init /\ [][Next]_vars

\* In every base, what is written is read again, and as a CID when it is one.
ReadsBack ==
  bytes # <<>> /\ text # <<>> => Decode(text) = Some(bytes, <<>>) /\ ParseCID(text) = FromBytes(bytes)

\* A text is read as bytes that are written as that text, but for the bits of its last
\* char that belong to no byte: the decoder takes no char, and no padding, too many.
OnlyPadBits ==
  text # <<>> => \A r \in {Decode(text)} : r.ok =>
    LET base == CHOOSE b \in AllBases : b.prefix = text[1]
        last == CHOOSE i \in 0 .. Len(text) : (i = 0 \/ text[i] # base.pad) /\ \A j \in i + 1 .. Len(text) : text[j] = base.pad
    IN  \A again \in {EncodeIn(r.value, base)} :
          Len(again) = Len(text) /\ \A i \in 1 .. Len(text) : i # last => again[i] = text[i]

\* One CID, one byte string: what is accepted has the bytes that its parts would be
\* written with, whatever follows it, and after the prefix 0 the same CID is found.
OneCID ==
  \A r \in {LoadFromSequence(bytes)} : r.ok =>
    LET cid == r.value IN
    /\ cid.bytes = CIDBytes(cid.type, cid.hash_type, cid.hash)
    /\ bytes \in {cid.bytes \o r.rest, <<0>> \o cid.bytes \o r.rest}
    /\ \A prefix \in {<<>>, <<0>>} : FromBytes(prefix \o cid.bytes) = Some(cid, <<>>)

\* The CID of any content is accepted, followed by other data or not, and is never longer than the CID of the other kind.
Calculated ==
  text = <<>> => \A type \in ContentTypes : LET cid == Calculate(type, bytes, [i \in 1 .. BlakeSize |-> i]) IN
    /\ LoadFromSequence(cid.bytes \o bytes) = Some(cid, bytes)
    /\ Len(cid.bytes) <= Len(CIDBytes(type, Blake, [i \in 1 .. BlakeSize |-> i]))

=============================================================================

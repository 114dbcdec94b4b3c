------------------------------ MODULE Bitstream ------------------------------
(***************************************************************************)
(* The bitstream reader and writer of bcdb (bcdb/lib/BitstreamReader.h and *)
(* .cpp, AlignedBitstreamWriter.h).  A stream is a sequence of bits; how   *)
(* the two pack bits into words is left out.                               *)
(*                                                                         *)
(* An operand of an abbreviation is <<"lit", value>>, <<"fixed", width>>,  *)
(* <<"vbr", width>>, <<"array", 0>>, <<"char6", 0>> or <<"blob", 0>>.      *)
(* The value of a record is [code, vals, blob], blob being NoBlob or bytes.*)
(***************************************************************************)
EXTENDS Integers, SequencesExt

\* A left fold in which each step has its value before the next is taken.
Steps(op(_, _), base, s) ==
  LET after[i \in 0..Len(s)] == IF i = 0 THEN base ELSE CHOOSE x \in {op(a, s[i]) : a \in {after[i - 1]}} : TRUE
  IN  after[Len(s)]

NoBlob == <<-1>>
NoInfo == [id \in {} |-> <<>>]

END_BLOCK == 0
ENTER_SUBBLOCK == 1
DEFINE_ABBREV == 2
UNABBREV_RECORD == 3
FIRST_APPLICATION_ABBREV == 4
BLOCKINFO_BLOCK_ID == 0
SETBID == 1

Encodings == <<"fixed", "vbr", "array", "char6", "blob">>
EncodingOf(op) == CHOOSE e \in 1..5 : Encodings[e] = op[1]
hasEncodingData(op) == op[1] \in {"fixed", "vbr"}

DecodeChar6(c) ==
  IF c < 26 THEN 97 + c ELSE IF c < 52 THEN 39 + c ELSE IF c < 62 THEN c - 4 ELSE IF c = 62 THEN 46 ELSE 95
EncodeChar6(v) == CHOOSE c \in 0..63 : DecodeChar6(c) = v

-----------------------------------------------------------------------------
(* The writer: [bits, code (CurCodeSize), abbrevs, scope, info, bid, aligned].  With  *)
(* aligned false it is LLVM's own writer, which does not pad counts.                  *)

Writer(aligned) == [bits |-> <<>>, code |-> 2, abbrevs |-> <<>>, scope |-> <<>>, info |-> NoInfo, bid |-> -1, aligned |-> aligned]

\* Values are below 2^31, so that the 32nd bit of a word is 0.
Bits(v, n) == [i \in 1..n |-> IF i > 31 THEN 0 ELSE (v \div 2^(i-1)) % 2]

Emit(w, v, n) == [w EXCEPT !.bits = @ \o Bits(v, n)]
EmitCode(w, v) == Emit(w, v, w.code)

Zeros(n) == [i \in 1..n |-> 0]
FlushToWord(w) == [w EXCEPT !.bits = @ \o Zeros((32 - (Len(@) % 32)) % 32)]

BackpatchWord(w, bitno, v) == [w EXCEPT !.bits = SubSeq(@, 1, bitno) \o Bits(v, 32) \o SubSeq(@, bitno + 33, Len(@))]

RECURSIVE VBR(_, _)
VBR(v, n) ==
  LET T == 2^(n-1) IN IF v >= T THEN Bits((v % T) + T, n) \o VBR(v \div T, n) ELSE Bits(v, n)

EmitVBR(w, v, n) == [w EXCEPT !.bits = @ \o VBR(v, n)]

MinAlign(n) == IF n % 2 = 1 THEN 1 ELSE IF n % 4 = 2 THEN 2 ELSE IF n % 8 = 4 THEN 4 ELSE 8

\* The stream would not be byte-aligned after this chunk and extra more bits.
MustContinue(at, n, extra) == (at + n + extra) % 8 # 0

RECURSIVE VBRAligned(_, _, _, _)
VBRAligned(v, n, at, extra) ==
  LET T == 2^(n-1)
  IN  IF v >= T \/ MustContinue(at, n, extra)
      THEN Bits((v % T) + T, n) \o VBRAligned(v \div T, n, at + n, extra) ELSE Bits(v, n)

EmitVBRAligned(w, v, n, extra) ==
  LET at == Len(w.bits) % 32
  IN  IF ~w.aligned \/ at % MinAlign(n) # 0 THEN EmitVBR(w, v, n)
      ELSE [w EXCEPT !.bits = @ \o VBRAligned(v, n, at, extra)]

getBlockInfo(info, id) == IF id \in DOMAIN info THEN info[id] ELSE <<>>

EnterSubblock(w, id, codelen) ==
  LET header == FlushToWord(EmitVBR(EmitVBR(EmitCode(w, ENTER_SUBBLOCK), id, 8), codelen, 4))
  IN  [Emit(header, 0, 32) EXCEPT
         !.code = codelen, !.abbrevs = getBlockInfo(w.info, id),
         !.scope = Append(@, [code |-> w.code, abbrevs |-> w.abbrevs, start |-> Len(header.bits)])]

\* The words of a block, not counting the size field at start.
SizeInWords(start, end) == (end - start) \div 32 - 1

ExitBlock(w) ==
  LET b == Last(w.scope)
      tail == FlushToWord(EmitCode(w, END_BLOCK))
  IN  [BackpatchWord(tail, b.start, SizeInWords(b.start, Len(tail.bits))) EXCEPT !.code = b.code, !.abbrevs = b.abbrevs, !.scope = Front(@)]

EmitField(w, op, v) ==
  CASE op[1] = "lit" -> w
    [] op[1] = "fixed" -> Emit(w, v, op[2])
    [] op[1] = "vbr" -> IF op[2] = 0 THEN w ELSE EmitVBR(w, v, op[2])
    [] op[1] = "char6" -> Emit(w, EncodeChar6(v), 6)

emitBlob(w, bytes) ==
  LET at == FlushToWord(EmitVBR(w, Len(bytes), 6))
  IN  FlushToWord([at EXCEPT !.bits = @ \o FlattenSeq([i \in DOMAIN bytes |-> Bits(bytes[i], 8)])])

\* EmitRecordWithAbbrevImpl
EmitWithAbbrev(w, id, rec) ==
  LET abbv == w.abbrevs[id - FIRST_APPLICATION_ABBREV + 1]
      all == <<rec.code>> \o rec.vals
      Ops[i \in 0..Len(abbv)] ==
        IF i = 0 THEN EmitCode(w, id)
        ELSE LET before == Ops[i - 1] IN
          CASE abbv[i][1] = "array" ->
                 Steps(LAMBDA a, v : EmitField(a, abbv[i + 1], v),
                          EmitVBRAligned(before, Len(all) - (i - 1), 6, 0), SubSeq(all, i, Len(all)))
            [] i > 1 /\ abbv[i - 1][1] = "array" -> before
            [] abbv[i][1] = "blob" -> emitBlob(before, IF rec.blob # NoBlob THEN rec.blob ELSE SubSeq(all, i, Len(all)))
            [] OTHER -> EmitField(before, abbv[i], all[i])
  IN  Ops[Len(abbv)]

EmitUnabbrevRecord(w, rec) ==
  Steps(LAMBDA a, v : EmitVBR(a, v, 6),
           EmitVBR(EmitVBR(EmitCode(w, UNABBREV_RECORD), rec.code, 6), Len(rec.vals), 6), rec.vals)

EmitRecordAligned(w, id, rec) == IF id = 0 THEN EmitUnabbrevRecord(w, rec) ELSE EmitWithAbbrev(w, id, rec)

EncodeAbbrev(w, abbv) ==
  LET OpBits(op) ==
        IF op[1] = "lit" THEN <<1>> \o VBR(op[2], 8)
        ELSE <<0>> \o Bits(EncodingOf(op), 3) \o (IF hasEncodingData(op) THEN VBR(op[2], 5) ELSE <<>>)
      ops == FlattenSeq([i \in DOMAIN abbv |-> OpBits(abbv[i])])
      counted == EmitVBRAligned(EmitCode(w, DEFINE_ABBREV), Len(abbv), 5, Len(ops))
  IN  [counted EXCEPT !.bits = @ \o ops]

EmitAbbrev(w, abbv) == [EncodeAbbrev(w, abbv) EXCEPT !.abbrevs = Append(@, abbv)]

EnterBlockInfoBlock(w) == [EnterSubblock(w, BLOCKINFO_BLOCK_ID, 2) EXCEPT !.bid = -1, !.info = NoInfo]

Added(info, id, abbv) == (id :> Append(getBlockInfo(info, id), abbv)) @@ info

EmitBlockInfoAbbrev(w, id, abbv) ==
  LET switched == IF w.bid = id THEN w
                  ELSE EmitUnabbrevRecord(w, [code |-> SETBID, vals |-> <<id>>, blob |-> NoBlob])
  IN  [EncodeAbbrev(switched, abbv) EXCEPT !.bid = id, !.info = Added(@, id, abbv)]

-----------------------------------------------------------------------------
(* The reader: [bits, pos, code, id, abbrevs, scope, info] with v, the value  *)
(* last read, fatal (it ran off the end) and error (a malformed block).                *)

Reader(bits) == [bits |-> bits, pos |-> 0, code |-> 2, id |-> -1, abbrevs |-> <<>>, scope |-> <<>>, info |-> NoInfo,
                 v |-> 0, fatal |-> FALSE, error |-> FALSE]

AtEndOfStream(r) == r.pos >= Len(r.bits)

Number(bits, pos, n) ==
  LET low[k \in 0..n] == IF k = 0 THEN 0 ELSE low[k - 1] + (IF bits[pos + k] = 0 THEN 0 ELSE 2^(k-1)) IN low[n]

Read(r, n) ==
  IF r.pos + n > Len(r.bits) THEN [r EXCEPT !.fatal = TRUE, !.v = 0]
  ELSE [r EXCEPT !.pos = @ + n, !.v = Number(r.bits, r.pos, n)]

RECURSIVE ReadVBR(_, _)
WithPiece(piece, n) ==
  LET T == 2^(n-1)
  IN  IF piece.v < T THEN piece
      ELSE [ReadVBR(piece, n) EXCEPT !.v = IF @ = 0 THEN piece.v - T ELSE piece.v - T + T * @]
ReadVBR(r, n) == WithPiece(Read(r, n), n)

SkipToFourByteBoundary(r) == [r EXCEPT !.pos = ((@ + 31) \div 32) * 32]

ReadCode(r) == Read(r, r.code)

\* EnterSubBlock; the block's length is v.
Scoped(r, id, width) ==
  [width EXCEPT !.id = id, !.code = width.v, !.abbrevs = getBlockInfo(r.info, id),
                !.scope = Append(@, [code |-> r.code, id |-> r.id, abbrevs |-> r.abbrevs])]
Sized(size) == [size EXCEPT !.error = size.code = 0 \/ size.code > 64 \/ AtEndOfStream(size)]
EnterSubBlock(r, id) == Sized(Read(SkipToFourByteBoundary(Scoped(r, id, ReadVBR(r, 4))), 32))

SkipSized(size) ==
  LET to == size.pos + size.v * 32
  IN  IF AtEndOfStream(size) \/ to > Len(size.bits) THEN [size EXCEPT !.error = TRUE] ELSE [size EXCEPT !.pos = to]
SkipBlock(r) == SkipSized(Read(SkipToFourByteBoundary(ReadVBR(r, 4)), 32))

ReadBlockEnd(r) ==
  LET b == Last(r.scope)
  IN  [SkipToFourByteBoundary(r) EXCEPT !.code = b.code, !.id = b.id, !.abbrevs = b.abbrevs, !.scope = Front(@)]

\* advance: the kind of the next entry, its abbreviation or block id, and the reader after its code.
BlockStart(block) == [kind |-> "block", id |-> block.v, r |-> block]
WithCode(code) ==
  CASE code.v = END_BLOCK /\ code.scope = <<>> -> [kind |-> "error", id |-> 0, r |-> code]
    [] code.v = END_BLOCK /\ code.scope # <<>> -> [kind |-> "end", id |-> 0, r |-> ReadBlockEnd(code)]
    [] code.v = ENTER_SUBBLOCK -> BlockStart(ReadVBR(code, 8))
    [] OTHER -> [kind |-> "record", id |-> code.v, r |-> code]
advance(r) == IF AtEndOfStream(r) THEN [kind |-> "error", id |-> 0, r |-> r] ELSE WithCode(ReadCode(r))

ReadField(r, op) ==
  CASE op[1] = "lit" -> [r EXCEPT !.v = op[2]]
    [] op[1] = "fixed" -> Read(r, op[2])
    [] op[1] = "vbr" -> ReadVBR(r, op[2])
    [] op[1] = "char6" -> LET c == Read(r, 6) IN [c EXCEPT !.v = DecodeChar6(@)]

\* A reader and the fields it has read, after n fields of encoding op.
WithField(a, x) == [a EXCEPT !.r = x, !.vals = Append(@, x.v)]
ReadFields(s, op, n) == Steps(LAMBDA a, i : WithField(a, ReadField(a.r, op)), s, [i \in 1..n |-> i])

\* Where a blob of n bytes from pos ends, its tail padding included.
BlobEnd(pos, n) == pos + ((n + 3) \div 4) * 32

\* skipToEnd moves past all bytes, but keeps the bits of the reader's 64-bit word not yet read:
\* the reader at pos, on a word boundary, goes on with the second half of the word it is in.
skipToEnd(r) ==
  LET left == IF r.pos % 64 = 32 /\ r.pos < Len(r.bits) THEN 32 ELSE 0
      bytes == SubSeq(r.bits, 1, Len(r.bits) - left)
  IN  [r EXCEPT !.bits = bytes \o SubSeq(@, r.pos + 1, r.pos + left), !.pos = Len(bytes)]

\* A blob that would run off the end is read as zeros.
BlobAt(s, at) ==
  LET end == BlobEnd(at.pos, at.v)
  IN  IF end > Len(at.bits) THEN [s EXCEPT !.r = skipToEnd(at), !.vals = @ \o Zeros(at.v)]
      ELSE [s EXCEPT !.r = [at EXCEPT !.pos = end],
                     !.blob = ReadFields([r |-> at, vals |-> <<>>], <<"fixed", 8>>, at.v).vals]
ReadBlob(s) == BlobAt(s, SkipToFourByteBoundary(ReadVBR(s.r, 6)))

getAbbrev(r, id) == r.abbrevs[id - FIRST_APPLICATION_ABBREV + 1]

\* readRecord: [r, code, vals, blob]
ReadSoFar(r, vals) == [r |-> r, vals |-> vals, blob |-> NoBlob]
ReadArray(s, elt, n) == ReadFields([s EXCEPT !.r = n], elt, n.v)
ReadOperand(s, abbv, i) ==
  CASE abbv[i][1] = "array" -> ReadArray(s, abbv[i + 1], ReadVBR(s.r, 6))
    [] i > 1 /\ abbv[i - 1][1] = "array" -> s
    [] abbv[i][1] = "blob" -> ReadBlob(s)
    [] OTHER -> ReadFields(s, abbv[i], 1)
ReadWithAbbrev(r, abbv) ==
  LET Ops[i \in 0..Len(abbv)] == IF i = 0 THEN ReadSoFar(r, <<>>) ELSE ReadOperand(Ops[i - 1], abbv, i) IN Ops[Len(abbv)]
ReadUnabbrev(code) == ReadArray(ReadSoFar(code, <<code.v>>), <<"vbr", 6>>, ReadVBR(code, 6))
Record(s) == [r |-> s.r, code |-> s.vals[1], vals |-> Tail(s.vals), blob |-> s.blob]

readRecord(r, id) ==
  IF id = UNABBREV_RECORD THEN Record(ReadUnabbrev(ReadVBR(r, 6)))
  ELSE IF id - FIRST_APPLICATION_ABBREV + 1 \in DOMAIN r.abbrevs THEN Record(ReadWithAbbrev(r, getAbbrev(r, id)))
  ELSE [r |-> [r EXCEPT !.fatal = TRUE], code |-> 0, vals |-> <<>>, blob |-> NoBlob]

\* The bits of n six-bit characters.
CharBits(n) == n * 6

\* skipRecord: the reader after the record.
Jump(r, n) == IF r.pos + n > Len(r.bits) THEN [r EXCEPT !.fatal = TRUE] ELSE [r EXCEPT !.pos = @ + n]
SkipVBRs(n, width) == Steps(LAMBDA a, i : ReadVBR(a, width), n, [i \in 1..n.v |-> i])
SkipArray(n, elt) ==
  CASE elt[1] = "fixed" -> Jump(n, n.v * elt[2])
    [] elt[1] = "vbr" -> SkipVBRs(n, elt[2])
    [] elt[1] = "char6" -> Jump(n, CharBits(n.v))
SkipBlob(at) == LET end == BlobEnd(at.pos, at.v) IN IF end > Len(at.bits) THEN skipToEnd(at) ELSE [at EXCEPT !.pos = end]
SkipOperand(r, abbv, i) ==
  CASE abbv[i][1] = "array" -> SkipArray(ReadVBR(r, 6), abbv[i + 1])
    [] i > 1 /\ abbv[i - 1][1] = "array" -> r
    [] abbv[i][1] = "blob" -> SkipBlob(SkipToFourByteBoundary(ReadVBR(r, 6)))
    [] OTHER -> ReadField(r, abbv[i])
SkipWithAbbrev(r, abbv) ==
  LET Ops[i \in 0..Len(abbv)] == IF i = 0 THEN r ELSE SkipOperand(Ops[i - 1], abbv, i) IN Ops[Len(abbv)]
skipRecord(r, id) ==
  IF id = UNABBREV_RECORD THEN SkipVBRs(ReadVBR(ReadVBR(r, 6), 6), 6) ELSE SkipWithAbbrev(r, getAbbrev(r, id))

\* A field of no bits is a literal zero.
LitOp(value) == [r |-> value, op |-> <<"lit", value.v>>]
DataOp(encoding, data) == [r |-> data, op |-> IF data.v = 0 THEN <<"lit", 0>> ELSE <<encoding, data.v>>]
EncodedOp(enc) ==
  LET encoding == Encodings[enc.v]
  IN  IF enc.fatal THEN [r |-> enc, op |-> <<"lit", 0>>]
      ELSE IF hasEncodingData(<<encoding>>) THEN DataOp(encoding, ReadVBR(enc, 5)) ELSE [r |-> enc, op |-> <<encoding, 0>>]
OpAfter(literal) == IF literal.v = 1 THEN LitOp(ReadVBR(literal, 8)) ELSE EncodedOp(Read(literal, 3))
ReadOp(r) == OpAfter(Read(r, 1))

WithOp(before, x) == [r |-> x.r, ops |-> Append(before.ops, x.op)]
ReadOps(n) ==
  LET Ops[i \in 0..n.v] == IF i = 0 THEN [r |-> n, ops |-> <<>>] ELSE WithOp(Ops[i - 1], ReadOp(Ops[i - 1].r)) IN Ops[n.v]
WithAbbrev(all) == [all.r EXCEPT !.abbrevs = Append(@, all.ops)]
ReadAbbrevRecord(r) == WithAbbrev(ReadOps(ReadVBR(r, 5)))

\* ReadBlockInfoBlock: the block info read replaces the one there was.
RECURSIVE BlockInfoEntries(_, _, _)
AfterAbbrev(abbv, bid, info) == BlockInfoEntries([abbv EXCEPT !.abbrevs = Front(@)], bid, Added(info, bid, Last(abbv.abbrevs)))
AfterRecord(rec, bid, info) == BlockInfoEntries(rec.r, IF rec.code = SETBID THEN rec.vals[1] ELSE bid, info)
InfoEntry(code, bid, info) ==
  IF code.v = DEFINE_ABBREV /\ bid = -1 THEN [code EXCEPT !.error = TRUE]
  ELSE IF code.v = END_BLOCK THEN [ReadBlockEnd(code) EXCEPT !.info = info]
  ELSE IF code.v = ENTER_SUBBLOCK THEN BlockInfoEntries(SkipBlock(ReadVBR(code, 8)), bid, info)
  ELSE IF code.v = DEFINE_ABBREV THEN AfterAbbrev(ReadAbbrevRecord(code), bid, info)
  ELSE AfterRecord(readRecord(code, code.v), bid, info)
BlockInfoEntries(r, bid, info) ==
  IF r.fatal \/ r.error THEN r
  ELSE IF AtEndOfStream(r) THEN [r EXCEPT !.error = TRUE] ELSE InfoEntry(ReadCode(r), bid, info)

ReadBlockInfoBlock(r) == BlockInfoEntries(EnterSubBlock(r, BLOCKINFO_BLOCK_ID), -1, NoInfo)

=============================================================================

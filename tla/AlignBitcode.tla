---------------------------- MODULE AlignBitcode ----------------------------
(***************************************************************************)
(* BitcodeAligner (bcdb/lib/AlignBitcode.cpp): bitcode is rewritten so     *)
(* that its records are byte-aligned, which lets equal functions be stored *)
(* as equal bytes.  One action handles one entry of the input.             *)
(***************************************************************************)
EXTENDS Bitstream

CONSTANT Inputs \* files: [kind ("raw", "wrapper" or "other"), offset and size (of a wrapper, in bits), bits]

VARIABLES file, status, r, w, blocks, vst, offsetMap, module

vars == <<file, status, r, w, blocks, vst, offsetMap, module>>

MODULE_BLOCK_ID == 8
FUNCTION_BLOCK_ID == 12
IDENTIFICATION_BLOCK_ID == 13
VALUE_SYMTAB_BLOCK_ID == 14
METADATA_BLOCK_ID == 15
VST_CODE_FNENTRY == 3
MODULE_CODE_VSTOFFSET == 13
METADATA_INDEX_OFFSET == 38
METADATA_INDEX == 39

\* SkipBitcodeWrapperHeader
BadWrapper(f) == f.kind = "wrapper" /\ f.offset + f.size > Len(f.bits)
Unwrapped(f) == IF BadWrapper(f) THEN <<>> ELSE IF f.kind = "wrapper" THEN SubSeq(f.bits, f.offset + 1, f.offset + f.size) ELSE f.bits

alignTo8(n) == ((n + 7) \div 8) * 8

\* The operand that decides: the first blob, array or wide fixed field.
AbbrevWorthKeeping(abbv) ==
  LET Decides(i) == \/ abbv[i][1] \in {"blob", "array"}
                    \/ abbv[i][1] = "fixed" /\ abbv[i][2] >= 8
  IN  \E i \in DOMAIN abbv : Decides(i) /\ abbv[i][1] # "array" /\ \A j \in 1..(i - 1) : ~Decides(j)

AlignAbbrev(abbv) ==
  [i \in DOMAIN abbv |-> IF abbv[i][1] \in {"fixed", "vbr"} THEN <<abbv[i][1], alignTo8(abbv[i][2])>>
                         ELSE IF abbv[i][1] = "char6" THEN <<"fixed", 8>> ELSE abbv[i]]

MakeGeneralAbbrev == <<<<"vbr", 8>>, <<"array", 0>>, <<"vbr", 8>>>>

LastID(x) == Len(x.abbrevs) - 1 + FIRST_APPLICATION_ABBREV

\* The new ids of a block's predefined abbreviations; 0 for those not kept.
BlockInfoIDs(abbvs) ==
  [i \in 1..Len(abbvs) |->
     IF AbbrevWorthKeeping(abbvs[i])
     THEN FIRST_APPLICATION_ABBREV + Len(SelectSeq(SubSeq(abbvs, 1, i - 1), AbbrevWorthKeeping)) ELSE 0]

Init ==
  /\ file \in Inputs
  /\ LET bits == Unwrapped(file)
     IN  /\ status = IF file.kind = "other" \/ BadWrapper(file) THEN "error" ELSE "running"
         /\ r = [Reader(bits) EXCEPT !.pos = 32]
         /\ w = [Writer(TRUE) EXCEPT !.bits = IF BadWrapper(file) THEN <<>> ELSE SubSeq(bits, 1, 32)]
  /\ blocks = <<>>
  /\ vst = [placeholder |-> 0, old |-> 0]
  /\ offsetMap = <<>>
  /\ module = [in |-> 0, out |-> 0]

Running == status = "running" /\ ~AtEndOfStream(r)

\* A handler whose reading ran off the end ends the program.
Goes(next) == status' = IF next.fatal THEN "fatal" ELSE IF next.error THEN "error" ELSE "running"

\* This symbol table is the one the offset record meant.
IsVST(old, here) == old = here \div 32

\* Room for the general abbreviation, and aligned.
CodeWidth(width) == alignTo8(width + 1)

HandleStartBlock ==
  /\ Running
  /\ \E e \in {advance(r)} :
       LET mod == IF e.id = IDENTIFICATION_BLOCK_ID THEN [in |-> r.pos - 32, out |-> Len(w.bits) - 32] ELSE module
           patched == IF e.id = VALUE_SYMTAB_BLOCK_ID /\ vst.placeholder # 0 /\ IsVST(vst.old, r.pos - module.in)
                      THEN BackpatchWord(w, vst.placeholder, (Len(w.bits) - module.out) \div 32) ELSE w
       IN  /\ e.kind = "block" /\ e.id # BLOCKINFO_BLOCK_ID
           /\ module' = mod
           /\ offsetMap' = IF e.id = FUNCTION_BLOCK_ID THEN ((r.pos - module.in) :> (Len(w.bits) - module.out)) @@ offsetMap
                           ELSE offsetMap
           /\ \E inside \in {EnterSubBlock(e.r, e.id)} :
                /\ r' = [inside EXCEPT !.error = @ \/ inside.code >= 32]
                /\ Goes(r')
                /\ IF status' # "running" THEN UNCHANGED <<w, blocks>>
                   ELSE /\ w' = EmitAbbrev(EnterSubblock(patched, e.id, CodeWidth(inside.code)), MakeGeneralAbbrev)
                        /\ blocks' = Append(blocks, [map |-> <<0, 0, 0>> \o BlockInfoIDs(inside.abbrevs), general |-> LastID(w')])
  /\ UNCHANGED <<file, vst>>

\* The predefined abbreviations that are worth keeping, each with the block it is for, in the
\* order of the blocks; the code takes them in that of their first mention, which changes
\* only the layout of the output.
KeptInfo(info) ==
  SelectSeq(FlattenSeq([k \in 1..32 |-> LET abbvs == getBlockInfo(info, k) IN [i \in DOMAIN abbvs |-> <<k, abbvs[i]>>]]),
            LAMBDA p : AbbrevWorthKeeping(p[2]))

HandleBlockinfoBlock ==
  /\ Running
  /\ \E e \in {advance(r)} :
       /\ e.kind = "block" /\ e.id = BLOCKINFO_BLOCK_ID
       /\ r' = ReadBlockInfoBlock(e.r)
  /\ w' = ExitBlock(Steps(LAMBDA a, p : EmitBlockInfoAbbrev(a, p[1], AlignAbbrev(p[2])), EnterBlockInfoBlock(w), KeptInfo(r'.info)))
  /\ Goes(r')
  /\ UNCHANGED <<file, blocks, vst, offsetMap, module>>

\* Less than a word and a half after the last block is padding.
OnlyPaddingLeft(next) == next.pos \div 8 + 8 >= Len(next.bits) \div 8

HandleEndBlock ==
  /\ Running
  /\ \E e \in {advance(r)} : e.kind = "end" /\ r' = e.r
  /\ blocks # <<>>
  /\ w' = ExitBlock(w)
  /\ blocks' = Front(blocks)
  /\ status' = IF r'.fatal THEN "fatal" ELSE IF blocks' = <<>> /\ OnlyPaddingLeft(r') THEN "done" ELSE "running"
  /\ UNCHANGED <<file, vst, offsetMap, module>>

HandleDefineAbbrev ==
  /\ Running
  /\ \E e \in {advance(r)} : e.kind = "record" /\ e.id = DEFINE_ABBREV /\ r' = ReadAbbrevRecord(e.r)
  /\ blocks # <<>>
  /\ LET abbv == Last(r'.abbrevs)
         keep == AbbrevWorthKeeping(abbv)
     IN  /\ w' = IF keep THEN EmitAbbrev(w, AlignAbbrev(abbv)) ELSE w
         /\ blocks' = [blocks EXCEPT ![Len(blocks)].map = Append(@, IF keep THEN LastID(w') ELSE 0)]
  /\ Goes(r')
  /\ UNCHANGED <<file, vst, offsetMap, module>>

\* Mutant: the offset of a function is kept.
SameOffset(map, old) == old

\* A function's new offset, in words; 0 if no function block was at the old one.
NewOffset(map, old) == IF old * 32 \in DOMAIN map THEN map[old * 32] \div 32 ELSE 0

HandleRecord ==
  /\ Running /\ blocks # <<>>
  /\ \E e \in {advance(r)} :
       /\ e.kind = "record" /\ e.id # DEFINE_ABBREV
       /\ \E x \in {readRecord(e.r, e.id)} :
            LET b == Last(blocks)
                abbrev == IF b.map[e.id] # 0 THEN b.map[e.id] ELSE b.general
                isIndex == r.id = METADATA_BLOCK_ID /\ x.code \in {METADATA_INDEX_OFFSET, METADATA_INDEX}
                isVST == r.id = MODULE_BLOCK_ID /\ x.code = MODULE_CODE_VSTOFFSET /\ Len(x.vals) = 1
                vals == IF r.id = VALUE_SYMTAB_BLOCK_ID /\ x.code = VST_CODE_FNENTRY /\ Len(x.vals) >= 2
                        THEN [x.vals EXCEPT ![2] = NewOffset(offsetMap, @)]
                        ELSE IF isVST THEN <<0>> ELSE x.vals
            IN  /\ r' = x.r
                /\ w' = IF isIndex \/ x.r.fatal THEN w ELSE EmitRecordAligned(w, abbrev, [code |-> x.code, vals |-> vals, blob |-> x.blob])
                /\ vst' = IF isVST /\ ~x.r.fatal THEN [placeholder |-> Len(w'.bits) - 32, old |-> x.vals[1]] ELSE vst
  /\ Goes(r')
  /\ UNCHANGED <<file, blocks, offsetMap, module>>

\* "Invalid bitstream entry at top level", "Unexpected EOF", or the end of the file.
Stop ==
  /\ status = "running"
  /\ \/ AtEndOfStream(r) /\ status' = IF blocks = <<>> THEN "done" ELSE "error"
     \/ ~AtEndOfStream(r) /\ blocks = <<>> /\ \E e \in {advance(r)} :
          e.kind # "block" /\ status' = IF e.r.fatal THEN "fatal" ELSE "error"
  /\ UNCHANGED <<file, r, w, blocks, vst, offsetMap, module>>

\* The program has ended; any other state without a step would be a deadlock.
Ended == status # "running" /\ UNCHANGED vars

Next == HandleStartBlock \/ HandleBlockinfoBlock \/ HandleEndBlock \/ HandleDefineAbbrev \/ HandleRecord \/ Stop \/ Ended

Spec == Init /\ [][Next]_vars

-----------------------------------------------------------------------------
\* GetBitcodeSize, in bytes: the blocks are skipped, and what follows is not part of the bitcode.
RECURSIVE BlocksEnd(_)
AfterEntry(x, e) == IF e.kind = "block" THEN BlocksEnd(SkipBlock(e.r)) ELSE x.pos \div 8
BlocksEnd(x) == AfterEntry(x, advance(x))

GetBitcodeSize(f) == IF f.kind = "wrapper" THEN (f.offset + f.size) \div 8 ELSE BlocksEnd([Reader(f.bits) EXCEPT !.pos = 32])

\* The entries a reader of the whole stream meets, each with the bit where it starts.
RECURSIVE Entries(_)
Entry(kind, id, at) == [kind |-> kind, id |-> id, code |-> 0, vals |-> <<>>, blob |-> NoBlob, at |-> at, skip |-> TRUE]
RecordEntry(x, rec, skipped) ==
  <<[Entry("record", x.id, x.pos) EXCEPT !.code = rec.code, !.vals = rec.vals, !.blob = rec.blob, !.skip = skipped.pos = rec.r.pos]>>
    \o Entries(rec.r)
EntriesFrom(x, e) ==
  CASE e.kind = "error" -> <<>>
    [] e.kind = "end" -> <<Entry("end", x.id, x.pos)>> \o Entries(e.r)
    [] e.kind = "block" /\ e.id = BLOCKINFO_BLOCK_ID -> Entries(ReadBlockInfoBlock(e.r))
    [] e.kind = "block" /\ e.id # BLOCKINFO_BLOCK_ID -> <<Entry("block", e.id, x.pos)>> \o Entries(EnterSubBlock(e.r, e.id))
    [] e.kind = "record" /\ e.id = DEFINE_ABBREV -> Entries(ReadAbbrevRecord(e.r))
    [] OTHER -> RecordEntry(x, readRecord(e.r, e.id), skipRecord(e.r, e.id))
Entries(x) == EntriesFrom(x, advance(x))

EntriesOf(bits) == Entries([Reader(bits) EXCEPT !.pos = 32])

IsFnEntry(e) == e.kind = "record" /\ e.id = VALUE_SYMTAB_BLOCK_ID /\ e.code = VST_CODE_FNENTRY
IsVSTOffset(e) == e.kind = "record" /\ e.id = MODULE_BLOCK_ID /\ e.code = MODULE_CODE_VSTOFFSET
IsIndex(e) == e.kind = "record" /\ e.id = METADATA_BLOCK_ID /\ e.code \in {METADATA_INDEX, METADATA_INDEX_OFFSET}

\* What an entry says, its place and the places it names left out.
Meaning(e) ==
  <<e.kind, e.id, e.code, IF IsVSTOffset(e) THEN <<>> ELSE IF IsFnEntry(e) THEN <<e.vals[1]>> \o SubSeq(e.vals, 3, Len(e.vals)) ELSE e.vals, e.blob>>

Meanings(es) == LET kept == SelectSeq(es, LAMBDA e : ~IsIndex(e)) IN [i \in DOMAIN kept |-> Meaning(kept[i])]

\* The number of the entry that entry i names: at its offset from the start of the module it is in.
Named(es, i) ==
  LET start == CHOOSE s \in 1..i : es[s].kind = "block" /\ es[s].id = IDENTIFICATION_BLOCK_ID
                                   /\ \A k \in (s + 1)..i : es[k].kind # "block" \/ es[k].id # IDENTIFICATION_BLOCK_ID
      to == es[start].at - 32 + 32 * (IF IsVSTOffset(es[i]) THEN es[i].vals[1] ELSE es[i].vals[2])
  IN  {k \in DOMAIN es : es[k].at = to /\ es[k].kind = "block"}

NamedBy(es) == LET kept == SelectSeq(es, LAMBDA e : ~IsIndex(e))
               IN  [i \in {j \in DOMAIN kept : IsFnEntry(kept[j]) \/ IsVSTOffset(kept[j])} |-> Named(kept, i)]

\* The input, without the padding at its end.
Consumed == SubSeq(r.bits, 1, r.pos)

\* The result has the blocks and records of the input, in its order and with its values and
\* blobs, but for the metadata index: HandleRecord maps each record to an abbreviation of the
\* result that can hold it, and BlockInfoIDs counts the ones the writer really has.
SameMeaning(in, out) == Meanings(out) = Meanings(in)

\* Every function offset, and the symbol table's own, names in the result the block it named in
\* the input, in files of several modules too (OffsetMap, VSTOffsetPlaceholder, ModuleOutOffset).
OffsetsFollow(in, out) == NamedBy(out) = NamedBy(in)

\* Every entry of the result starts on a byte, and so does what follows it, whatever the
\* abbreviations and widths of the input (EmitVBRAligned, AlignAbbrev, alignTo<8>).
ByteAligned(out) == \A i \in DOMAIN out : out[i].at % 8 = 0

\* A reader that skips blocks by their length word finds the end of the result, also when padding
\* follows it (GetBitcodeSize; ExitBlock's backpatching).
SizeFound ==
  \A pad \in {0, 32} :
    GetBitcodeSize([kind |-> "raw", offset |-> 0, size |-> 0, bits |-> w.bits \o Zeros(pad)]) * 8 = Len(w.bits)

\* Skipping a record ends where reading it ends (skipRecord, readRecord), in input and result.
SkipsWhatItReads(es) == \A i \in DOMAIN es : es[i].skip

\* All of this of a file that was rewritten to its end.
AlignedTheSame ==
  status = "done" => SizeFound /\ \A in \in {EntriesOf(Consumed)}, out \in {EntriesOf(w.bits)} :
    SameMeaning(in, out) /\ OffsetsFollow(in, out) /\ ByteAligned(out) /\ SkipsWhatItReads(in) /\ SkipsWhatItReads(out)

=============================================================================

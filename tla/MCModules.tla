------------------------------ MODULE MCModules ------------------------------
(***************************************************************************)
(* What is done to bitcode modules, one task per behaviour (part): a file  *)
(* is made ready for comparison, two users add modules to a database, a    *)
(* function's types are found and mapped, and modules are merged, with     *)
(* and without stubs.                                                      *)
(***************************************************************************)
EXTENDS Bitstream, TLC

CONSTANT Inputs  \* of AlignBitcode

VARIABLES
  part, file, status, r, w, blocks, vst, offsetMap, module,
  heads, user, source, adds,
  kind, sub, seeds, needed, mapped, found,
  phase, program, resolved, newName, newDefName, skipStub, reserved, groups, todo, remaining, merged, aliasMap

-----------------------------------------------------------------------------
(* Files as LLVM's writer makes them: an identification block and a module  *)
(* with predefined and local abbreviations, metadata with an index, one or  *)
(* two functions, a symbol table that names them, and a string table; one   *)
(* or two modules; whole, cut short, padded and wrapped.                    *)

\* What LLVM's writer is asked for, an instruction at a time.
Enter(id, width) == [do |-> "enter", id |-> id, width |-> width]
Exit == [do |-> "exit"]
Abbrev(ops) == [do |-> "abbrev", ops |-> ops]
Info(list) == [do |-> "info", list |-> list]
Rec(abbrev, code, vals, blob) == [do |-> "record", abbrev |-> abbrev, rec |-> [code |-> code, vals |-> vals, blob |-> blob]]
VSTOffset(abbrev) == [do |-> "vstoffset", abbrev |-> abbrev]
FnEntry(abbrev, value, k) == [do |-> "fnentry", abbrev |-> abbrev, value |-> value, k |-> k]

\* g is [w, start of the module's identification block, fns (where function blocks are), vst].
Emitted(g, i) ==
  CASE i.do = "enter" ->
         EnterSubblock(IF i.id = 14 /\ g.vst # 0 THEN BackpatchWord(g.w, g.vst, (Len(g.w.bits) - g.start + 32) \div 32) ELSE g.w,
                       i.id, i.width)
    [] i.do = "exit" -> ExitBlock(g.w)
    [] i.do = "abbrev" -> EmitAbbrev(g.w, i.ops)
    [] i.do = "info" -> ExitBlock(Steps(LAMBDA a, p : EmitBlockInfoAbbrev(a, p.id, p.ops), EnterBlockInfoBlock(g.w), i.list))
    [] OTHER -> EmitRecordAligned(g.w, i.abbrev,
         CASE i.do = "record" -> i.rec
           [] i.do = "vstoffset" -> [code |-> 13, vals |-> <<0>>, blob |-> NoBlob]
           [] i.do = "fnentry" -> [code |-> 3, vals |-> <<i.value, (g.fns[i.k] - g.start + 32) \div 32>>, blob |-> NoBlob])

After(g, i, out) ==
  [w |-> out,
   start |-> IF i.do = "enter" /\ i.id = 13 THEN Len(g.w.bits) ELSE g.start,
   fns |-> IF i.do = "enter" /\ i.id = 13 THEN <<>> ELSE IF i.do = "enter" /\ i.id = 12 THEN Append(g.fns, Len(g.w.bits)) ELSE g.fns,
   vst |-> IF i.do = "vstoffset" THEN Len(out.bits) - 32 ELSE g.vst]

Do(g, i) == After(g, i, Emitted(g, i))

Magic == Bits(66, 8) \o Bits(67, 8) \o Bits(192, 8) \o Bits(222, 8)

Parts(s) == LET n == Len(s) \div 3 IN <<SubSeq(s, 1, n), SubSeq(s, n + 1, 2 * n), SubSeq(s, 2 * n + 1, Len(s))>>

Written(instructions) ==
  Steps(LAMBDA g, s : CHOOSE y \in {Steps(Do, h, s) : h \in {g}} : TRUE,
        [w |-> [Writer(FALSE) EXCEPT !.bits = Magic], start |-> 0, fns |-> <<>>, vst |-> 0], Parts(instructions)).w.bits

Lit(v) == <<"lit", v>>
Fixed(n) == <<"fixed", n>>
Vbr(n) == <<"vbr", n>>
Arr == <<"array", 0>>
Char6 == <<"char6", 0>>
Blob == <<"blob", 0>>

\* Abbreviations with a record each that they can hold.
Shapes ==
  {[ops |-> <<Lit(2), Vbr(6), Fixed(1)>>, rec |-> <<2, <<40, 1>>, NoBlob>>],
   [ops |-> <<Lit(9), Fixed(9), Vbr(6)>>, rec |-> <<9, <<300, 32>>, NoBlob>>],
   [ops |-> <<Fixed(3), Arr, Char6>>, rec |-> <<5, <<97, 95, 48>>, NoBlob>>],
   [ops |-> <<Lit(6), Fixed(8), Arr, Char6>>, rec |-> <<6, <<255, 90, 46>>, NoBlob>>],
   [ops |-> <<Lit(7), Fixed(0), Fixed(10), Arr, Fixed(7)>>, rec |-> <<7, <<0, 1023, 127, 0>>, NoBlob>>],
   [ops |-> <<Lit(1), Vbr(8), Blob>>, rec |-> <<1, <<128>>, <<7, 255, 0, 1, 9>>>>],
   [ops |-> <<Lit(1), Blob>>, rec |-> <<1, <<>>, <<>>>>]}

Use(id, s) == Rec(id, s.rec[1], s.rec[2], s.rec[3])

Ident == <<Enter(13, 5), Abbrev(<<Lit(1), Arr, Char6>>), Rec(4, 1, <<76, 76, 86, 77>>, NoBlob), Rec(0, 2, <<0>>, NoBlob), Exit>>

\* p and q are predefined for function blocks, s is local.
Contents(p, q, s, width, two) ==
  Ident \o <<Enter(8, 3), Rec(0, 1, <<2>>, NoBlob),
    Info(<<[id |-> 12, ops |-> p.ops], [id |-> 14, ops |-> <<Lit(3), Vbr(8), Fixed(32)>>], [id |-> 12, ops |-> q.ops]>>),
    Abbrev(<<Lit(13), Fixed(32)>>), VSTOffset(4),
    Enter(15, 4), Rec(0, 38, <<5, 0>>, NoBlob), Rec(0, 4, <<33>>, NoBlob), Rec(0, 39, <<8>>, NoBlob), Exit,
    Enter(12, width), Use(4, p), Abbrev(s.ops), Use(6, s), Use(5, q), Exit>>
  \o (IF two THEN <<Enter(12, width), Rec(0, 10, <<>>, NoBlob), Enter(14, 4), Rec(0, 1, <<1, 98>>, NoBlob), Exit, Use(5, q), Exit>> ELSE <<>>)
  \o <<Enter(14, 4), FnEntry(4, 2, 1)>> \o (IF two THEN <<FnEntry(4, 1, 2)>> ELSE <<>>) \o <<Exit, Exit>>

\* Names is the string table's contents.
Strtab(names) == <<Enter(23, 3), Abbrev(<<Lit(1), Blob>>), Rec(4, 1, <<>>, names), Exit>>

FG == <<102, 95, 102, 103, 95, 103, 102>>

Raw(bits) == [kind |-> "raw", offset |-> 0, size |-> 0, bits |-> bits]

Some == CHOOSE s \in Shapes : s.rec[1] = 9
Other == CHOOSE s \in Shapes : s.rec[1] = 6
\* Every shape in two of the three places.
Single == {Contents(p, q, Some, 4, p # q) : p, q \in Shapes}
Double == {Contents(p, Some, Other, 3, TRUE) \o Contents(Other, p, q, 9, two) : p \in Shapes, q \in {Some, Other}, two \in BOOLEAN}
Sample == Contents(Some, Other, Some, 3, TRUE)

\* The sample, cut short, padded and wrapped.
Variants(bits) ==
  {Raw(SubSeq(bits, 1, 32 * k)) : k \in 1..(Len(bits) \div 32)} \cup
  {Raw(bits \o Zeros(32)), Raw(bits \o Zeros(128)), [Raw(Zeros(64)) EXCEPT !.kind = "other"]} \cup
  {[kind |-> "wrapper", offset |-> 160, size |-> Len(bits) + d, bits |-> Zeros(160) \o bits \o Zeros(96)] : d \in {0, 32, 128}}

FilesOf(contents, bits) == IF contents = Sample THEN Variants(bits) ELSE {Raw(bits)}

MCInputs == UNION {FilesOf(c, Written(c \o Strtab(FG))) : c \in Single \cup Double \cup {Sample}}

Bitcode == INSTANCE AlignBitcode

-----------------------------------------------------------------------------
(* Modules to add: NameF is the byte 200 and NameG the two bytes that UTF-8 *)
(* writes for it; NameS and NameT are private constants with equal          *)
(* contents.                                                                *)

NameF == <<200>>
NameG == <<195, 136>>
NameH == <<104>>
NameS == <<115, 46>>
NameT == <<46, 116>>

Plain == [kind |-> "func", linkage |-> "external", look |-> "", section |-> "", comdat |-> "",
          attrs |-> "", data |-> "", md |-> "", code |-> "decl", refs |-> <<>>, blocks |-> {}]
Def(code, refs) == [Plain EXCEPT !.code = code, !.refs = refs]
Str == [Plain EXCEPT !.kind = "var", !.linkage = "private", !.code = "bytes"]

\* NameF has everything that is kept apart; NameG calls it and itself; an alias and private constants.
M1 == [globals |->
         NameF :> [Def("code1", <<NameS, NameT>>) EXCEPT !.linkage = "internal", !.look = "dso_local", !.section = "text",
                     !.comdat = "c", !.attrs = "fastcc", !.data = "personality", !.md = "dbg"] @@
         NameG :> Def("code2", <<NameF, NameG>>) @@
         NameH :> [Plain EXCEPT !.kind = "alias", !.linkage = "weak", !.code = "alias", !.refs = <<NameF>>] @@
         NameS :> Str @@ NameT :> Str,
       order |-> <<NameG, NameF>>]

\* The same code with other names and linkage, and a declaration.
M2 == [globals |->
         NameF :> Def("code2", <<NameG, NameF>>) @@
         NameG :> [Def("code1", <<NameS>>) EXCEPT !.linkage = "weak", !.attrs = "fastcc", !.data = "personality", !.md = "dbg"] @@
         NameH :> Def("decl", <<>>) @@ NameS :> Str,
       order |-> <<NameF, NameG, NameH>>]

\* Three functions in a cycle, two of them equal.
M3 == [globals |->
         NameF :> [Def("code3", <<NameH>>) EXCEPT !.linkage = "internal"] @@ NameG :> Def("code3", <<NameH>>) @@
         NameH :> Def("code4", <<NameF, NameG, NameH>>),
       order |-> <<NameH, NameG, NameF>>]

\* NameH takes the address of a block of NameG; NameF is an empty stub already.
M4 == [globals |-> NameF :> Def("unreachable", <<>>) @@ NameG :> Def("code5", <<NameF>>)
                   @@ NameH :> [Def("code6", <<NameF>>) EXCEPT !.blocks = {NameG}],
       order |-> <<NameF, NameG, NameH>>]

HashOf(code) == IF code = "bytes" THEN 97 ELSE 0

Database == INSTANCE BCDB WITH User <- {"u1", "u2"}, Module <- {M1, M2, M3, M4}, HeadName <- {"x"}, Hash <- HashOf, MaxAdds <- 2

-----------------------------------------------------------------------------
(* All graphs of three types, and functions with the types 1 i32; 2 a named *)
(* struct of 1; 3 a pointer to 2; 4 a function type that returns 3 and      *)
(* takes 1; 5 a pointer to 4; 6 a named struct of 3 and 2; 7 a pointer to   *)
(* 6; 8 an array of 2; 9 a pointer to 8.                                    *)

KindOf == <<"int", "named", "ptr", "agg", "ptr", "named", "ptr", "agg", "ptr">>
SubOf == <<<<>>, <<1>>, <<2>>, <<3, 1>>, <<4>>, <<3, 2>>, <<6>>, <<2>>, <<8>>>>

Value(k, type, type2, ops, meta) == [kind |-> k, type |-> type, type2 |-> type2, ops |-> ops, meta |-> meta]

\* Constants and globals whose operands are among ops.
Constants(ops) ==
  {Value("const", t, 0, o, <<>>) : t \in {1, 3}, o \in ops} \cup
  {Value("gep", x[1], x[2], o, <<>>) : x \in {<<3, 2>>, <<3, 6>>, <<3, 8>>}, o \in ops} \cup
  {Value("block", 3, 0, o, <<>>) : o \in ops} \cup
  {Value("function", 5, t, <<>>, <<>>) : t \in {0, 6}} \cup
  {Value("variable", t, 0, o, <<>>) : t \in {9}, o \in ops} \cup
  {Value("alias", t, 0, o, <<>>) : t \in {5, 7}, o \in ops} \cup
  {Value("asm", 5, 4, <<>>, <<>>), Value("metadata", 1, 0, <<>>, <<1>>), Value("arg", 1, 0, <<>>, <<>>)}

Instructions(v2) ==
  {Value("inst", t, 0, o, <<2>>) : t \in {1, 8}, o \in {<<>>, <<2>>}} \cup
  {Value("alloca", x[1], x[2], <<>>, <<>>) : x \in {<<3, 2>>, <<7, 6>>, <<9, 8>>}} \cup
  {Value("instgep", x[1], x[2], <<2>>, <<>>) : x \in {<<3, 6>>, <<3, 8>>}} \cup
  {Value("call", 3, t, <<2>>, <<>>) : t \in IF v2.type = 5 THEN {0, 2, 6} ELSE {}}

Md(k, ops) == [kind |-> k, ops |-> ops]
Function(type2, ops, meta) == [type |-> 5, type2 |-> type2, ops |-> ops, meta |-> meta, insts |-> <<3>>]

\* Functions of one instruction, with two constants, and metadata that leads to the first.
OfValues == [
  values |-> UNION {{<<v1, v2, v3>> : v1 \in Constants({<<>>}), v3 \in Instructions(v2)} : v2 \in Constants({<<>>, <<1>>})},
  meta |-> {<<Md("value", <<1>>), Md("node", <<1, 2>>)>>},
  func |-> {Function(6, <<1>>, <<>>)}]

\* Functions with every metadata graph of three nodes.
OfMetadata ==
  LET Nodes == {Md(k, o) : k \in {"node", "unit"}, o \in {<<>>, <<2>>, <<3>>, <<1, 2>>, <<3, 1>>}}
  IN  [values |-> {<<Value("const", 1, 0, <<>>, <<>>), Value("metadata", 1, 0, <<>>, <<m1>>), Value("inst", 1, 0, <<2>>, <<m2>>)>> :
                     m1, m2 \in {1, 2}},
       meta |-> Nodes \X Nodes \X Nodes,
       func |-> {Function(0, <<>>, <<1>>)}]

Types == INSTANCE NeededTypes WITH N <- 3, Kind <- KindOf, Sub <- SubOf, Families <- {OfValues, OfMetadata}

\* The same types with another definition of struct t.
Changed(t) == INSTANCE NeededTypes WITH N <- 3, Kind <- KindOf, Sub <- SubOf, Families <- {},
  sub <- [sub EXCEPT ![t] = <<1, 1>>], kind <- [kind EXCEPT ![t] = "anon"]

-----------------------------------------------------------------------------
(* Modules to merge, as items.  A part's ID stands for its code and the     *)
(* names it refers to.                                                      *)

f == <<"f">>
f0 == <<"f", "0">>
g == <<"g">>
x == <<"x">>
a == <<"a">>

Code(p, refs) == [part |-> p, refs |-> refs, self |-> FALSE, alias |-> FALSE]
Leaf == Code("leaf", {})
OwnAddress == [Code("own", {}) EXCEPT !.self = TRUE]
Data(refs) == Code("", refs)
Alias(n) == [Data({n}) EXCEPT !.alias = TRUE]

\* The modules that give each name one of its definitions or none.
ModulesOf(defs) ==
  UNION {{s \in [N -> UNION {defs[n] : n \in N}] : \A n \in N : s[n] \in defs[n]} : N \in SUBSET DOMAIN defs}
Join(A, B) == [i \in ({"A"} \X DOMAIN A) \cup ({"B"} \X DOMAIN B) |-> IF i[1] = "A" THEN A[i[2]] ELSE B[i[2]]]
Pairs(S, T) == {Join(A, B) : A \in S, B \in T}

Calls == f :> {Leaf, Code("g", {g}), OwnAddress} @@ g :> {Leaf, Code("f", {f}), Code("x", {x})} @@ x :> {Data({f})}
Clash == f :> {Leaf, Code("f0", {f0})} @@ f0 :> {Leaf, Code("x", {x})} @@ x :> {Data({})}
Both == g :> {Code("ff0", {f, f0})}
WithAlias == f :> {Leaf, Code("a", {a})} @@ x :> {Data({})} @@ a :> {Alias(f), Alias(x)} @@ g :> {Code("a", {a})}

MCPrograms ==
  Pairs(ModulesOf(Calls), ModulesOf(Calls)) \cup Pairs(ModulesOf(Clash @@ Both), ModulesOf(Clash)) \cup
  {P \in Pairs(ModulesOf(WithAlias), ModulesOf(WithAlias)) :
     \A i \in DOMAIN P : P[i].alias => {<<i[1], n>> : n \in P[i].refs} \subseteq DOMAIN P}

Stubs == INSTANCE Merger WITH Programs <- MCPrograms, DisableDeduplication <- FALSE, DisableStubs <- FALSE, EnableNameReuse <- TRUE
NoStubs == INSTANCE Merger WITH Programs <- Pairs(ModulesOf(Calls), ModulesOf(Calls)),
  DisableDeduplication <- FALSE, DisableStubs <- TRUE, EnableNameReuse <- TRUE

-----------------------------------------------------------------------------
None == <<>>
bitcodeVars == <<file, status, r, w, vst, offsetMap, module>>
databaseVars == <<heads, user, source, adds>>
typesVars == <<kind, sub, seeds, needed, mapped>>
mergerVars == <<phase, resolved, newName, newDefName, skipStub, reserved, groups, todo, remaining, merged, aliasMap>>

NoBitcode == file = None /\ status = None /\ r = None /\ w = None /\ vst = None /\ offsetMap = None /\ module = None
NoDatabase == heads = None /\ user = None /\ source = None /\ adds = None
NoTypes == kind = None /\ sub = None /\ seeds = None /\ needed = None /\ mapped = None
NoMerger ==
  /\ phase = None /\ resolved = None /\ newName = None /\ newDefName = None /\ skipStub = None /\ reserved = None
  /\ groups = None /\ todo = None /\ remaining = None /\ merged = None /\ aliasMap = None

Init ==
  \/ part = "bitcode" /\ Bitcode!Init /\ NoDatabase /\ NoTypes /\ found = None /\ program = None /\ NoMerger
  \/ part = "database" /\ Database!Init /\ NoBitcode /\ NoTypes /\ found = None /\ program = None /\ NoMerger
  \/ part = "types" /\ Types!Init /\ NoBitcode /\ blocks = None /\ NoDatabase /\ NoMerger
  \/ part = "values" /\ Types!ValuesInit /\ NoBitcode /\ blocks = None /\ NoDatabase /\ NoMerger
  \/ part = "stubs" /\ Stubs!MergerInit /\ NoBitcode /\ blocks = None /\ NoDatabase /\ NoTypes /\ found = None
  \/ part = "nostubs" /\ NoStubs!MergerInit /\ NoBitcode /\ blocks = None /\ NoDatabase /\ NoTypes /\ found = None

Next ==
  /\ \/ part = "bitcode" /\ Bitcode!Next /\ UNCHANGED <<databaseVars, typesVars, found, program, mergerVars>>
     \/ part = "database" /\ Database!Next /\ UNCHANGED <<bitcodeVars, typesVars, found, program, mergerVars>>
     \/ part = "types" /\ Types!Map /\ UNCHANGED <<bitcodeVars, blocks, databaseVars, mergerVars>>
     \/ part = "values" /\ Types!Visit /\ UNCHANGED <<bitcodeVars, blocks, databaseVars, mergerVars>>
     \/ part = "stubs" /\ Stubs!Next /\ UNCHANGED <<bitcodeVars, blocks, databaseVars, typesVars, found>>
     \/ part = "nostubs" /\ NoStubs!Next /\ UNCHANGED <<bitcodeVars, blocks, databaseVars, typesVars, found>>
  /\ UNCHANGED part

Spec == Init /\ [][Next]_<<part, bitcodeVars, blocks, databaseVars, typesVars, found, program, mergerVars>>

-----------------------------------------------------------------------------
\* The aligned file has the blocks and records of the input, on byte boundaries, its
\* offsets name what they named, and both skipping and reading find its end
\* (AlignBitcode!SameMeaning, OffsetsFollow, ByteAligned, SizeFound, SkipsWhatItReads).
AlignedTheSame == part = "bitcode" => Bitcode!AlignedTheSame

\* bcdb get gives back the module that was added, whoever is killed; functions that
\* differ only in name and linkage are stored once, and depend on names only within
\* cycles (BCDB!HeadsAreWhole, GetsWhatWasAdded, StoredOnce, NamesOnlyInCycles).
GetsWhatWasAdded == part = "database" =>
  /\ Database!HeadsAreWhole /\ Database!GetsWhatWasAdded
  /\ Database!StoredOnce /\ Database!NamesOnlyInCycles

\* The definition of a struct that is only pointed to leaves no trace in the function's
\* module (NeededTypeMap): with any other definition the types are mapped in the same
\* way, so that functions of programs that differ in such a struct are equal.
IndependentOfUnneeded == mapped # None =>
  \A t \in Types!Type \ needed : ~Types!Uniqued(t) /\ sub[t] # <<>> =>
    LET need == Changed(t)!Needed(seeds) IN need = needed /\ Changed(t)!MapAll(need, seeds) = mapped

\* A function's module has the layouts it needs and no more, and all that its values
\* lead to was visited, once (IndependentOfUnneeded, NeededTypes!KeepsLayout, NoNameKept,
\* AllTypesVisited, BlockAddressFound, UnitsListedOnce).
NeededAndNoMore ==
  /\ part = "types" => Types!KeepsLayout /\ Types!NoNameKept /\ IndependentOfUnneeded
  /\ part = "values" => Types!AllTypesVisited /\ Types!BlockAddressFound /\ Types!UnitsListedOnce

\* Merging keeps the meaning of every module: its references reach the same definitions
\* without conflict, its definitions keep addresses of their own, equal functions share
\* one body, and aliases find what they stand for (Merger!SameProgram, EqualShareBody,
\* NoConflict, AliaseeFound, AddressesDiffer).
SameProgram ==
  /\ part = "stubs" =>
       /\ Stubs!SameProgram /\ Stubs!EqualShareBody /\ Stubs!NoConflict /\ Stubs!AliaseeFound
       /\ Stubs!AddressesDiffer
  /\ part = "nostubs" =>
       NoStubs!SameProgram /\ NoStubs!EqualShareBody /\ NoStubs!NoConflict /\ NoStubs!AliaseeFound

=============================================================================

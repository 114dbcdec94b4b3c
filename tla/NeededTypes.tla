---------------------------- MODULE NeededTypes ----------------------------
(***************************************************************************)
(* The type map with which a function is taken out of its module           *)
(* (NeededTypeMap in bcdb/lib/Split.cpp).  Types are a graph: integers     *)
(* have no elements; "ptr" and "agg" (arrays, vectors, function types and  *)
(* literal structs) are uniqued by their elements; "named" and "anon" are  *)
(* identified structs, the only ones through which a type can contain      *)
(* itself.  A mapped type is the original one, a uniqued type of mapped    *)
(* elements, or a new struct that stands for an identified one.            *)
(***************************************************************************)
EXTENDS Naturals, SequencesExt

CONSTANTS
  N,             \* types are 1..N
  Kind, Sub,     \* the types of the functions whose values are visited
  Families       \* of functions: the sets of their values, metadata and heads

Type == 1..N

VARIABLES
  kind, sub,  \* of each type
  seeds,      \* the types the function's code uses, in the order they are mapped
  needed,     \* Needed
  mapped,     \* MappedTypes, with the bodies given to new structs; None before the mapping
  program,    \* the function whose values are visited, or None
  found       \* what VisitFunction found in it, or None

vars == <<kind, sub, seeds, needed, mapped, program, found>>

None == <<>>

Uniqued(t) == kind[t] \in {"int", "ptr", "agg"}

\* A pointer to an identified struct does not need its definition.
PointsToStruct(t) == kind[t] = "ptr" /\ ~Uniqued(sub[t][1])

RECURSIVE VisitType(_, _)
VisitType(seen, t) ==
  IF t \in seen THEN seen
  ELSE IF PointsToStruct(t) THEN seen \cup {t}
  ELSE FoldLeft(VisitType, seen \cup {t}, sub[t])

Orig(t) == <<"orig", t>>
New(t) == <<"new", t>>
Opaque == <<<<"opaque", 0>>>>

\* The original type is used again: none of its elements changed and it has no name.
Keep(t, elements) == kind[t] # "named" /\ \A i \in DOMAIN sub[t] : elements[i] = Orig(sub[t][i])

\* Mutant: definitions that are not needed are kept.
ForceOpaqueNot(need, t) == FALSE

ForceOpaque(need, t) == ~Uniqued(t) /\ t \notin need

Put(f, t, x) == [u \in DOMAIN f \cup {t} |-> IF u = t THEN x ELSE f[u]]

RECURSIVE getMember(_, _, _)
getMember(need, m, t) ==
  LET placed == IF Uniqued(t) THEN m ELSE [m EXCEPT !.map = Put(@, t, New(t))]
      inside == FoldLeft(LAMBDA a, u : getMember(need, a, u), placed, sub[t])
      elements == [i \in DOMAIN sub[t] |-> inside.map[sub[t][i]]]
  IN  IF t \in DOMAIN m.map THEN m
      ELSE IF sub[t] = <<>> THEN [m EXCEPT !.map = Put(@, t, Orig(t))]
      ELSE IF ForceOpaque(need, t) THEN [placed EXCEPT !.body = Put(@, t, Opaque)]
      ELSE IF Keep(t, elements) THEN [inside EXCEPT !.map = Put(@, t, Orig(t))]
      ELSE IF Uniqued(t) THEN [inside EXCEPT !.map = Put(@, t, <<kind[t], elements>>)]
      ELSE [inside EXCEPT !.body = Put(@, t, elements)]

Needed(types) == FoldLeft(VisitType, {}, types)
MapAll(need, types) == FoldLeft(LAMBDA a, t : getMember(need, a, t), [map |-> <<>>, body |-> <<>>], types)

-----------------------------------------------------------------------------
(* Types a program can have: uniqued types are equal only if they are the same, and a *)
(* type contains itself only behind a pointer in an identified struct.                *)
RECURSIVE Finite(_, _, _, _)
Finite(k, s, t, above) ==
  /\ t \notin above
  /\ \A i \in DOMAIN s[t] : k[t] # "ptr" => Finite(k, s, s[t][i], above \cup {t})

RECURSIVE Spelled(_, _, _, _)
Spelled(k, s, t, above) ==
  /\ t \notin above
  /\ k[t] \in {"ptr", "agg"} => \A i \in DOMAIN s[t] : Spelled(k, s, s[t][i], above \cup {t})

WellFormed(k, s) == \A t \in Type :
  /\ Finite(k, s, t, {}) /\ Spelled(k, s, t, {})
  /\ \A u \in Type \ {t} : k[t] \in {"ptr", "agg"} => <<k[t], s[t]>> # <<k[u], s[u]>>

Shapes == {<<"ptr", <<t>>>> : t \in Type} \cup
          {<<k, e>> : k \in {"agg", "named", "anon"}, e \in {<<t>> : t \in Type} \cup (Type \X Type)} \cup
          {<<"named", <<>>>>}

Init ==
  /\ \E shape \in [2..N -> Shapes] :
       /\ kind = [t \in Type |-> IF t = 1 THEN "int" ELSE shape[t][1]]
       /\ sub = [t \in Type |-> IF t = 1 THEN <<>> ELSE shape[t][2]]
       /\ WellFormed(kind, sub)
  /\ \E t, u \in Type : t <= u /\ seeds = <<t, u>>
  /\ needed = {} /\ mapped = None /\ program = None /\ found = None

\* VisitFunction, then the mapping of the types that the function uses.
Map ==
  /\ program = None /\ mapped = None
  /\ needed' = Needed(seeds)
  /\ mapped' = MapAll(needed', seeds)
  /\ UNCHANGED <<kind, sub, seeds, program, found>>

-----------------------------------------------------------------------------
(* What VisitFunction of NeededTypeMap (bcdb/lib/Split.cpp) finds in a     *)
(* function: the types whose definitions it needs, the compile units of    *)
(* its debug information and whether it uses the address of a block.       *)
(*                                                                         *)
(* A value has a kind, a type, a second type (the source of a              *)
(* getelementptr, what an alloca allocates, what an argument passed in     *)
(* memory points to, or the type of inline assembly; 0 if there is none),  *)
(* operands, and metadata.  Remapped says what LLVM's ValueMapper and the  *)
(* materializer of declarations ask of the type map when the function is   *)
(* remapped.                                                               *)

Constant == {"const", "gep", "block", "function", "variable", "alias"}
Global == {"function", "variable", "alias"}

Need(s, t) == IF t = 0 THEN s ELSE [s EXCEPT !.need = VisitType(@, t)]

\* The source type of a constant getelementptr; the types of a function's arguments in memory.
SecondOfConstant(s, v) == IF v.kind \in {"gep", "function"} THEN Need(s, v.type2) ELSE s

SawBlock(s, v) == [s EXCEPT !.block = @ \/ v.kind = "block"]

ListUnit(s, m) ==
  IF program.meta[m].kind = "unit" /\ m \notin s.meta THEN [s EXCEPT !.units = Append(@, m)] ELSE s

RECURSIVE VisitValue(_, _), VisitMetadata(_, _)
VisitValue(s, i) ==
  LET v == program.values[i]
      typed == SawBlock(Need(s, v.type), v)
      inside == IF v.kind \in Global THEN typed ELSE FoldLeft(VisitValue, typed, v.ops)
  IN  CASE v.kind = "asm" -> Need(s, v.type2)
        [] v.kind = "metadata" -> FoldLeft(VisitMetadata, s, v.meta)
        [] v.kind \in Constant -> SecondOfConstant(inside, v)
        [] OTHER -> s

VisitMetadata(s, m) ==
  LET md == program.meta[m]
      seen == [ListUnit(s, m) EXCEPT !.meta = @ \cup {m}]
  IN  IF m \in s.meta THEN ListUnit(s, m)
      ELSE IF md.kind = "value" THEN FoldLeft(VisitValue, seen, md.ops)
      ELSE FoldLeft(VisitMetadata, seen, md.ops)

VisitInstruction(s, i) ==
  LET v == program.values[i]
      inside == FoldLeft(VisitValue, Need(s, v.type), v.ops)
  IN  Need(FoldLeft(VisitMetadata, inside, v.meta), v.type2)

VisitFunction ==
  LET F == program.func
      start == [need |-> {}, meta |-> {}, units |-> <<>>, block |-> FALSE]
      itself == Need(Need(start, F.type), F.type2)
      inside == FoldLeft(VisitMetadata, FoldLeft(VisitValue, itself, F.ops), F.meta)
  IN  FoldLeft(VisitInstruction, inside, F.insts)

ValuesInit ==
  /\ kind = Kind /\ sub = Sub /\ seeds = <<>> /\ needed = {} /\ mapped = None
  /\ \E p \in Families : program \in [values : p.values, meta : p.meta, func : p.func]
  /\ found = None

Visit ==
  /\ program # None /\ found = None
  /\ found' = VisitFunction
  /\ UNCHANGED <<kind, sub, seeds, needed, mapped, program>>

Next == Map \/ Visit

Spec == (Init \/ ValuesInit) /\ [][Next]_vars

-----------------------------------------------------------------------------
RECURSIVE Layout(_)
Layout(t) ==
  IF kind[t] \in {"int", "ptr"} THEN <<kind[t], <<>>>>
  ELSE <<"elements", [i \in DOMAIN sub[t] |-> Layout(sub[t][i])]>>

RECURSIVE MappedLayout(_)
MappedLayout(x) ==
  LET elements == IF x[1] = "new" THEN mapped.body[x[2]] ELSE x[2]
  IN  IF x[1] = "orig" THEN Layout(x[2])
      ELSE IF x[1] = "ptr" THEN <<"ptr", <<>>>>
      ELSE IF elements = Opaque THEN <<"opaque", <<>>>>
      ELSE <<"elements", [i \in DOMAIN elements |-> MappedLayout(elements[i])]>>

\* Taking a function out of its module does not change how the values it uses are laid
\* out: a type that its code needs has the same scalars and pointers in the same places.
KeepsLayout == mapped # None => \A t \in needed : t \in DOMAIN mapped.map =>
  MappedLayout(mapped.map[t]) = Layout(t)

Reach(S) == LET R[n \in 0..N] == IF n = 0 THEN S ELSE R[n-1] \cup UNION {Range(sub[t]) : t \in R[n-1]} IN R[N]

\* No part of the function's module keeps the name of a struct that has elements, so that
\* programs that only name their structs differently have equal functions.
NoNameKept == mapped # None =>
  \A t \in DOMAIN mapped.map : mapped.map[t] = Orig(t) =>
    \A u \in Reach({t}) : kind[u] = "named" => sub[u] = <<>>

Pointee(t) == Sub[t][1]
One(t) == IF t = 0 THEN {} ELSE {t}

\* Values and metadata that remapping the function reaches.
Reached ==
  LET F == program.func
      Vs(R) == {x[2] : x \in {y \in R : y[1] = "v"}}
      Ms(R) == {x[2] : x \in {y \in R : y[1] = "m"}}
      Of(ops, meta) == {<<"v", i>> : i \in Range(ops)} \cup {<<"m", m>> : m \in Range(meta)}
      Deeper(R) ==
        UNION {IF program.values[i].kind \in Global THEN {}
               ELSE Of(program.values[i].ops, program.values[i].meta) : i \in Vs(R)} \cup
        UNION {IF program.meta[m].kind = "value" THEN Of(program.meta[m].ops, <<>>)
               ELSE Of(<<>>, program.meta[m].ops) : m \in Ms(R)}
      Size == Len(program.values) + Len(program.meta)
      R[n \in 0..Size] == IF n = 0 THEN Of(F.ops \o F.insts, F.meta) ELSE R[n-1] \cup Deeper(R[n-1])
  IN  [values |-> Vs(R[Size]), meta |-> Ms(R[Size])]

\* Types that the value mapper and DeclMaterializer::materialize ask for with get.
RemappedValue(v) ==
  CASE v.kind = "asm" -> {v.type2}
    [] v.kind \in {"const", "gep"} -> {v.type} \cup One(v.type2)
    [] v.kind \in {"function", "alias"} /\ Kind[Pointee(v.type)] = "agg" -> {Pointee(v.type)} \cup One(v.type2)
    [] v.kind \in {"inst", "alloca"} -> {v.type} \cup One(v.type2)
    [] v.kind = "instgep" -> {v.type, v.type2, Pointee(v.type)}
    [] v.kind = "call" -> {v.type} \cup One(v.type2) \cup Range(Sub[Pointee(program.values[v.ops[1]].type)])
    [] OTHER -> {}

Remapped ==
  LET F == program.func
  IN  {Pointee(F.type)} \cup Range(Sub[Pointee(F.type)]) \cup One(F.type2) \cup
      UNION {RemappedValue(program.values[i]) : i \in Reached.values}

\* "not all types visited": when the function is taken out of its module, the type map
\* is only asked for types that VisitFunction found.
AllTypesVisited == found # None /\ ~found.block => Remapped \subseteq found.need

\* A function from which the address of a block can be reached is always noticed.
BlockAddressFound == found # None =>
  (found.block <=> \E i \in Reached.values : program.values[i].kind = "block")

\* Every compile unit of the function's debug information, cyclic as it is, is listed once.
UnitsListedOnce == found # None =>
  /\ Range(found.units) = {m \in Reached.meta : program.meta[m].kind = "unit"}
  /\ IsInjective(found.units)

=============================================================================

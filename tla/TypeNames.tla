----------------------------- MODULE TypeNames -----------------------------
(***************************************************************************)
(* The types of outlined callees: the order of their arguments and results *)
(* (compareTypes, simplifyType of src/outlining/lib/Extractor.cpp) and the *)
(* name of a group of candidates (getTypeName, getGroupName of             *)
(* src/outlining/lib/Funcs.cpp).  A type is a record: its kind, the types  *)
(* in it, and a number or a flag that depends on the kind.                 *)
(***************************************************************************)
EXTENDS Integers, Sequences, SequencesExt, FiniteSetsExt

CONSTANTS Types,              \* types of values
          MaxArgs             \* bound on the arguments of a callee

VARIABLES first, second       \* the types of the inputs of two candidates

vars == <<first, second>>

-----------------------------------------------------------------------------
(* LLVM's numbers of the kinds (Type::TypeID).  *)
Kinds == <<"half", "bfloat", "float", "double", "x86_fp80", "fp128", "ppc_fp128", "void", "label",
           "metadata", "x86_mmx", "x86_amx", "token", "integer", "function", "pointer", "struct",
           "array", "fixed_vector", "scalable_vector">>
TypeID(t) == CHOOSE n \in DOMAIN Kinds : Kinds[n] = t.kind

(* One contained type decides when it is less or greater.  *)
Decides(lt, gt) == lt \/ gt

RECURSIVE CompareTypes(_, _)
CompareTypes(t0, t1) ==
  LET deciding == {i \in DOMAIN t0.of : Decides(CompareTypes(t0.of[i], t1.of[i]), CompareTypes(t1.of[i], t0.of[i]))}
  IN IF t0.kind # t1.kind THEN TypeID(t0) < TypeID(t1)
     ELSE IF t0.kind = "pointer" THEN t0.n < t1.n
     ELSE IF Len(t0.of) # Len(t1.of) THEN Len(t0.of) < Len(t1.of)
     ELSE IF deciding # {} THEN CompareTypes(t0.of[Min(deciding)], t1.of[Min(deciding)])
     ELSE t0.kind = "integer" /\ t0.n < t1.n

Int8 == [kind |-> "integer", of |-> <<>>, n |-> 8]
SimplifyType(t) == IF t.kind = "pointer" THEN [t EXCEPT !.of = <<Int8>>] ELSE t

(* std::stable_sort of the inputs, or of the outputs, by their types.  *)
Insert(sorted, t) ==
  LET after == {i \in DOMAIN sorted : CompareTypes(t, sorted[i])}
      at == IF after = {} THEN Len(sorted) + 1 ELSE Min(after)
  IN InsertAt(sorted, at, t)

ArgTypes(values) == FoldLeft(Insert, <<>>, [i \in DOMAIN values |-> SimplifyType(values[i])])

-----------------------------------------------------------------------------
Primitive ==
  [void |-> 0, label |-> 1, metadata |-> 2, token |-> 3, half |-> 11, float |-> 12, double |-> 13,
   fp128 |-> 14, x86_fp80 |-> -1, ppc_fp128 |-> -2, x86_mmx |-> -3, bfloat |-> -4, x86_amx |-> -5]
OpaqueStruct == 4

Derived ==
  [integer |-> 0, pointer |-> 1, array |-> -1, fixed_vector |-> -2, scalable_vector |-> -3,
   struct |-> -4, function |-> -5]

(* Integers and pointers: no subtypes.  A pointer's element type is ignored.  *)
SimpleName(t) == <<Derived[t.kind], t.n>>

RECURSIVE GetTypeName(_)
GetTypeName(t) ==
  IF t.kind \in DOMAIN Primitive THEN <<Primitive[t.kind]>>
  ELSE IF t.kind = "struct" /\ t.n = -1 THEN <<OpaqueStruct>>
  ELSE IF t.kind \in {"integer", "pointer"} THEN SimpleName(t)
  ELSE <<Derived[t.kind], [i \in DOMAIN t.of |-> GetTypeName(t.of[i])], t.n>>

(* The part of the group's name that is made of the arguments or of the results.  *)
GetGroupName(values) == [i \in DOMAIN values |-> GetTypeName(ArgTypes(values)[i])]

-----------------------------------------------------------------------------
(* The inputs of a candidate in any order; another candidate has the same ones in another
   order, or one other input.                                                            *)
Init ==
  /\ first \in UNION {[1 .. n -> Types] : n \in 1 .. MaxArgs}
  /\ second \in {[i \in DOMAIN first |-> first[p[i]]] : p \in {q \in [DOMAIN first -> DOMAIN first] : IsInjective(q)}}
                \cup (IF Len(first) = 1 THEN [1 .. 1 -> Types] ELSE {})

Next == UNCHANGED vars

Spec == Init /\ [][Next]_vars

-----------------------------------------------------------------------------
RECURSIVE Erase(_)
Erase(t) == IF t.kind = "pointer" THEN [t EXCEPT !.of = <<>>]
            ELSE [t EXCEPT !.of = [i \in DOMAIN t.of |-> Erase(t.of[i])]]

(* compareTypes is a strict weak order, as std::stable_sort requires.  *)
StrictWeakOrder ==
  \A a, b, c \in Range(first) :
    LET Less(x, y) == CompareTypes(SimplifyType(x), SimplifyType(y))
        Tied(x, y) == ~Less(x, y) /\ ~Less(y, x)
    IN /\ ~(Less(a, b) /\ Less(b, a))
       /\ Less(a, b) /\ Less(b, c) => Less(a, c)
       /\ Tied(a, b) /\ Tied(b, c) => Tied(a, c)

(* Two candidates are in one group when the types of their callees, what pointers point to
   apart, are the same, and not otherwise.                                                *)
GroupIsType ==
  GetGroupName(first) = GetGroupName(second) <=>
    [i \in DOMAIN first |-> Erase(ArgTypes(first)[i])] = [i \in DOMAIN second |-> Erase(ArgTypes(second)[i])]

Count(s, t) == Cardinality({i \in DOMAIN s : s[i] = t})

(* The order in which a candidate uses its inputs does not matter to its group, unless
   compareTypes takes two different types for equal, which its TODO says of vectors' sizes
   and the like.                                                                          *)
OrderIrrelevant ==
  (\A t \in Range(first) : Count(first, t) = Count(second, t))
  /\ (\A a, b \in Range(first) : CompareTypes(a, b) \/ CompareTypes(b, a) \/ Erase(a) = Erase(b))
  => GetGroupName(first) = GetGroupName(second)
=============================================================================

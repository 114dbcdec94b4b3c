------------------------------- MODULE Merger -------------------------------
(***************************************************************************)
(* The merging of split modules into one (guided_linking/lib/Merge.cpp):   *)
(* every definition becomes an item, references are resolved, strongly     *)
(* connected groups of items are named from the leaves up, groups that are *)
(* equal share their bodies, and the definitions are moved to the merged   *)
(* module under their new names.                                           *)
(*                                                                         *)
(* An item is <<module, name>>; program[i] is [part, refs, self, alias]:   *)
(* the ID of its function module (NoPart for a variable or an alias), the  *)
(* names it refers to, and whether it takes its own address.               *)
(* A name is a sequence of strings, the pieces it is put together from;    *)
(* the empty sequence is the empty name.  A definition of the merged       *)
(* module is a record [kind, ...] under its name.                          *)
(*                                                                         *)
(* This is BCDB::Merge, whose modules know nothing of each other; mux and  *)
(* guided linking differ in how a name is resolved and in what is done     *)
(* before and after.                                                       *)
(***************************************************************************)
EXTENDS Naturals, FiniteSets, SequencesExt, Functions, TLC

CONSTANTS Programs, DisableDeduplication, DisableStubs, EnableNameReuse

VARIABLES phase, program, resolved, newName, newDefName, skipStub,
          reserved, groups, todo, remaining, merged, aliasMap

vars == <<phase, program, resolved, newName, newDefName, skipStub,
          reserved, groups, todo, remaining, merged, aliasMap>>

NoPart == ""
NoItem == <<>>
NoName == <<>>

Items == DOMAIN program
ModuleOf(i) == i[1]
NameOf(i) == i[2]
IsFunction(i) == program[i].part # NoPart

\* AddModule and LoadPartRefs: a function that takes its own address refers to its own name.
Refs(i) == program[i].refs \cup (IF program[i].self THEN {NameOf(i)} ELSE {})

Static(i) == [gi |-> i, name |-> NoName]
Dynamic(n) == [gi |-> NoItem, name |-> n]

\* Merger::Resolve: a module's own definition, or left to the dynamic linker.
Resolve(m, n) == IF <<m, n>> \in Items THEN Static(<<m, n>>) ELSE Dynamic(n)

MergerInit ==
  /\ program \in Programs
  /\ phase = "prepare"
  /\ resolved = <<>>
  /\ newName = [i \in Items |-> NoName]
  /\ newDefName = [i \in Items |-> NoName]
  /\ skipStub = {} /\ reserved = {} /\ groups = {} /\ todo = {}
  /\ remaining = {ModuleOf(i) : i \in Items}
  /\ merged = <<>> /\ aliasMap = <<>>

-----------------------------------------------------------------------------
\* The graph of references, whose strongly connected components LLVM lists
\* after everything they refer to; the order is otherwise that of pointers.
Successors(R, i) == {R[i][n].gi : n \in DOMAIN R[i]} \ {NoItem}
Reaches(R, i) ==
  LET Step(S) == S \cup UNION {Successors(R, j) : j \in S}
      From[k \in 0..Cardinality(Items)] == IF k = 0 THEN {i} ELSE Step(From[k-1])
  IN  From[Cardinality(Items)]
Components(R) ==
  LET reach == [i \in Items |-> Reaches(R, i)]
  IN  {{j \in reach[i] : i \in reach[j]} : i \in Items}

DynamicNames(R) == {R[i][n].name : <<i, n>> \in {<<i, n>> \in Items \X UNION {Refs(i) : i \in Items} : n \in Refs(i)}} \ {NoName}

\* MergerGlobalGraph's constructor.
MakeGraph(R) ==
  /\ resolved' = R
  /\ reserved' = reserved \cup DynamicNames(R)
  /\ todo' = Components(R)
  /\ phase' = "rename"
  /\ UNCHANGED <<program, newName, newDefName, skipStub, groups, remaining, merged, aliasMap>>

-----------------------------------------------------------------------------
ReserveName(prefix, taken) ==
  IF prefix \notin taken THEN prefix
  ELSE LET free == {k \in 0..Cardinality(taken) : Append(prefix, ToString(k)) \notin taken}
       IN  Append(prefix, ToString(CHOOSE k \in free : \A l \in free : k <= l))

\* ResolvedReference::operator<: what two references are compared by.
RefKey(r) == IF r.gi # NoItem THEN <<"item", newName[r.gi]>> ELSE <<"name", r.name>>

\* Mutant: only functions of one module are compared.
EqualInModule(a, b) ==
  /\ program[a].part = program[b].part /\ Refs(a) = Refs(b) /\ ModuleOf(a) = ModuleOf(b)
  /\ \A n \in Refs(a) : RefKey(resolved[a][n]) = RefKey(resolved[b][n])
  /\ IsFunction(a)

\* ItemComp puts neither before the other.
Equal(a, b) ==
  /\ program[a].part = program[b].part /\ Refs(a) = Refs(b)
  /\ \A n \in Refs(a) : RefKey(resolved[a][n]) = RefKey(resolved[b][n])
  /\ IsFunction(a)

\* Both groups are sorted by ItemComp and compared item by item.
Matchings(S, T) == {p \in Bijection(S, T) : \A i \in S : Equal(i, p[i])}
EqualGroups(S) == {T \in groups : Cardinality(T) = Cardinality(S) /\ Matchings(S, T) # {}}

\* A group that refers to itself changes its place in the order when it gets its
\* names, after it was put in the std::set; a search may then miss an equal group.
OutOfOrder == \E T \in groups : \E i \in T : Successors(resolved, i) \cap T # {}

\* "We can reuse NewName from a different module, but not from the same module."
Reusable(i, n) ==
  /\ newName[i] = NoName
  /\ \A j \in Items \ UNION todo : ModuleOf(j) = ModuleOf(i) => newName[j] # n

\* What the items of S take over from the equal group (p maps S to it).
Reused(S, p) == {i \in S : EnableNameReuse /\ Reusable(i, newName[p[i]])}

BodyPrefix == IF DisableStubs THEN <<>> ELSE <<"__bcdb_body_">>

\* The names of one item, given those of the items before it.
NameItem(acc, i) ==
  LET new == IsFunction(i) /\ acc.def[i] = NoName
      def == IF new THEN ReserveName(BodyPrefix \o NameOf(i), acc.reserved) ELSE acc.def[i]
      taken == IF new THEN acc.reserved \cup {def} ELSE acc.reserved
      name == IF DisableStubs /\ IsFunction(i) THEN def
              ELSE IF acc.name[i] = NoName THEN ReserveName(NameOf(i), taken) ELSE acc.name[i]
  IN  [name |-> [acc.name EXCEPT ![i] = name], def |-> [acc.def EXCEPT ![i] = def],
       reserved |-> taken \cup {name}]

\* The loop at the end of an iteration of RenameEverything.
NameGroup(S, names, defs) ==
  \E order \in SetToSeqs(S) :
    LET acc == FoldLeft(NameItem, [name |-> names, def |-> defs, reserved |-> reserved], order)
    IN  newName' = acc.name /\ newDefName' = acc.def /\ reserved' = acc.reserved

StubSkipped(S) == IF DisableStubs THEN {i \in S : IsFunction(i)} ELSE {}

Ready(S) == \A i \in S : Successors(resolved, i) \cap UNION todo \subseteq S

\* An iteration that finds an equal group.
ShareGroup(S) ==
  /\ phase = "rename" /\ S \in todo /\ Ready(S) /\ ~DisableDeduplication
  /\ \E T \in EqualGroups(S) : \E p \in Matchings(S, T) :
       /\ NameGroup(S, [i \in Items |-> IF i \in Reused(S, p) THEN newName[p[i]] ELSE newName[i]],
                       [i \in Items |-> IF i \in S THEN newDefName[p[i]] ELSE newDefName[i]])
       /\ skipStub' = skipStub \cup Reused(S, p) \cup StubSkipped(S)
  /\ todo' = todo \ {S}
  /\ UNCHANGED <<phase, program, resolved, groups, remaining, merged, aliasMap>>

\* An iteration that does not.
AddGroup(S) ==
  /\ phase = "rename" /\ S \in todo /\ Ready(S)
  /\ DisableDeduplication \/ EqualGroups(S) = {} \/ OutOfOrder
  /\ groups' = IF DisableDeduplication THEN groups ELSE groups \cup {S}
  /\ NameGroup(S, newName, newDefName)
  /\ skipStub' = skipStub \cup StubSkipped(S)
  /\ todo' = todo \ {S}
  /\ UNCHANGED <<phase, program, resolved, remaining, merged, aliasMap>>

RenameEverything == \E S \in todo : ShareGroup(S) \/ AddGroup(S)

-----------------------------------------------------------------------------
GetNewName(r) == IF r.gi # NoItem THEN newName[r.gi] ELSE r.name

\* ApplyNewNames stops with "conflicting references".
SameReference(r, s) ==
  \/ r.gi # NoItem /\ s.gi # NoItem /\ newName[r.gi] = newName[s.gi]
  \/ r.gi = NoItem /\ s.gi = NoItem /\ r.name = s.name
Conflicting(R) == \E a, b \in DOMAIN R : GetNewName(R[a]) = GetNewName(R[b]) /\ ~SameReference(R[a], R[b])

ApplyNewNames(R) == [n \in DOMAIN R |-> GetNewName(R[n])]

\* LoadPartDefinition: the function under its new names; its own address is its stub's.
PartDefinition(i) == [kind |-> "body", part |-> program[i].part, refs |-> ApplyNewNames(resolved[i])]

\* AddPartStub: a function (or an alias) that passes on to the body.
PartStub(i) == [kind |-> "stub", to |-> newDefName[i]]

FunctionsOf(m) == {i \in Items : ModuleOf(i) = m /\ IsFunction(i)}
RemainderOf(m) == {i \in Items : ModuleOf(i) = m /\ ~IsFunction(i)}

\* The bodies that module m is the first to need, each from the first item that has it.
Bodies(m) ==
  LET missing == {newDefName[i] : i \in FunctionsOf(m)} \ DOMAIN merged
  IN  {[d \in missing |-> PartDefinition(first[d])] :
        first \in {f \in [missing -> FunctionsOf(m)] : \A d \in missing : newDefName[f[d]] = d}}

Stubs(m) ==
  LET stubbed == FunctionsOf(m) \ skipStub
      StubFor(n) == PartStub(CHOOSE i \in stubbed : newName[i] = n)
  IN  [n \in {newName[i] : i \in stubbed} |-> StubFor(n)]

\* How the names in the remainder of m are resolved.
RemainderRefs(m) ==
  LET own == {NameOf(i) : i \in RemainderOf(m)}
      used == UNION {Refs(i) : i \in RemainderOf(m)}
  IN  [n \in own \cup used |->
         IF \E i \in RemainderOf(m) : n \in Refs(i)
         THEN resolved[CHOOSE i \in RemainderOf(m) : n \in Refs(i)][n] ELSE Static(<<m, n>>)]

\* LoadRemainder: variables are moved, aliases are kept for later.
Variables(m) ==
  LET moved == {i \in RemainderOf(m) : ~program[i].alias}
  IN  [n \in {newName[i] : i \in moved} |->
         LET i == CHOOSE j \in moved : newName[j] = n
         IN  [kind |-> "variable", item |-> i, refs |-> ApplyNewNames(resolved[i])]]
AliasesOf(m) ==
  LET kept == {i \in RemainderOf(m) : program[i].alias}
  IN  [n \in {newName[i] : i \in kept} |->
         LET i == CHOOSE j \in kept : newName[j] = n
         IN  GetNewName(resolved[i][CHOOSE r \in Refs(i) : TRUE])]

\* Names that the merged module's definitions use: these are declared in it.
Declared(mod) == UNION {Range(mod[n].refs) : n \in {n \in DOMAIN mod : mod[n].kind \in {"body", "variable"}}}

StartFinish ==
  /\ phase = "rename" /\ todo = {}
  /\ phase' = "finish"
  /\ UNCHANGED <<program, resolved, newName, newDefName, skipStub, reserved, groups, todo,
                 remaining, merged, aliasMap>>

\* ApplyNewNames fails on the remainder of m or on one of its functions.
ConflictIn(m) == Conflicting(RemainderRefs(m)) \/ \E i \in FunctionsOf(m) : Conflicting(resolved[i])

\* One module of Finish's first loop; the order is that of a hash table.
FinishModule(m) ==
  /\ phase = "finish" /\ m \in remaining
  /\ phase' = IF ConflictIn(m) THEN "conflict" ELSE "finish"
  /\ \E bodies \in Bodies(m) : merged' = Variables(m) @@ Stubs(m) @@ bodies @@ merged
  /\ aliasMap' = AliasesOf(m) @@ aliasMap
  /\ remaining' = remaining \ {m}
  /\ UNCHANGED <<program, resolved, newName, newDefName, skipStub, reserved, groups, todo>>

\* The aliasee may be in a module that is loaded later.
AllLoaded == remaining = {}

\* One alias of Finish's second loop, in the order of a hash table.
FinishAlias(n) ==
  /\ phase = "finish" /\ AllLoaded /\ n \in DOMAIN aliasMap
  /\ phase' = IF aliasMap[n] \in DOMAIN merged \cup Declared(merged) THEN "finish" ELSE "no aliasee"
  /\ merged' = (n :> [kind |-> "alias", to |-> aliasMap[n]]) @@ merged
  /\ aliasMap' = [a \in DOMAIN aliasMap \ {n} |-> aliasMap[a]]
  /\ UNCHANGED <<program, resolved, newName, newDefName, skipStub, reserved, groups, todo, remaining>>

EndFinish ==
  /\ phase = "finish" /\ remaining = {} /\ aliasMap = <<>>
  /\ phase' = "done"
  /\ UNCHANGED <<program, resolved, newName, newDefName, skipStub, reserved, groups, todo,
                 remaining, merged, aliasMap>>

ResolveAll == phase = "prepare" /\ MakeGraph([i \in Items |-> [n \in Refs(i) |-> Resolve(ModuleOf(i), n)]])

Finish ==
  \/ StartFinish
  \/ \E m \in remaining : FinishModule(m)
  \/ \E n \in DOMAIN aliasMap : FinishAlias(n)
  \/ EndFinish

\* The merged module is returned, or the program has stopped.
Returned == phase \in {"done", "conflict", "no aliasee"} /\ UNCHANGED vars

Next == ResolveAll \/ RenameEverything \/ Finish \/ Returned
Spec == MergerInit /\ [][Next]_vars

-----------------------------------------------------------------------------
(***************************************************************************)
(* What it means that a merged module does what its parts did: a relation  *)
(* between the items and the names of the merged module, as large as it    *)
(* can be, in which code has the same code, variables are the same         *)
(* variables, and so on through all that they refer to.                    *)
(***************************************************************************)
\* The definition that the name n stands for in the merged module, through stubs and aliases.
Through(n) == IF n \in DOMAIN merged /\ merged[n].kind \in {"stub", "alias"} THEN merged[n].to ELSE n
Target(n) == Through(Through(Through(Through(n))))

\* The references of i are kept by those of the definition d, given the pairs in P;
\* M[i][n] is the set of items that i may mean by n, empty for the dynamic linker's.
RefsKept(i, d, P, M) ==
  \A n \in Refs(i) :
    IF M[i][n] # {} THEN \E j \in M[i][n] : <<j, d.refs[n]>> \in P
    ELSE d.refs[n] = n /\ n \notin DOMAIN merged

\* The name n does what item i did.
Keeps(i, n, P, M) ==
  /\ Target(n) \in DOMAIN merged
  /\ LET d == merged[Target(n)]
     IN  IF program[i].alias
         THEN \A r \in Refs(i) : \E j \in M[i][r] : <<j, Target(n)>> \in P
         ELSE /\ IF IsFunction(i) THEN d.kind = "body" /\ d.part = program[i].part
                 ELSE d.kind = "variable" /\ d.item = i
              /\ RefsKept(i, d, P, M)

RECURSIVE Greatest(_, _)
Greatest(P, M) == LET Q == {p \in P : Keeps(p[1], p[2], P, M)} IN IF Q = P THEN P ELSE Greatest(Q, M)
Kept(M) == Greatest({<<i, n>> : i \in Items, n \in DOMAIN merged}, M)

-----------------------------------------------------------------------------
\* What a reference of item i means in its own module.
Own(i, n) == {<<ModuleOf(i), n>>} \cap Items
Meant == [i \in Items |-> [n \in Refs(i) |-> Own(i, n)]]

\* Merging keeps every module's meaning (Merge.cpp:376-525): following the new
\* names from any item leads to the same code, the same variables and the same
\* names left to the dynamic linker as in the module it came from, however the
\* groups are ordered and whatever bodies and names they share.
SameProgram ==
  phase = "done" =>
    LET P == Kept(Meant) IN \A i \in Items : <<i, newName[i]>> \in P

\* Two definitions of one module never get one name, so that their addresses
\* stay different (Merge.cpp:428: "but not from the same module").
AddressesDiffer ==
  \A i, j \in Items : i # j /\ ModuleOf(i) = ModuleOf(j) /\ newName[i] # NoName => newName[i] # newName[j]

\* Equal functions share one body (test dedup.ll and identical-modules.ll),
\* where no recursion has disturbed the order of the groups.
Recursive == \E i \in Items : \E j \in Successors(resolved, i) : i \in Reaches(resolved, j)
SameCode(i, j) ==
  /\ IsFunction(i) /\ program[i].part = program[j].part
  /\ \A n \in Refs(i) : GetNewName(resolved[i][n]) = GetNewName(resolved[j][n])
EqualShareBody ==
  phase = "done" /\ ~Recursive =>
    \A i, j \in Items : SameCode(i, j) => newDefName[i] = newDefName[j]

\* Finish finds no references in conflict (Merge.cpp:125), since no new name is
\* one that is left to the dynamic linker.
NoConflict == phase # "conflict"

\* When an alias is made again, what it stands for is there (Merge.cpp:513).
AliaseeFound == phase # "no aliasee"

=============================================================================

-------------------------------- MODULE BCDB --------------------------------
(***************************************************************************)
(* A database of split modules (bcdb/lib/BCDB.cpp): users add modules,     *)
(* each function being put in the store as it is split off, then the       *)
(* remainder, the node that lists them and the head; a user may be killed  *)
(* in between.  A stored block is its own CID.                             *)
(***************************************************************************)
EXTENDS Integers, FiniteSets, SequencesExt

(***************************************************************************)
(* Splitting a bitcode module into functions and a remainder               *)
(* (bcdb/lib/Split.cpp), joining them (bcdb/lib/Join.cpp), and the         *)
(* reference graph that orders the splitting.                              *)
(*                                                                         *)
(* A module is [globals, order]: a function from the names of its          *)
(* functions, variables and aliases to records, and the order of its       *)
(* functions.  Of a global the fields are: look (visibility, DLL storage,  *)
(* unnamed_addr and dso_local), attrs (calling convention, collector,      *)
(* alignment and attributes), data (personality, prefix and prologue), md  *)
(* (metadata), code ("decl" for a declaration), refs (the globals its code *)
(* or initializer uses) and blocks (functions whose blocks' addresses it   *)
(* takes).  A name is a sequence of bytes; those made up here begin with a *)
(* negative number.                                                        *)
(***************************************************************************)

Self == <<-2>>
None == <<>>

Default == [kind |-> "func", linkage |-> "external", look |-> "", section |-> "", comdat |-> "",
            attrs |-> "", data |-> "", md |-> "", code |-> "decl", refs |-> <<>>, blocks |-> {}]

Subst(refs, old, new) == [i \in DOMAIN refs |-> IF refs[i] = old THEN new ELSE refs[i]]

\* FindGlobalReferences: what a global uses, itself excepted.
FindGlobalReferences(M, n) == (Range(M.globals[n].refs) \cup M.globals[n].blocks) \ {n}

\* GlobalReferenceGraph, with the strongly connected components that LLVM finds in it.
Reaches(M, n) ==
  LET Step(S) == S \cup UNION {FindGlobalReferences(M, m) : m \in S}
      R[k \in 0..Cardinality(DOMAIN M.globals)] == IF k = 0 THEN {n} ELSE Step(R[k-1])
  IN  R[Cardinality(DOMAIN M.globals)]
SCC(M, n) == {m \in Reaches(M, n) : n \in Reaches(M, m)}

-----------------------------------------------------------------------------
\* SplitGlobal and ExtractFunction return a module for this global.
Splittable(M, n) ==
  /\ M.globals[n].kind = "func" /\ M.globals[n].code # "decl"
  /\ \A m \in DOMAIN M.globals : n \notin M.globals[m].blocks
  /\ M.globals[n].blocks = {}

\* Recursive calls become calls of the nameless function.
OwnRefs(M, n) == Subst(M.globals[n].refs, n, Self)

\* The function's own module: no name, and nothing about linking.
Part(M, n) == [M.globals[n] EXCEPT !.linkage = "external", !.look = "", !.section = "", !.comdat = "",
                                   !.refs = OwnRefs(M, n)]

\* The stub that remains: no personality, prefix, prologue or metadata, and no code.
Stub(M, n) == [M.globals[n] EXCEPT !.data = "", !.md = "", !.code = "unreachable", !.refs = <<>>]

SplitGlobal(M, n) == [M EXCEPT !.globals[n] = Stub(M, n)]

-----------------------------------------------------------------------------

\* Joiner: all globals are made external.
Linkable(M) == [M EXCEPT !.globals = [n \in DOMAIN @ |-> [@[n] EXCEPT !.linkage = "external"]]]

\* IRMover resolves a reference by name, to a global that is not local.
Resolve(M, ref) ==
  IF ref \in DOMAIN M.globals /\ M.globals[ref].linkage \notin {"internal", "private"} THEN ref ELSE <<-3>> \o ref

\* copyAttributesFrom(Stub), setAttributes and setComdat.
Restored(stub, part) ==
  [part EXCEPT !.linkage = stub.linkage, !.look = stub.look, !.comdat = stub.comdat, !.attrs = stub.attrs,
               !.section = stub.section, !.data = IF stub.data # "" THEN stub.data ELSE part.data]

\* The assertions of JoinGlobal: the global is a stub, and naming the definition is no conflict.
CanJoin(M, n, part) ==
  n \in DOMAIN M.globals /\ M.globals[n].code = "unreachable" /\ n \notin Range(part.refs)

JoinGlobal(M, n, part) ==
  LET def == Restored(M.globals[n], part)
      linked == [def EXCEPT !.refs = [i \in DOMAIN @ |-> IF @[i] = Self THEN n ELSE Resolve(M, @[i])]]
  IN  [globals |-> [M.globals EXCEPT ![n] = linked],
       order |-> Append(SelectSeq(M.order, LAMBDA m : m # n), n)]

\* Finish: linkage and order are what they were in the remainder.
Finish(M, remainder) ==
  [globals |-> [n \in DOMAIN M.globals |-> [M.globals[n] EXCEPT !.linkage = remainder.globals[n].linkage]],
   order |-> remainder.order]

\* The functions are joined in the order of their keys, which makes no difference.
Join(remainder, parts) ==
  LET todo == SetToSeq(DOMAIN parts)
  IN  Finish(FoldLeft(LAMBDA M, n : JoinGlobal(M, n, parts[n]), Linkable(remainder), todo), remainder)

-----------------------------------------------------------------------------

CONSTANTS
  User, Module, HeadName, Hash(_),
  MaxAdds  \* commands that are run

VARIABLES
  blocks,   \* blocks in the store
  heads,    \* HeadName -> CID, or None
  user,     \* each user's BCDB::Add, or None
  source,   \* the module whose Add set each head
  adds      \* commands run so far

vars == <<blocks, heads, user, source, adds>>

-----------------------------------------------------------------------------
bytesToUTF8(bytes) ==
  FlattenSeq([i \in DOMAIN bytes |->
    IF bytes[i] < 128 THEN <<bytes[i]>> ELSE <<192 + (bytes[i] \div 64), 128 + (bytes[i] % 64)>>])

utf8ToByteString(str) ==
  LET D[i \in 1..Len(str) + 1] ==
        IF i > Len(str) THEN <<>>
        ELSE IF str[i] < 128 THEN <<str[i]>> \o D[i + 1]
        ELSE <<(str[i] % 4) * 64 + (str[i + 1] % 64)>> \o D[i + 2]
  IN  D[1]

-----------------------------------------------------------------------------
Rename(M, old, new) ==
  LET back(n) == IF n = new THEN old ELSE n
      forth(n) == IF n = old THEN new ELSE n
  IN  [globals |-> [n \in (DOMAIN M.globals \ {old}) \cup {new} |->
                      [M.globals[back(n)] EXCEPT !.refs = Subst(@, old, new), !.blocks = {forth(b) : b \in @}]],
       order |-> Subst(M.order, old, new)]

\* Value::setName adds a suffix to a name that is taken.
SetName(M, n, wanted) ==
  LET free(k) == (IF k = 0 THEN wanted ELSE wanted \o <<46, 48 + k>>) \notin DOMAIN M.globals \ {n}
      k == CHOOSE k \in 0..9 : free(k) /\ \A j \in 0..k-1 : ~free(j)
  IN  Rename(M, n, IF k = 0 THEN wanted ELSE wanted \o <<46, 48 + k>>)

Dotted(n) == 46 \in Range(n)

\* RenameAnonymousConstants: private constants are named by a hash of their contents.
RenameAnonymousConstants(M) ==
  LET private == {n \in DOMAIN M.globals : M.globals[n].linkage = "private" /\ M.globals[n].kind = "var"
                    /\ M.globals[n].code # "decl" /\ Dotted(n) /\ Hash(M.globals[n].code) # 0}
  IN  FoldLeft(LAMBDA A, n : SetName(A, n, <<46, 115, 46, Hash(A.globals[n].code)>>), M, SetToSeq(private))

-----------------------------------------------------------------------------
Init ==
  /\ blocks = {}
  /\ heads = [h \in HeadName |-> None]
  /\ source = [h \in HeadName |-> None]
  /\ user = [u \in User |-> None]
  /\ adds = 0

\* bcdb add: PreprocessModule and the start of BCDB::Add.
StartAdd(u) == \E m \in Module, h \in HeadName, rename \in BOOLEAN :
  /\ user[u] = None /\ adds < MaxAdds
  /\ adds' = adds + 1
  /\ LET M == RenameAnonymousConstants(m)
     IN  user' = [user EXCEPT ![u] =
           [of |-> m, head |-> h, rename |-> rename, left |-> DOMAIN M.globals, scc |-> {},
            mod |-> M, saved |-> <<>>, functions |-> <<>>, put |-> 0]]
  /\ UNCHANGED <<blocks, heads, source>>

\* LLVM's scc_iterator visits a component after those it refers to.
Ready(U, n) == n \in U.left /\ Reaches(U.mod, n) \cap U.left \subseteq SCC(U.mod, n)

NextSCC(u) == \E n \in user[u].left :
  LET U == user[u]
  IN  /\ U.scc = {} /\ Ready(U, n)
      /\ user' = [user EXCEPT ![u].scc = SCC(U.mod, n) \cap U.left, ![u].left = @ \ SCC(U.mod, n)]
      /\ UNCHANGED <<blocks, heads, source, adds>>

\* SplitGlobal and SaveModule for one global of the component.
SaveFunction(u) == \E n \in user[u].scc :
  LET U == user[u]
      part == Part(U.mod, n)
  IN  /\ n \notin DOMAIN U.saved /\ Splittable(U.mod, n)
      /\ blocks' = blocks \cup {<<"part", part>>}
      /\ user' = [user EXCEPT ![u].mod = SplitGlobal(@, n), ![u].saved = (n :> part) @@ @]
      /\ UNCHANGED <<heads, source, adds>>

AliasName(M, part) ==
  LET taken == {n \in DOMAIN M.globals : n[1] = -1 /\ n[2] = part} IN <<-1, part, Cardinality(taken)>>

\* GO->replaceAllUsesWith(GA), and setAliasee.
RenameAll(M, n, alias) ==
  [M EXCEPT !.globals = (alias :> [Default EXCEPT !.kind = "alias", !.linkage = "internal", !.code = "alias", !.refs = <<n>>])
     @@ [m \in DOMAIN @ |-> [@[m] EXCEPT !.refs = Subst(@, n, alias)]]]

\* The loop over the functions just saved, in the order of a hash map of pointers.
ListFunction(u) == \E n \in DOMAIN user[u].saved :
  LET U == user[u]
      M == IF U.rename THEN RenameAll(U.mod, n, AliasName(U.mod, U.saved[n])) ELSE U.mod
  IN  /\ \A m \in U.scc \ DOMAIN U.saved : ~Splittable(U.mod, m)
      /\ user' = [user EXCEPT ![u].functions = (bytesToUTF8(n) :> U.saved[n]) @@ @, ![u].mod = M,
                              ![u].saved = [m \in DOMAIN @ \ {n} |-> @[m]], ![u].scc = @ \ {n}]
      /\ UNCHANGED <<blocks, heads, source, adds>>

EndSCC(u) ==
  LET U == user[u]
  IN  /\ U.scc # {} /\ DOMAIN U.saved = {} /\ \A n \in U.scc : ~Splittable(U.mod, n)
      /\ user' = [user EXCEPT ![u].scc = {}]
      /\ UNCHANGED <<blocks, heads, source, adds>>

Node(U) == [functions |-> U.functions, remainder |-> U.mod]

\* Mutant: the remainder is not put.
ToSaveNodeOnly(U) == <<<<"node", Node(U)>>>>

\* SaveModule(*M), then db->put(result).
ToSave(U) == <<<<"module", U.mod>>, <<"node", Node(U)>>>>

Save(u) ==
  LET U == user[u]
  IN  /\ U.left = {} /\ U.scc = {} /\ U.put < Len(ToSave(U))
      /\ blocks' = blocks \cup {ToSave(U)[U.put + 1]}
      /\ user' = [user EXCEPT ![u].put = @ + 1]
      /\ UNCHANGED <<heads, source, adds>>

SetHead(u) ==
  LET U == user[u]
  IN  /\ U.put = Len(ToSave(U))
      /\ heads' = [heads EXCEPT ![U.head] = Node(U)]
      /\ source' = [source EXCEPT ![U.head] = U.of]
      /\ user' = [user EXCEPT ![u] = None]
      /\ UNCHANGED <<blocks, adds>>

Kill(u) == user' = [user EXCEPT ![u] = None] /\ UNCHANGED <<blocks, heads, source, adds>>

Next == \E u \in User : StartAdd(u) \/
  (user[u] # None /\ (NextSCC(u) \/ SaveFunction(u) \/ ListFunction(u) \/ EndSCC(u) \/ Save(u) \/ SetHead(u) \/ Kill(u)))

Spec == Init /\ [][Next]_vars

-----------------------------------------------------------------------------
\* getSplitModule and LoadParts.
Parts(node) == [n \in {utf8ToByteString(k) : k \in DOMAIN node.functions} |->
                  node.functions[CHOOSE k \in DOMAIN node.functions : utf8ToByteString(k) = n]]
getSplitModule(node) == Join(node.remainder, Parts(node))

\* ListFunctionsInModule
ListFunctionsInModule(node) == {node.functions[k] : k \in DOMAIN node.functions}

\* The module without the aliases that RenameAll made.
RECURSIVE Unaliased(_, _)
Unaliased(M, n) == IF n[1] = -1 THEN Unaliased(M, M.globals[n].refs[1]) ELSE n
Plain(M) ==
  [M EXCEPT !.globals = [n \in {m \in DOMAIN @ : m[1] # -1} |->
     [@[n] EXCEPT !.refs = [i \in DOMAIN @ |-> Unaliased(M, @[i])]]]]

Private(M) == {n \in DOMAIN M.globals : M.globals[n].linkage = "private"}

\* The same module but for the names of private globals.
SameModule(M, J) ==
  \E to \in [Private(M) -> Private(J)] :
    /\ IsInjective(to) /\ Cardinality(Private(M)) = Cardinality(Private(J))
    /\ LET name(n) == IF n \in Private(M) THEN to[n] ELSE n
       IN  /\ {name(n) : n \in DOMAIN M.globals} = DOMAIN J.globals
           /\ \A n \in DOMAIN M.globals : J.globals[name(n)] =
                [M.globals[n] EXCEPT !.refs = [i \in DOMAIN @ |-> name(@[i])], !.blocks = {name(b) : b \in @}]
           /\ J.order = [i \in DOMAIN M.order |-> name(M.order[i])]

\* Whoever adds modules at the same time, and whoever is killed, everything a head leads
\* to is in the store: the list, the remainder and every function.
HeadsAreWhole == \A h \in HeadName : heads[h] # None =>
  /\ {<<"node", heads[h]>>, <<"module", heads[h].remainder>>} \subseteq blocks
  /\ \A p \in ListFunctionsInModule(heads[h]) : <<"part", p>> \in blocks

\* bcdb get gives back the module that was added: every function with its code, linkage,
\* section, comdat, attributes, metadata and place, every reference to what it referred to.
GetsWhatWasAdded == \A h \in HeadName : heads[h] # None =>
  LET parts == Parts(heads[h])
  IN  /\ \A n \in DOMAIN parts : CanJoin(Linkable(heads[h].remainder), n, parts[n])
      /\ SameModule(source[h], Plain(getSplitModule(heads[h])))

\* Functions that differ in what they are called and how they are linked are stored once.
StoredOnce == \A p, q \in blocks : p[1] = "part" /\ q[1] = "part" /\
  [p[2] EXCEPT !.linkage = "", !.look = "", !.section = "", !.comdat = ""] =
  [q[2] EXCEPT !.linkage = "", !.look = "", !.section = "", !.comdat = ""] => p = q

\* With -rename-globals a function that was split off is only referred to by its name
\* within a cycle of references; all other functions do not depend on such names.
NamesOnlyInCycles == \A u \in User : user[u] # None => LET U == user[u] IN U.rename =>
  \A k \in DOMAIN U.functions : \A r \in Range(U.functions[k].refs) :
    r \in DOMAIN U.mod.globals /\ U.mod.globals[r].code = "unreachable" =>
      utf8ToByteString(k) \in Reaches(RenameAnonymousConstants(U.of), r)

=============================================================================

----------------------------- MODULE MCSolution -----------------------------
(***************************************************************************)
(* From candidates to an outlined module, one step per behaviour (part):   *)
(* the choice of the candidates, the equivalence of their callees, and the *)
(* names of their types.                                                   *)
(***************************************************************************)
EXTENDS Integers, Sequences, SequencesExt

CONSTANTS Problems, MinBenefit, MinCallerSavings, BatchSize, Worlds, GiveUp, Types, MaxArgs  \* of the modules

VARIABLES part,
          problem, phase, grouped, callees, cands, sizes, current, selected, chosen, total, module,
          world, stage, members, root, calls,
          first, second

greedyVars == <<problem, phase, grouped, callees, cands, sizes, current, selected, chosen, total, module>>
groupVars == <<world, stage, members, root, calls>>
typeVars == <<first, second>>

Greedy == INSTANCE GreedySolution
Group == INSTANCE Refinements WITH phase <- stage
Names == INSTANCE TypeNames

-----------------------------------------------------------------------------
(* Modules of two functions, the first of which may be there twice, with    *)
(* candidates that overlap or save less together, three callees, and        *)
(* estimates that are right, too high or too low.                           *)

(* Functions are 1 and 2, callees 11, 12 and 13; a name is a pair.  An earlier run may have
   left a function with the name of a callee.                                              *)
Item(name, cid) == [name |-> name, cid |-> cid]
Modules ==
  {<<Item(<<0, 1>>, 1), Item(<<0, 2>>, 2)>>,
   <<Item(<<0, 1>>, 1), Item(<<0, 2>>, 2), Item(<<11, 0>>, 1)>>}

Places == <<[function |-> 1, nodes |-> {1, 2, 5}], [function |-> 1, nodes |-> {0, 1}],
            [function |-> 1, nodes |-> {2, 3}], [function |-> 2, nodes |-> {2, 3}]>>

Problem(items, callee, est, real, sameGroup, mode, lost) ==
  [functions |-> items,
   candidates |-> [id \in DOMAIN Places |->
     [function |-> Places[id].function, nodes |-> Places[id].nodes,
      callee |-> callee[id], caller_savings |-> est[id],
      callee_size |-> IF id # 1 THEN 2 ELSE 3]],
   size |-> [c \in 11 .. 13 |-> 2],
   base |-> [f \in 1 .. 2 |-> 20],
   saves |-> real, pair |-> {2, 3}, lost |-> lost,
   group |-> [c \in 11 .. 13 |-> IF sameGroup \/ c # 12 THEN 1 ELSE 2],
   compile |-> mode = "compile", verify |-> mode # "estimate"]

MCProblems ==
  {Problem(items, callee, est, real, sameGroup, mode, lost) :
     items \in Modules, callee \in {c \in [DOMAIN Places -> 11 .. 13] : c[1] = 11 /\ c[2] # 13},
     est \in {[id \in DOMAIN Places |-> IF id \in low THEN 1 ELSE 3] : low \in {{1}, {2, 4}}},
     real \in [DOMAIN Places -> {0, 4}],
     sameGroup \in BOOLEAN, lost \in {0, 3}, mode \in {"compile", "verify"}}

\* Three callees, all the ways in which they may be equivalent or refine each other, with
\* and without poison and undef; the second of two equivalent ones is the smaller.
MCWorlds ==
  {[does |-> does, size |-> [c \in 1 .. 3 |-> IF c % 2 = 0 THEN 1 ELSE 2], members |-> <<3, 2, 1, 1>>] :
     does \in {d \in [1 .. 3 -> 0 .. 2] : d[1] <= 1}}

\* Numbers, pointers to different things in two address spaces, and arrays, vectors and
\* structs of them.
Type(kind, of, n) == [kind |-> kind, of |-> of, n |-> n]
IntN(w) == Type("integer", <<>>, w)
Ptr(t, space) == Type("pointer", <<t>>, space)

MCTypes ==
  {IntN(8), IntN(32), Type("half", <<>>, 0), Type("x86_fp80", <<>>, 0),
   Ptr(IntN(8), 0), Ptr(Type("function", <<Type("void", <<>>, 0)>>, 1), 0), Ptr(IntN(32), 1),
   Type("array", <<IntN(8)>>, 2), Type("array", <<IntN(8)>>, 3),
   Type("scalable_vector", <<IntN(8)>>, 2),
   Type("struct", <<>>, -1), Type("struct", <<>>, 0),
   Type("struct", <<IntN(8), IntN(32)>>, 0), Type("struct", <<IntN(32), IntN(8)>>, 0),
   Type("struct", <<IntN(8), IntN(32)>>, 1),
   Type("struct", <<Ptr(IntN(8), 0)>>, 0), Type("struct", <<Ptr(IntN(32), 0)>>, 0)}

-----------------------------------------------------------------------------
NoGreedy ==
  /\ problem = 0 /\ phase = "none" /\ grouped = 0 /\ callees = 0 /\ cands = 0 /\ sizes = 0
  /\ current = 0 /\ selected = 0 /\ chosen = 0 /\ total = 0 /\ module = 0
NoGroup == world = 0 /\ stage = "none" /\ members = 0 /\ root = 0 /\ calls = 0
NoTypes == first = 0 /\ second = 0

Init ==
  \/ part = "greedy" /\ Greedy!Init /\ NoGroup /\ NoTypes
  \/ part = "group" /\ Group!Init /\ NoGreedy /\ NoTypes
  \/ part = "types" /\ Names!Init /\ NoGreedy /\ NoGroup

Next ==
  \/ part = "greedy" /\ Greedy!Next /\ UNCHANGED <<part, groupVars, typeVars>>
  \/ part = "group" /\ Group!Next /\ UNCHANGED <<part, greedyVars, typeVars>>
  \/ part = "types" /\ Names!Next /\ UNCHANGED <<part, greedyVars, groupVars>>

\* Workers keep evaluating the calls of a group that are left.
Spec == Init /\ [][Next]_<<part, greedyVars, groupVars, typeVars>> /\ WF_groupVars(part = "group" /\ Group!Next)

-----------------------------------------------------------------------------
\* What is extracted together never shares a node, the measured benefit is what the
\* module shrinks by, a group that is left out has no two members with one callee, and
\* the outlined module calls the callees that were made for it
\* (GreedySolution!ExtractionsDisjoint, MeasuredBenefit, SkippedAreUnique, ModuleSound).
ChoiceIsSound == part = "greedy" =>
  Greedy!ExtractionsDisjoint /\ Greedy!MeasuredBenefit /\ Greedy!SkippedAreUnique /\ Greedy!ModuleSound

\* Callees that are put together do the same, whatever Alive2 answers: they are of one
\* type, whose name does not depend on the order of inputs, and each is replaced by an
\* equivalent one that is not larger (Refinements!SublistsEquivalent, FirstComesFirst,
\* ReplacedByBetter, TypeNames!StrictWeakOrder, GroupIsType, OrderIrrelevant).
MergedAreEquivalent ==
  /\ part = "group" => Group!SublistsEquivalent /\ Group!FirstComesFirst /\ Group!ReplacedByBetter
  /\ part = "types" => Names!StrictWeakOrder /\ Names!GroupIsType /\ Names!OrderIrrelevant

\* The choice and the comparison end: every turn of the greedy loop uses up a callee,
\* and a group is finished whatever Alive2 answers (GreedySolution!ProgressStep,
\* Refinements!GroupFinishes).
AlwaysEnds ==
  /\ [][part = "greedy" => Greedy!ProgressStep]_<<part, greedyVars>>
  /\ part = "group" => Group!GroupFinishes

=============================================================================

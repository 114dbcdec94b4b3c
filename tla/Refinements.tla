----------------------------- MODULE Refinements -----------------------------
(***************************************************************************)
(* smout.refinements_for_group and the calls it makes                      *)
(* (src/outlining/lib/Funcs.cpp): callees that Alive2 proves equivalent    *)
(* are replaced by the smallest of them.  A call of                        *)
(* smout.refinements_for_set is known by its argument, as in the store, so *)
(* a call that is wanted twice is made once; calls run side by side.       *)
(* alive.tv and alive.interpret are external and may answer anything that  *)
(* is true, or nothing.                                                    *)
(***************************************************************************)
EXTENDS Integers, Sequences, SequencesExt, FiniteSetsExt

CONSTANTS Worlds,             \* what the callees do, their sizes, and the group's members
          GiveUp              \* the failures after which alive.tv is given up, 10

VARIABLES world, phase,
          members,            \* the callee of each candidate of the group
          root,               \* the result of smout.validatable_functions
          calls               \* the calls of smout.refinements_for_set, by their argument

vars == <<world, phase, members, root, calls>>

-----------------------------------------------------------------------------
(* Alive2.  Callee t refines callee s when it does no less than s; without poison and undef
   as inputs, more callees do the same.                                                    *)
Does(w, c, sound) == IF sound THEN w.does[c] ELSE w.does[c] \div 2
Refines(w, s, t, sound) == Does(w, s, sound) <= Does(w, t, sound)
Equivalent(w, a, b) == Does(w, a, TRUE) = Does(w, b, TRUE)

(* alive.tv: "valid", "syntactic_eq", a test input that tells the two apart, or a failure.  *)
AliveTv(w, s, t, sound) ==
  {"unknown"} \cup (IF Refines(w, s, t, sound) THEN {"valid"} ELSE {"test_input"})
  \cup (IF Equivalent(w, s, t) THEN {"syntactic_eq"} ELSE {})

(* alive.interpret on an input: one of two results, or 0 when it is not supported.  *)
Results == 0 .. 2

-----------------------------------------------------------------------------
(* The j-th validation: forward and backward, first ignoring poison and undef.  *)
Validation(w, first, other, j) ==
  IF j % 2 = 1 THEN AliveTv(w, other, first, j >= 2) ELSE AliveTv(w, first, other, j >= 2)

FastOnly == 0 .. 1   \* a mutant

Rounds == 0 .. 3

(* The last answer that is looked at.  *)
Validated(w, first, other) ==
  {a \in {"valid", "syntactic_eq", "test_input", "unknown"} :
    \E k \in Rounds : /\ \A j \in 0 .. (k - 1) : "valid" \in Validation(w, first, other, j)
                      /\ a \in Validation(w, first, other, k)
                      /\ a = "valid" => k = Max(Rounds)}

NewCall(arg) ==
  [st |-> IF Len(arg) <= 1 THEN "done" ELSE "testing", i |-> 2, equal |-> <<>>,
   helpful |-> 0, unhelpful |-> 0, clusters |-> <<>>, result |-> <<>>]

(* What is not known to be equivalent to the first member.  *)
Others(arg, call) == SelectSeq(arg, LAMBDA c : c \notin Range(call.equal))

KeepFirst(arg, clusters) == clusters   \* a mutant

(* With one cluster, the first member is removed to prevent infinite recursion.  *)
DropFirst(arg, clusters) ==
  IF Len(clusters) = 1 /\ Head(clusters[1]) = arg[1] THEN <<Tail(clusters[1])>> ELSE clusters

(* Members with one result of alive.interpret make a cluster, in the order in which the
   results are met.                                                                    *)
Clustered(arg, call, results) ==
  LET supported == SelectSeq(Others(arg, call), LAMBDA c : results[c] # 0)
      keys == FoldLeft(LAMBDA s, c : IF results[c] \in Range(s) THEN s ELSE Append(s, results[c]),
                       <<>>, supported)
  IN [n \in DOMAIN keys |-> SelectSeq(supported, LAMBDA c : results[c] = keys[n])]

(* A call waits for the calls it makes, one for each cluster.  *)
Divide(arg, call, clusters) ==
  LET wanted == DropFirst(arg, clusters)
      known == DOMAIN calls \cup Range(wanted)
  IN calls' = [a \in known |->
       IF a = arg THEN [call EXCEPT !.st = "waiting", !.clusters = wanted]
       ELSE IF a \in DOMAIN calls THEN calls[a] ELSE NewCall(a)]

(* refinements_for_set, one member compared with the first one.  *)
Compare(arg) ==
  LET call == calls[arg]
      other == arg[call.i]
      GoOn(next) == IF call.i = Len(arg) THEN Divide(arg, next, <<Others(arg, next)>>)
                    ELSE calls' = [calls EXCEPT ![arg] = [next EXCEPT !.i = @ + 1]]
  IN /\ call.st = "testing"
     /\ \E answer \in Validated(world, arg[1], other) :
          \/ /\ answer \in {"valid", "syntactic_eq"}
             /\ GoOn([call EXCEPT !.equal = Append(@, other),
                                  !.helpful = IF answer = "valid" THEN @ + 1 ELSE @])
          \/ /\ answer = "test_input"
             /\ \E results \in [Range(Others(arg, call)) -> Results] :
                  Divide(arg, call, Clustered(arg, call, results))
          \/ /\ answer = "unknown"
             /\ LET next == [call EXCEPT !.unhelpful = @ + 1]
                IN IF next.unhelpful >= GiveUp + next.helpful
                   THEN Divide(arg, next, <<Others(arg, next)>>) ELSE GoOn(next)
     /\ UNCHANGED <<world, phase, members, root>>

(* The members equivalent to the first one join the sublist that has it, if there is one.  *)
AddEqual(arg, equal, sets) ==
  IF equal = <<>> THEN sets
  ELSE IF sets # <<>> /\ sets[1][1] = arg[1] THEN <<<<arg[1]>> \o equal \o Tail(sets[1])>> \o Tail(sets)
  ELSE <<<<arg[1]>> \o equal>> \o sets

(* refinements_for_set, the end: the sublists of the clusters, in order.  *)
Collect(arg) ==
  LET call == calls[arg]
      sets == [n \in DOMAIN call.clusters |-> calls[call.clusters[n]].result]
      result == IF sets = <<>> THEN <<>>
                ELSE AddEqual(arg, call.equal, sets[1]) \o FlattenSeq(Tail(sets))
  IN /\ call.st = "waiting"
     /\ \A n \in DOMAIN call.clusters : calls[call.clusters[n]].st = "done"
     /\ calls' = [calls EXCEPT ![arg] = [call EXCEPT !.st = "done", !.result = result]]
     /\ UNCHANGED <<world, phase, members, root>>

-----------------------------------------------------------------------------
Unique == SetToSortSeq(Range(members), <)

(* smout.validatable_functions: the callees that Alive2 can show equivalent to themselves.  *)
ValidatableFunctions ==
  /\ phase = "members"
  /\ \E able \in SUBSET Range(members) : root' = SelectSeq(Unique, LAMBDA c : c \in able)
  /\ calls' = [a \in {root'} |-> NewCall(a)]
  /\ phase' = "sets"
  /\ UNCHANGED <<world, members>>

(* The first of the smallest callees of a sublist.  *)
BestCallee(w, set) ==
  LET Smaller(best, c) == IF w.size[c] < w.size[best] THEN c ELSE best
  IN FoldLeft(Smaller, set[1], set)

RefinedCallee(w, sets, c) ==
  LET having == {n \in DOMAIN sets : c \in Range(sets[n])}
  IN IF having = {} THEN c ELSE BestCallee(w, sets[Min(having)])

(* refinements_for_group, the end.  *)
ReplaceCallees ==
  /\ phase = "sets"
  /\ calls[root].st = "done"
  /\ members' = [n \in DOMAIN members |-> RefinedCallee(world, calls[root].result, members[n])]
  /\ phase' = "done"
  /\ UNCHANGED <<world, root, calls>>

Init ==
  /\ world \in Worlds
  /\ phase = "members"
  /\ members = world.members
  /\ root = <<>>
  /\ calls = <<>>

Next == ValidatableFunctions \/ ReplaceCallees \/ \E arg \in DOMAIN calls : Compare(arg) \/ Collect(arg)

(* Workers keep evaluating the calls that are left.  *)
Spec == Init /\ [][Next]_vars /\ WF_vars(Next)

-----------------------------------------------------------------------------
(* Whatever sublist a call returns, all its members do the same, poison and undef included,
   although the members it was built from were compared with different first members
   ("unsound but fast" alone is not enough).                                              *)
SublistsEquivalent ==
  \A arg \in DOMAIN calls : \A n \in DOMAIN calls[arg].result :
    \A a, b \in Range(calls[arg].result[n]) : Equivalent(world, a, b)

(* The postcondition of refinements_for_set, on which the caller's merging rests: the first
   member comes first of the first sublist or is not returned; and no member is returned
   twice.                                                                                  *)
FirstComesFirst ==
  \A arg \in DOMAIN calls :
    LET all == FlattenSeq(calls[arg].result)
    IN /\ \A n \in DOMAIN all : all[n] = arg[1] => n = 1
       /\ IsInjective(all)

(* A candidate's callee is only replaced by one that does the same and is not larger.  *)
ReplacedByBetter ==
  phase = "done" =>
    \A n \in DOMAIN members :
      /\ Equivalent(world, members[n], world.members[n])
      /\ world.size[members[n]] <= world.size[world.members[n]]

(* The group is finished, whatever Alive2 answers: a call only waits for calls with fewer
   members, so none waits for itself ("to prevent infinite recursion").                   *)
GroupFinishes == <>(phase = "done")
=============================================================================

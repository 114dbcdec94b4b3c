--------------------------- MODULE GreedySolution ---------------------------
(***************************************************************************)
(* Which candidates are outlined (src/outlining/lib/Funcs.cpp): candidates *)
(* are grouped by type, the callees of the groups that may pay are         *)
(* extracted, smout.greedy_solution takes the best callee again and again, *)
(* and smout.outlined_module puts the chosen callees and the changed       *)
(* callers into the module.  Sizes come from a problem that says what each *)
(* candidate really saves.                                                 *)
(***************************************************************************)
EXTENDS Integers, Sequences, SequencesExt, FiniteSetsExt

CONSTANTS Problems,           \* what can be outlined
          MinBenefit, MinCallerSavings,
          BatchSize           \* BATCH_SIZE of grouped_callees_for_function, 64

VARIABLES problem,            \* see Problem in MCSolution
          phase,
          grouped,            \* the result of smout.grouped_candidates
          callees,            \* the result of smout.grouped_callees
          cands, sizes,       \* OutliningProblem::candidates, CalleeInfo::size
          current, selected,  \* FunctionInfo::current_size, selected_candidate_indices
          chosen,             \* the callees with CalleeInfo::selected
          total,              \* total_benefit
          module              \* the module smout.outlined_module makes

vars == <<problem, phase, grouped, callees, cands, sizes, current, selected, chosen, total, module>>

-----------------------------------------------------------------------------
(* A set of nodes as the list of places where it changes between set and clear.  *)
EncodeBitVector(bv) ==
  LET starts == SetToSortSeq({s \in bv : s - 1 \notin bv}, <)
      End(s) == Min({e \in (s + 1) .. (Max(bv) + 1) : e \notin bv})
  IN FlattenSeq([n \in DOMAIN starts |-> <<starts[n], End(starts[n])>>])

DecodeBitVector(list) ==
  UNION {list[i] .. (list[i + 1] - 1) : i \in {i \in DOMAIN list : i % 2 = 1}}

-----------------------------------------------------------------------------
(* The functions of the module, each once, in the order of their first names.  *)
Functions(p) == FoldLeft(LAMBDA s, item : IF item.cid \in Range(s) THEN s ELSE Append(s, item.cid),
                         <<>>, p.functions)
Copies(p, f) == Cardinality({n \in DOMAIN p.functions : p.functions[n].cid = f})

(* smout.candidates names a candidate's group after its types; one callee has one type.  *)
GroupName(p, c) == p.group[c.callee]
Groups(p) == {GroupName(p, p.candidates[id]) : id \in DOMAIN p.candidates}
Members(p, g) == {id \in DOMAIN p.candidates : GroupName(p, p.candidates[id]) = g}

(* smout.grouped_candidates: a function that the module has twice is counted twice.  *)
GroupedCandidates(p) ==
  [g \in Groups(p) |->
    [total_caller_savings |->
       MapThenSumSet(LAMBDA id : p.candidates[id].caller_savings * Copies(p, p.candidates[id].function),
                     Members(p, g)),
     min_callee_size |-> Min({p.candidates[id].callee_size : id \in Members(p, g)}),
     num_members |-> MapThenSumSet(LAMBDA id : Copies(p, p.candidates[id].function), Members(p, g))]]

IsGroupWorthExtracting(group) == group.total_caller_savings > group.min_callee_size

(* smout.extracted_callees, for a list of candidates of one function.  *)
ExtractedCallees(p, ids) ==
  [j \in DOMAIN ids |-> [callee |-> p.candidates[ids[j]].callee, size |-> p.size[p.candidates[ids[j]].callee]]]

Batch(ids, b) == SubSeq(ids, b * BatchSize + 1, Min({Len(ids), (b + 1) * BatchSize}))

(* The extracted callee of the i-th candidate, found in its batch.  *)
CalleeOf(p, ids, i) ==
  ExtractedCallees(p, Batch(ids, (i - 1) \div BatchSize))[((i - 1) % BatchSize) + 1]

(* smout.grouped_callees_for_function: the callees of the groups that are worth it, in
   batches.  A callee that is smaller than estimated saves less.  A candidate's nodes
   are recorded as a list.                                                             *)
GroupedCalleesForFunction(p, groups, f) ==
  LET Of(g) == SetToSortSeq({id \in Members(p, g) : p.candidates[id].function = f}, <)
      worth == SelectSeq(SetToSortSeq(Groups(p), <), LAMBDA g : IsGroupWorthExtracting(groups[g]))
      ids == FlattenSeq([n \in DOMAIN worth |-> Of(worth[n])])
      Updated(i) ==
        LET c == p.candidates[ids[i]]
            callee == CalleeOf(p, ids, i)
            delta == callee.size - c.callee_size
        IN [id |-> ids[i], function |-> f, nodes |-> EncodeBitVector(c.nodes),
            callee |-> callee.callee, callee_size |-> callee.size,
            caller_savings |-> IF delta < 0 THEN c.caller_savings + delta ELSE c.caller_savings]
  IN [i \in DOMAIN ids |-> Updated(i)]

(* smout.grouped_callees: the lists of all functions; num_unique_callees is that of the
   last function that has the group.                                                   *)
GroupedCallees(p, groups) ==
  LET funcs == Functions(p)
      Of(f, g) == SelectSeq(GroupedCalleesForFunction(p, groups, f),
                            LAMBDA c : GroupName(p, p.candidates[c.id]) = g)
      having(g) == {n \in DOMAIN funcs : Of(funcs[n], g) # <<>>}
  IN [g \in {g \in DOMAIN groups : having(g) # {}} |->
       [members |-> FlattenSeq([n \in DOMAIN funcs |-> Of(funcs[n], g)]),
        num_members |-> groups[g].num_members,
        num_unique_callees |->
          Cardinality({c.callee : c \in Range(Of(funcs[Max(having(g))], g))})]]

-----------------------------------------------------------------------------

(* A group in which every member has a callee of its own is left out.  *)
Skipped(group) == group.num_unique_callees >= group.num_members

(* organizeCandidates.  *)
OrganizeCandidates(p, groups) ==
  LET keys == SelectSeq(SetToSortSeq(DOMAIN groups, <), LAMBDA g : ~Skipped(groups[g]))
      members == FlattenSeq([n \in DOMAIN keys |-> groups[keys[n]].members])
      kept == SelectSeq(members, LAMBDA c : c.caller_savings >= MinCallerSavings)
  IN [m \in DOMAIN kept |->
       [id |-> kept[m].id, function |-> kept[m].function, callee |-> kept[m].callee,
        callee_size |-> kept[m].callee_size, nodes |-> kept[m].nodes,
        savings |-> kept[m].caller_savings * Copies(p, kept[m].function)]]

CalleeSizes(cs) ==
  [c \in {cs[m].callee : m \in DOMAIN cs} |-> Min({cs[m].callee_size : m \in {n \in DOMAIN cs : cs[n].callee = c}})]

(* A mutant: as many candidates as at the node before.  *)
AsManyAsBefore(at, before) == Len(at) = Len(before)

(* The candidates at a node are those at the node before, which have been treated.  *)
SameAsBefore(at, before) == at = before

(* determineOverlaps.  *)
Overlaps(cs, m0) ==
  LET same == {m \in DOMAIN cs : cs[m].function = cs[m0].function}
      At(i) == SetToSortSeq({m \in same : i \in DecodeBitVector(cs[m].nodes)}, <)
      Treated(i) == Len(At(i)) > 1 /\ ~(i > 0 /\ SameAsBefore(At(i), At(i - 1)))
  IN {m1 \in same \ {m0} : \E i \in DecodeBitVector(cs[m0].nodes) : Treated(i) /\ m1 \in Range(At(i))}

(* markInitialConflicts: of the candidates with one callee, those that overlap none of the
   candidates kept before them.                                                           *)
Kept(cs, m) ==
  LET same == {n \in DOMAIN cs : cs[n].callee = cs[m].callee}
      Step(kept, n) == IF n \in same /\ \A k \in kept : n \notin Overlaps(cs, k) THEN kept \cup {n} ELSE kept
  IN m \in FoldLeft(Step, {}, [n \in 1 .. m |-> n])

(* The constructor of OutliningProblem.  *)
OutliningProblem(p, groups) ==
  LET cs == OrganizeCandidates(p, groups)
  IN [m \in DOMAIN cs |-> [id |-> cs[m].id, function |-> cs[m].function, callee |-> cs[m].callee,
                           nodes |-> cs[m].nodes, savings |-> cs[m].savings, used |-> 0,
                           overlaps |-> Overlaps(cs, m), no_conflict |-> Kept(cs, m)]]

-----------------------------------------------------------------------------
(* smout.actual_size of smout.extracted_caller: the size of function f with the given
   candidates outlined, two of which may save less together.                         *)
ActualSize(p, f, ids) ==
  p.base[f] - MapThenSumSet(LAMBDA id : p.saves[id], ids) + (IF p.pair \subseteq ids THEN p.lost ELSE 0)

(* The savings were measured with the candidates that are selected now.  *)
UpToDate(c, sel) == c.used = Len(sel) + 1

(* updateCallerSavings.  *)
UpdateCallerSavings(p, cs, cur, sel, ms) ==
  [m \in DOMAIN cs |->
    LET f == cs[m].function
        outlined == {cs[n].id : n \in Range(sel[f])} \cup {cs[m].id}
    IN IF m \notin ms \/ ~cs[m].no_conflict \/ UpToDate(cs[m], sel[f]) THEN cs[m]
       ELSE [cs[m] EXCEPT !.savings = cur[f] - ActualSize(p, f, outlined), !.used = Len(sel[f]) + 1]]

CandidatesOf(cs, callee) == {m \in DOMAIN cs : cs[m].callee = callee}
Profitable(cs, callee) == {m \in CandidatesOf(cs, callee) : cs[m].no_conflict /\ cs[m].savings > 0}

CalculateCalleeBenefit(p, cs, sz, callee) ==
  MapThenSumSet(LAMBDA m : cs[m].savings * Copies(p, cs[m].function), Profitable(cs, callee)) - sz[callee]

(* findBestCallee: the first of the best; 0 when none is better than nothing.  *)
FindBestCallee(p, cs, sz, done) ==
  LET Better(best, m) ==
        LET benefit == CalculateCalleeBenefit(p, cs, sz, cs[m].callee)
        IN IF cs[m].callee \notin done /\ benefit > best.benefit
           THEN [callee |-> cs[m].callee, benefit |-> benefit] ELSE best
  IN FoldLeft(Better, [callee |-> 0, benefit |-> 0], [m \in DOMAIN cs |-> m])

(* selectCalleeForOutlining: the candidates it selects, each of which stops those that
   overlap it from being used.                                                        *)
Selects(cs, callee) ==
  LET Step(taken, m) == IF \E n \in taken : m \in cs[n].overlaps THEN taken ELSE taken \cup {m}
  IN FoldLeft(Step, {}, SetToSortSeq(Profitable(cs, callee), <))

Stopped(cs, callee, taken) ==
  [m \in DOMAIN cs |->
    IF cs[m].callee = callee \/ \E n \in taken : m \in cs[n].overlaps
    THEN [cs[m] EXCEPT !.no_conflict = FALSE] ELSE cs[m]]

DisableCallee(cs, callee) ==
  [m \in DOMAIN cs |-> IF cs[m].callee = callee THEN [cs[m] EXCEPT !.no_conflict = FALSE] ELSE cs[m]]

(* smout.outlined_module: a name for each callee that no function of the module has.  *)
CalleeName(taken, callee) ==
  <<callee, Min({k \in 0 .. Cardinality(taken) : <<callee, k>> \notin taken})>>

OutlinedModule(p, cs, sel) ==
  LET taken == {item.name : item \in Range(p.functions)}
      used == {cs[m].callee : m \in UNION {Range(sel[f]) : f \in DOMAIN sel}}
      Call(m) == [callee |-> CalleeName(taken, cs[m].callee), nodes |-> cs[m].nodes]
      Calls(f) == IF f \in DOMAIN sel THEN [n \in DOMAIN sel[f] |-> Call(sel[f][n])] ELSE <<>>
      Cid(name) == IF \E c \in used : name = CalleeName(taken, c) THEN name[1]
                   ELSE (CHOOSE item \in Range(p.functions) : item.name = name).cid
  IN [name \in taken \cup {CalleeName(taken, c) : c \in used} |->
       [cid |-> Cid(name), calls |-> Calls(Cid(name))]]

-----------------------------------------------------------------------------
Init ==
  /\ problem \in Problems
  /\ phase = "candidates"
  /\ grouped = <<>> /\ callees = <<>> /\ cands = <<>> /\ sizes = <<>>
  /\ current = <<>> /\ selected = <<>> /\ chosen = {} /\ total = 0 /\ module = <<>>

GroupCandidates ==
  /\ phase = "candidates"
  /\ phase' = "grouped"
  /\ grouped' = GroupedCandidates(problem)
  /\ UNCHANGED <<problem, callees, cands, sizes, current, selected, chosen, total, module>>

GroupCallees ==
  /\ phase = "grouped"
  /\ phase' = "callees"
  /\ callees' = GroupedCallees(problem, grouped)
  /\ UNCHANGED <<problem, grouped, cands, sizes, current, selected, chosen, total, module>>

(* greedy_solution up to its loop.  *)
Organize ==
  /\ phase = "callees"
  /\ phase' = "choosing"
  /\ cands' = OutliningProblem(problem, callees)
  /\ sizes' = CalleeSizes(OrganizeCandidates(problem, callees))
  /\ LET funcs == {cands'[m].function : m \in DOMAIN cands'}
     IN /\ current' = [f \in funcs |-> IF problem.compile \/ problem.verify
                                       THEN ActualSize(problem, f, {}) ELSE 0]
        /\ selected' = [f \in funcs |-> <<>>]
  /\ UNCHANGED <<problem, grouped, callees, chosen, total, module>>

(* One turn of the loop: the savings are measured when all callers are compiled; the best
   callee is taken, unless it is verified and does not pay.                               *)
Measured ==
  IF problem.compile THEN UpdateCallerSavings(problem, cands, current, selected, DOMAIN cands) ELSE cands
Best == FindBestCallee(problem, Measured, sizes, chosen)
Verified ==
  IF ~problem.compile /\ problem.verify
  THEN UpdateCallerSavings(problem, Measured, current, selected, CandidatesOf(cands, Best.callee))
  ELSE Measured
Benefit == CalculateCalleeBenefit(problem, Verified, sizes, Best.callee)

Finish ==
  /\ phase = "choosing"
  /\ Best.benefit < MinBenefit
  /\ phase' = "solved"
  /\ cands' = Measured
  /\ UNCHANGED <<problem, grouped, callees, sizes, current, selected, chosen, total, module>>

Disable ==
  /\ phase = "choosing"
  /\ Best.benefit >= MinBenefit
  /\ ~problem.compile /\ problem.verify /\ Benefit <= 0
  /\ cands' = DisableCallee(Verified, Best.callee)
  /\ UNCHANGED <<problem, phase, grouped, callees, sizes, current, selected, chosen, total, module>>

SelectCalleeForOutlining ==
  /\ phase = "choosing"
  /\ Best.benefit >= MinBenefit
  /\ (~problem.compile /\ problem.verify) => Benefit > 0
  /\ total' = total + Benefit
  /\ chosen' = chosen \cup {Best.callee}
  /\ LET taken == Selects(Verified, Best.callee)
         Of(f) == {m \in taken : cands[m].function = f}
     IN /\ cands' = Stopped(Verified, Best.callee, taken)
        /\ current' = [f \in DOMAIN current |->
                         current[f] - MapThenSumSet(LAMBDA m : Verified[m].savings, Of(f))]
        /\ selected' = [f \in DOMAIN selected |-> selected[f] \o SetToSortSeq(Of(f), <)]
  /\ UNCHANGED <<problem, phase, grouped, callees, sizes, module>>

Outline ==
  /\ phase = "solved"
  /\ phase' = "outlined"
  /\ module' = OutlinedModule(problem, cands, selected)
  /\ UNCHANGED <<problem, grouped, callees, cands, sizes, current, selected, chosen, total>>

Done == phase = "outlined" /\ UNCHANGED vars

Next == GroupCandidates \/ GroupCallees \/ Organize \/ Finish \/ Disable \/ SelectCalleeForOutlining \/ Outline \/ Done

Spec == Init /\ [][Next]_vars

-----------------------------------------------------------------------------
SelectedIds(f) == IF f \in DOMAIN selected THEN {cands[m].id : m \in Range(selected[f])} ELSE {}

SizeWith(outlined(_), added) ==
  MapThenSumSet(LAMBDA n : ActualSize(problem, problem.functions[n].cid, outlined(problem.functions[n].cid)),
                DOMAIN problem.functions)
  + MapThenSumSet(LAMBDA c : problem.size[c], added)

Saved == SizeWith(LAMBDA f : {}, {}) - SizeWith(SelectedIds, chosen)

(* What is extracted together never shares a node: neither the candidates selected from a
   function, nor those and one more that may still be used, which updateCallerSavings
   extracts to measure it (OutliningCallerExtractor: "can't outline overlapping
   candidates").                                                                        *)
ExtractionsDisjoint ==
  \A m, n \in DOMAIN cands :
    /\ m # n /\ cands[m].function = cands[n].function
    /\ m \in Range(selected[cands[m].function])
    /\ n \in Range(selected[cands[n].function]) \/ cands[n].no_conflict
    => DecodeBitVector(cands[m].nodes) \cap DecodeBitVector(cands[n].nodes) = {}

(* When savings are measured (compile_all_callers or verify_caller_savings), total_benefit
   is what the module shrinks by, copies and new callees counted.  Savings that depend on
   each other are measured right unless one callee takes several candidates out of one
   function at once, as the FIXME in updateCallerSavings says.                            *)
MeasuredBenefit ==
  LET apart == \A m, n \in DOMAIN cands :
                 cands[m].callee = cands[n].callee /\ cands[m].function = cands[n].function => m = n
  IN (problem.compile \/ problem.verify) /\ (problem.lost = 0 \/ apart) => total = Saved

(* A group that organizeCandidates leaves out has no two members with one callee, so that
   outlining it cannot pay.                                                              *)
SkippedAreUnique ==
  \A g \in DOMAIN callees :
    Skipped(callees[g]) =>
      grouped[g].num_members = Cardinality({c.callee : c \in Range(callees[g].members)})

(* Every function keeps its name; a function that was changed calls, for each set of nodes
   taken out of it, the callee that was made of these nodes, which is in the module and
   was not changed itself (smout.outlined_module, BATCH_SIZE).                            *)
ModuleSound ==
  phase = "outlined" =>
    /\ \A item \in Range(problem.functions) :
         item.name \in DOMAIN module /\ module[item.name].cid = item.cid
    /\ \A name \in DOMAIN module : \A call \in Range(module[name].calls) :
         \E id \in DOMAIN problem.candidates :
           /\ problem.candidates[id].function = module[name].cid
           /\ problem.candidates[id].nodes = DecodeBitVector(call.nodes)
           /\ module[call.callee] = [cid |-> problem.candidates[id].callee, calls |-> <<>>]

Usable == {cands[m].callee : m \in {n \in DOMAIN cands : cands[n].no_conflict}} \ chosen

(* The loop of greedy_solution ends: every turn selects or disables a callee that could be
   used, and no turn makes a callee usable again.                                         *)
ProgressStep == phase = "choosing" /\ phase' = "choosing" => Usable' \subseteq Usable /\ Usable' # Usable
=============================================================================

----------------------------- MODULE Outlining ------------------------------
(***************************************************************************)
(* Outlining a function from end to end: the dependence analysis, the      *)
(* candidates, and the extraction of one or of several candidates that do  *)
(* not overlap.  The extraction analyses the function again and does not   *)
(* close the dependences.                                                  *)
(***************************************************************************)
EXTENDS Extractor

(***************************************************************************)
(* What a function does when it runs, to compare an outlined function with *)
(* the original.  Values are small numbers; an arithmetic instruction      *)
(* mixes its operands with a number of its own, so that another operand,   *)
(* another order or one execution more or less shows.  Calls are           *)
(* observable, and so are memory, the result and how the run ends.         *)
(***************************************************************************)

CONSTANT Fuel                 \* bound on the blocks and instructions a run executes

ASSUME FuelAssumption == Fuel \in Nat

Mod == 8
Undef == -9
FramePointer == 100           \* the address of an alloca of the outermost frame

Program(f) ==
  [code |-> [b \in Blocks(f) |-> [k \in DOMAIN f.code[b] |->
     [op |-> f.code[b][k].op, id |-> <<b, k>>, args |-> f.code[b][k].args,
      from |-> f.code[b][k].from,
      to |-> IF k = Len(f.code[b]) THEN f.succ[b] ELSE <<>>]]]]

Value(env, v) == IF v[1] = -1 THEN v[2] ELSE IF v \in DOMAIN env THEN env[v] ELSE Undef
With(env, v, x) == [u \in DOMAIN env \cup {v} |-> IF u = v THEN x ELSE env[u]]

RECURSIVE Total(_)
Total(vals) == IF vals = <<>> THEN 0 ELSE Head(vals) + 3 * Total(Tail(vals))
Mix(i, vals) == IF Undef \in Range(vals) THEN Undef ELSE (Total(vals) + 3 * i.id[1] + i.id[2]) % Mod

(* Going to another block gives its phis their values, all at once.  *)
Jump(p, s, target) ==
  LET code == p.code[target]
      phis == {k \in DOMAIN code : IsPhi(code[k])}
      Of(k) == IF s.b \in DOMAIN code[k].from THEN Value(s.env, code[k].from[s.b]) ELSE Undef
      ids == {code[k].id : k \in phis}
  IN [s EXCEPT !.b = target, !.k = Cardinality(phis) + 1,
               !.env = [v \in DOMAIN s.env \cup ids |->
                          IF v \in ids THEN Of(CHOOSE k \in phis : code[k].id = v) ELSE s.env[v]]]

Define(s, i, x) == [s EXCEPT !.k = @ + 1, !.env = With(s.env, i.id, x)]
End(s, how) == [s EXCEPT !.st = how]

(* A call records what it is given and changes memory.  *)
Called(s, i, vals) ==
  [Define(s, i, Mix(i, Append(vals, s.mem))) EXCEPT
     !.trace = Append(@, <<i.id, vals, s.mem>>),
     !.mem = Mix(i, Append(vals, s.mem))]

DeadPointer(vals, depth) == \E n \in DOMAIN vals : vals[n] > FramePointer + depth
Odd(x) == x % 2 = 1

Start(env, mem, trace) ==
  [b |-> 1, k |-> 1, env |-> env, mem |-> mem, trace |-> trace, st |-> "running", result |-> <<>>]

RECURSIVE Run(_, _, _, _, _)
Run(p, s, callees, depth, fuel) ==
  LET i == p.code[s.b][s.k]
      vals == [n \in DOMAIN i.args |-> Value(s.env, i.args[n])]
      Outlined ==
        LET c == callees[i.id[1]]
            env == [v \in {IF x \in c.inphis THEN InName(x) ELSE x : x \in c.inputs} |->
                      Value(s.env, i.from[CHOOSE x \in c.inputs :
                                            v = (IF x \in c.inphis THEN InName(x) ELSE x)])]
            r == Run(c, [Start(env, s.mem, s.trace) EXCEPT !.b = EntryBlock], <<>>, depth + 1, fuel - 1)
            outs == {Result(i.id[1], v) : v \in c.outputs}
        IN IF r.st # "returned" THEN r
           ELSE [s EXCEPT !.k = @ + 1, !.mem = r.mem, !.trace = r.trace,
                          !.env = [v \in DOMAIN s.env \cup outs |->
                                     IF v \in outs
                                     THEN Value(r.env, CHOOSE u \in c.outputs : Result(i.id[1], u) = v)
                                     ELSE s.env[v]]]
      next ==
        CASE DeadPointer(vals, depth) -> End(s, "bad")
          [] i.op \in {"op", "landingpad"} -> Define(s, i, Mix(i, vals))
          [] i.op \in StackIntrinsics \cup {"lifetime_start", "lifetime_end"} -> Define(s, i, 0)
          [] i.op = "alloca" -> Define(s, i, FramePointer + depth)
          [] i.op \in {"frameaddress", "vastart", "unknown", "setjmp"} -> Define(s, i, depth)
          [] i.op = "gep" -> Define(s, i, vals[1])
          [] i.op = "load" -> Define(s, i, s.mem)
          [] i.op = "store" -> [s EXCEPT !.k = @ + 1, !.mem = vals[1]]
          [] i.op = "memset" -> [s EXCEPT !.k = @ + 1, !.mem = vals[2]]
          [] i.op \in {"call", "musttail"} -> Called(s, i, vals)
          [] i.op = "exit" -> IF Odd(Total(vals)) THEN End(Called(s, i, vals), "exited")
                              ELSE Called(s, i, vals)
          [] i.op = "invoke" -> Jump(p, Called(s, i, vals), i.to[IF Odd(Total(vals)) THEN 2 ELSE 1])
          [] i.op = "br" -> IF vals = <<>> THEN Jump(p, s, i.to[1])
                            ELSE IF vals[1] = Undef THEN End(s, "bad")
                            ELSE Jump(p, s, i.to[IF Odd(vals[1]) THEN 1 ELSE 2])
          [] i.op = "switch" -> Jump(p, s, i.to[1])
          [] i.op = "ret" -> [End(s, "done") EXCEPT !.result = vals]
          [] i.op = "resume" -> End(s, "exited")
          [] i.op = "unreachable" -> End(s, "unreachable")
          [] i.op = "return" -> End(s, "returned")
          [] i.op = "outlined" -> Outlined
  IN IF s.st # "running" THEN s
     ELSE IF fuel = 0 THEN End(s, "timeout")
     ELSE Run(p, next, callees, depth, fuel - 1)

Observed(s) == <<s.st, s.result, s.trace, s.mem>>

(* What the function and its outlined form do on the arguments a.  *)
Behaviour(p, callees, a, fuel) ==
  Run(p, Start([v \in {<<0, n>> : n \in DOMAIN a} |-> a[v[2]]], 0, <<>>), callees, 0, fuel)

-----------------------------------------------------------------------------

CONSTANTS Functions,          \* the functions to outline
          Arguments,          \* the arguments they are run with
          MaxOutlined         \* bound on the candidates outlined together

VARIABLES f, phase, deps, found, outlined

vars == <<f, phase, deps, found, outlined>>

Nothing == [bvs |-> <<>>, callees |-> <<>>, caller |-> <<>>]

Init ==
  /\ f \in Functions
  /\ phase = "function"
  /\ deps = <<>>
  /\ found = NoCandidates
  /\ outlined = Nothing

(* OutliningDependenceAnalysis::run.  *)
AnalyzeDependence ==
  /\ phase = "function"
  /\ phase' = "dependence"
  /\ deps' = Analyze(f)
  /\ UNCHANGED <<f, found, outlined>>

(* OutliningCandidatesAnalysis::run.  *)
GenerateCandidates ==
  /\ phase = "dependence"
  /\ phase' = "candidates"
  /\ found' = OutliningCandidates(f, ComputeTransitiveClosures(deps))
  /\ UNCHANGED <<f, deps, outlined>>

Disjoint(bvs) == \A m, n \in DOMAIN bvs : m # n => bvs[m] \cap bvs[n] = {}

(* createDefinition for each callee, and modifyDefinition for the caller.  *)
Extract ==
  /\ phase = "candidates" /\ ~found.fatal
  /\ \E n \in 1 .. MaxOutlined : \E bvs \in [1 .. n -> found.cands] :
       /\ Disjoint(bvs)
       /\ \A m \in DOMAIN bvs : IsOutlinable(deps, bvs[m])
       /\ outlined' = [bvs |-> bvs,
                       callees |-> [m \in DOMAIN bvs |-> CreateDefinition(f, deps, bvs[m])],
                       caller |-> ModifyDefinition(f, deps, bvs)]
  /\ phase' = "outlined"
  /\ UNCHANGED <<f, deps, found>>

Next == AnalyzeDependence \/ GenerateCandidates \/ Extract

Spec == Init /\ [][Next]_vars

-----------------------------------------------------------------------------
(* Candidate generation never stops the program: every candidate it emits is outlinable
   ("invalid outlining candidate" in emitCandidate), every dependence it adds comes before
   the outlining point and dominates it (the assertion and the report_fatal_error "is this
   possible?" of generateCandidatesEndingAt).                                            *)
NeverFatal == ~found.fatal

(* A candidate found with the closed dependences is accepted by the extractor, which checks
   it against the dependences as they were before computeTransitiveClosures.              *)
CandidatesAccepted == \A bv \in found.cands : IsOutlinable(deps, bv)

(* The closure is complete: a node with all that it forces can be outlined as it stands,
   unless the node can not be outlined at all (computeTransitiveClosures: "everything we
   need to outline in order to outline Nodes[i]").                                        *)
ClosedAreOutlinable ==
  phase = "dependence" =>
    LET d == ComputeTransitiveClosures(deps)
    IN \A i \in DOMAIN d.nodes \ d.prevents :
         IsOutlinable(d, {i} \cup d.forced[i])

(* The dependences, their closure, the candidates and the extractor agree: the closure is
   complete, and every candidate it leads to is valid for all of them (NeverFatal,
   CandidatesAccepted, ClosedAreOutlinable).                                             *)
CandidatesValid == NeverFatal /\ CandidatesAccepted /\ ClosedAreOutlinable

(* The outlined function does what the original does: the same calls with the same
   arguments and the same memory, the same result and the same end.  (A run that reaches an
   unreachable instruction is undefined, and one that runs out of fuel is not compared.)   *)
SameBehaviour ==
  phase = "outlined" =>
    \A a \in Arguments :
      LET before == Behaviour(Program(f), <<>>, a, Fuel)
      IN \/ before.st \in {"unreachable", "timeout"}
         \/ Observed(before) = Observed(Behaviour(outlined.caller, outlined.callees, a, 3 * Fuel))

=============================================================================

----------------------------- MODULE Extractor ------------------------------
(***************************************************************************)
(* OutliningCalleeExtractor and OutliningCallerExtractor                   *)
(* (src/outlining/lib/Extractor.cpp): the function that takes the outlined *)
(* nodes, and the original function with a call to it in their place.      *)
(***************************************************************************)
EXTENDS Dependence


(* DenseMap's lookup gives node 0, here 1, for a value that is not a node.  *)
Lookup(d, node) ==
  IF node \in Range(d.nodes) THEN CHOOSE i \in DOMAIN d.nodes : d.nodes[i] = node ELSE 1

Has(d, bv, v) == v[1] > 0 /\ InsNode(v) \in Range(d.nodes) /\ Lookup(d, InsNode(v)) \in bv
TermOutlined(f, d, bv, p) == Lookup(d, TermNode(f, p)) \in bv
IsNode(d, v) == v[1] > 0 /\ InsNode(v) \in Range(d.nodes)

PhiNodes(f, d) == {i \in DOMAIN d.nodes : d.nodes[i][1] = "ins" /\ IsPhi(Ins(f, d.nodes[i][2]))}

(* The values a phi takes from predecessors whose terminator is outlined, and from the
   others.                                                                           *)
FromOutlined(f, d, bv, phi) == {phi.from[p] : p \in {q \in DOMAIN phi.from : TermOutlined(f, d, bv, q)}}
FromKept(f, d, bv, phi) == {phi.from[p] : p \in {q \in DOMAIN phi.from : ~TermOutlined(f, d, bv, q)}}

(* A phi that stays and takes several values under the callee's control is computed in the
   callee and returned.                                                                   *)
OutputPhis(f, d, bv) ==
  {i \in PhiNodes(f, d) \ bv : Cardinality(FromOutlined(f, d, bv, Ins(f, d.nodes[i][2]))) > 1}

InputPhis(f, d, bv) ==
  {i \in PhiNodes(f, d) \cap bv : Cardinality(FromKept(f, d, bv, Ins(f, d.nodes[i][2]))) > 1}

(* What the nodes that stay need from the callee.  *)
ExternalOutputs(f, d, bv) ==
  LET Needs(i) ==
        IF i \notin PhiNodes(f, d) THEN {d.nodes[j][2] : j \in d.data[i]}
        ELSE LET phi == Ins(f, d.nodes[i][2])
             IN FromKept(f, d, bv, phi)
                \cup (IF i \in OutputPhis(f, d, bv) THEN {} ELSE FromOutlined(f, d, bv, phi))
      wanted == UNION {Needs(i) : i \in DOMAIN d.nodes \ bv}
  IN {v \in wanted : Has(d, bv, v)} \cup {d.nodes[i][2] : i \in OutputPhis(f, d, bv)}

(* What the callee needs from outside, before addInputValue drops what is outlined.  *)
NeededInputs(f, d, bv) ==
  LET OfPhi(i) ==
        LET phi == Ins(f, d.nodes[i][2])
            kept == FromKept(f, d, bv, phi)
        IN FromOutlined(f, d, bv, phi) \cup (IF Cardinality(kept) > 1 THEN {} ELSE kept)
      OfNode(i) ==
        IF i \in PhiNodes(f, d) THEN OfPhi(i) ELSE {d.nodes[j][2] : j \in d.data[i]} \cup d.args[i]
  IN UNION {OfNode(i) : i \in bv}
     \cup UNION {FromOutlined(f, d, bv, Ins(f, d.nodes[i][2])) : i \in OutputPhis(f, d, bv)}

(* The constructor.  addInputValue takes arguments and nodes that stay, and asserts that
   anything else is a constant.                                                          *)
CalleeExtractor(f, d, bv) ==
  LET needed == NeededInputs(f, d, bv)
  IN [inputs |-> {v \in needed : v[1] = 0 \/ (IsNode(d, v) /\ ~Has(d, bv, v))}
                 \cup {d.nodes[i][2] : i \in InputPhis(f, d, bv)},
      outputs |-> ExternalOutputs(f, d, bv),
      inphis |-> {d.nodes[i][2] : i \in InputPhis(f, d, bv)},
      outphis |-> {d.nodes[i][2] : i \in OutputPhis(f, d, bv)},
      blocks |-> {NodeBlock(d.nodes[i]) : i \in {j \in bv : d.nodes[j][1] \in {"block", "ins"}}},
      impossible |-> {v \in needed : v[1] > 0 /\ ~IsNode(d, v)}]

-----------------------------------------------------------------------------
(* The callee's argument for a phi that stays in part, apart from the phi itself.  *)
InName(v) == <<-2 - v[1], v[2]>>

(* createDefinition.  The callee's blocks are the original's that hold outlined nodes, an
   entry block and an exit block; the other blocks map to the next outlined one after them,
   or to the exit.                                                                         *)
EntryBlock == 0
ExitBlock(f) == Len(f.code) + 1

MapBlock(f, d, e, b) ==
  LET up == SelectSeq(PathUp(d.pdt, b, Root), LAMBDA m : m \in e.blocks)
  IN IF up = <<>> THEN ExitBlock(f) ELSE up[1]

Br(target) == [op |-> "br", id |-> NoBlock, args |-> <<>>, from |-> <<>>, to |-> <<target>>]

ClonedPhi(f, d, bv, v, fromentry) ==
  LET phi == Ins(f, v)
      known == {p \in DOMAIN phi.from : BlockNode(p) \in Range(d.nodes)}
      outlined == {p \in known : TermOutlined(f, d, bv, p)}
      kept == known \ outlined
      sources == outlined \cup (IF fromentry /\ kept # {} THEN {EntryBlock} ELSE {})
  IN [op |-> "phi", id |-> v, args |-> <<>>, to |-> <<>>,
      from |-> [p \in sources |->
                  IF p # EntryBlock THEN phi.from[p]
                  ELSE IF Lookup(d, InsNode(v)) \in InputPhis(f, d, bv) THEN InName(v)
                  ELSE phi.from[CHOOSE k \in kept : TRUE]]]

Clone(f, d, e, bv, v) ==
  IF IsPhi(Ins(f, v)) THEN ClonedPhi(f, d, bv, v, TRUE)
  ELSE [op |-> Ins(f, v).op, id |-> v, args |-> Ins(f, v).args, from |-> <<>>,
        to |-> IF v = Term(f, v[1])
               THEN [n \in DOMAIN f.succ[v[1]] |-> MapBlock(f, d, e, f.succ[v[1]][n])] ELSE <<>>]

CalleeBlock(f, d, e, bv, b) ==
  LET outphis == SetToSeq({v \in e.outphis : MapBlock(f, d, e, v[1]) = b})
      chosen == IF b = ExitBlock(f) THEN <<>>
                ELSE SelectSeq([k \in DOMAIN f.code[b] |-> <<b, k>>], LAMBDA v : Has(d, bv, v))
      body == [n \in DOMAIN outphis |-> ClonedPhi(f, d, bv, outphis[n], FALSE)]
              \o [n \in DOMAIN chosen |-> Clone(f, d, e, bv, chosen[n])]
      ended == chosen # <<>> /\ Last(chosen) = Term(f, b)
  IN IF b = ExitBlock(f)
     THEN body \o <<[op |-> "return", id |-> NoBlock, args |-> <<>>, from |-> <<>>, to |-> <<>>]>>
     ELSE IF ended THEN body
     ELSE Append(body, Br(IF d.pdt[b] = Root THEN ExitBlock(f) ELSE MapBlock(f, d, e, d.pdt[b])))

CreateDefinition(f, d, bv) ==
  LET e == CalleeExtractor(f, d, bv)
      first == d.nodes[Min({Lookup(d, BlockNode(b)) : b \in e.blocks})][2]
  IN [inputs |-> e.inputs, inphis |-> e.inphis, outputs |-> e.outputs,
      code |-> [b \in {EntryBlock, ExitBlock(f)} \cup e.blocks |->
                  IF b = EntryBlock THEN <<Br(first)>> ELSE CalleeBlock(f, d, e, bv, b)]]

-----------------------------------------------------------------------------
(* findNextBlock: the first block of a shortest path to b's post-dominator, found breadth
   first; none when there is no such block.                                              *)
RECURSIVE Search(_, _, _, _)
Search(f, queue, i, pred) ==
  IF i > Len(queue) THEN pred
  ELSE LET new == {s \in Range(f.succ[queue[i]]) : s \notin DOMAIN pred}
           ordered == SelectSeq(f.succ[queue[i]], LAMBDA s : s \in new)
       IN Search(f, queue \o ordered, i + 1,
                 [s \in DOMAIN pred \cup new |-> IF s \in new THEN queue[i] ELSE pred[s]])

RECURSIVE WalkBack(_, _, _)
WalkBack(pred, bb, block) == IF pred[block] = bb THEN block ELSE WalkBack(pred, bb, pred[block])

UnreachableBlock(f) == Len(f.code) + 1

FindNextBlock(f, d, bb) ==
  IF d.pdt[bb] = Root THEN UnreachableBlock(f)
  ELSE WalkBack(Search(f, <<bb>>, 1, [b \in {bb} |-> NoBlock]), bb, d.pdt[bb])

(* handleSingleCallee and modifyDefinition, for the callees of the sets bvs.  *)
Result(m, v) == <<100 * m + v[1], v[2]>>     \* what call m returns for the value v

InsertionPoint(f, d, bv) ==
  LET point == d.nodes[Min(bv)]
  IN IF point[1] = "ins" THEN point[2] ELSE <<point[2], FirstNonPHI(f, point[2])>>

(* The outlined instructions go, but for the phis of the block that is the outlining
   point.                                                                           *)
Deleted(f, d, bv) ==
  {v \in Insns(f) : /\ Has(d, bv, v)
                    /\ ~(IsPhi(Ins(f, v)) /\ d.nodes[Min(bv)] = BlockNode(v[1]))}

ModifyDefinition(f, d, bvs) ==
  LET e == [m \in DOMAIN bvs |-> CalleeExtractor(f, d, bvs[m])]
      deleted == UNION {Deleted(f, d, bvs[m]) : m \in DOMAIN bvs}
      replaced == UNION {{<<v, Result(m, v)>> : v \in e[m].outputs \ e[m].outphis} : m \in DOMAIN bvs}
      Use(v) == IF \E r \in replaced : r[1] = v THEN (CHOOSE r \in replaced : r[1] = v)[2] ELSE v
      (* The callee, if any, that computes the phi's value when it is entered from p.  *)
      By(v, p) == {m \in DOMAIN bvs : v \in e[m].outphis /\ TermOutlined(f, d, bvs[m], p)}
      Phi(v) == [p \in DOMAIN Ins(f, v).from |->
                   IF By(v, p) # {} THEN Result(Max(By(v, p)), v) ELSE Use(Ins(f, v).from[p])]
      Kept(v) == [op |-> Ins(f, v).op, id |-> v, from |-> IF IsPhi(Ins(f, v)) THEN Phi(v) ELSE <<>>,
                  args |-> [n \in DOMAIN Ins(f, v).args |-> Use(Ins(f, v).args[n])],
                  to |-> IF v = Term(f, v[1]) THEN f.succ[v[1]] ELSE <<>>]
      Switch(v) == [Br(FindNextBlock(f, d, v[1])) EXCEPT !.op = "switch"]
      Call(m) == [op |-> "outlined", id |-> <<m, 0>>, args |-> <<>>, to |-> <<>>,
                  from |-> [v \in e[m].inputs |-> Use(v)]]
      At(v) == LET calls == SelectSeq([m \in DOMAIN bvs |-> m],
                                      LAMBDA m : InsertionPoint(f, d, bvs[m]) = v)
               IN [n \in DOMAIN calls |-> Call(calls[n])]
                  \o (IF v \notin deleted THEN <<Kept(v)>>
                      ELSE IF v = Term(f, v[1]) THEN <<Switch(v)>> ELSE <<>>)
      Unreachable == <<[Br(NoBlock) EXCEPT !.op = "unreachable"]>>
  IN [code |-> [b \in Blocks(f) \cup {UnreachableBlock(f)} |->
                  IF b = UnreachableBlock(f) THEN Unreachable
                  ELSE FlattenSeq([k \in DOMAIN f.code[b] |-> At(<<b, k>>)])]]

-----------------------------------------------------------------------------
(***************************************************************************)
(* OutliningCandidates (src/outlining/lib/Candidates.cpp): the sets of     *)
(* nodes that are proposed for outlining.  Dependences are closed          *)
(* (computeTransitiveClosures); "fatal" becomes TRUE where the code calls  *)
(* report_fatal_error or an assertion fails.                               *)
(***************************************************************************)

(* OutliningCandidatesOptions, and the size model: an instruction's size is 1, a phi's 0,
   and so is the call's that replaces the outlined ones; a size model may be absent.      *)
CONSTANTS MaxAdjacent, MaxArgs, MaxNodes, MinSavings, UseSizeModel

ASSUME OptionsAssumption ==
  /\ MaxAdjacent \in Nat /\ MaxArgs \in Nat /\ MaxNodes \in Nat
  /\ MinSavings \in Int /\ UseSizeModel \in BOOLEAN

CallSize == 1
CandidateSize(f, d, bv) ==
  Cardinality({i \in bv : d.nodes[i][1] = "ins" /\ ~IsPhi(Ins(f, d.nodes[i][2]))})

(* emitCandidate: what it does with the candidate when it is valid.  *)
Worthwhile(f, d, bv) ==
  UseSizeModel =>
    /\ CandidateSize(f, d, bv) - CallSize >= MinSavings
    /\ LET e == CalleeExtractor(f, d, bv)
       IN Cardinality(e.inputs) + Cardinality(e.outputs) <= MaxArgs

(* "out" holds the candidates so far, the ones dropped as redundant, and whether the program
   has been stopped.                                                                        *)
Emit(f, d, out, bv) ==
  IF out.fatal THEN out
  ELSE IF ~IsOutlinable(d, bv) THEN [out EXCEPT !.fatal = TRUE]
  ELSE IF Worthwhile(f, d, bv) THEN [out EXCEPT !.cands = @ \cup {bv}] ELSE out

(* Whether a dependence still lies after the outlining point.  *)
AfterOutliningPoint(rest, grown) == rest # {} /\ Max(rest) >= Min(grown)

(* The inner loop of generateCandidatesEndingAt: add the next dependence with what it
   forces, and go on while there are dependences after the new outlining point.  A dependence
   that forces i itself ("again") makes the candidate redundant.                            *)
RECURSIVE AddDependence(_, _, _, _, _)
AddDependence(d, i, bv, deps, next) ==
  LET again == i \in d.forced[next]
      forced == {j \in d.forced[next] : again => j < i}
      grown == bv \cup {next} \cup forced
      rest == (deps \cup d.dominating[next] \cup UNION {d.dominating[j] : j \in forced \ bv}) \ grown
  IN IF again THEN [bv |-> grown, deps |-> rest, redundant |-> {bv \cup {next} \cup d.forced[next]}]
     ELSE IF AfterOutliningPoint(rest, grown) THEN AddDependence(d, i, grown, rest, Max(rest))
     ELSE [bv |-> grown, deps |-> rest, redundant |-> {}]

(* The outer loop: emit the candidate, then grow it by its last dominating dependence.  *)
RECURSIVE GrowCandidate(_, _, _, _, _, _)
GrowCandidate(f, d, i, bv, deps, out) ==
  IF out.fatal \/ Cardinality(bv) > MaxNodes \/ d.prevents \cap bv # {} THEN [out EXCEPT !.main = bv]
  ELSE LET emitted == Emit(f, d, out, bv)
       IN IF emitted.fatal \/ deps = {} THEN [emitted EXCEPT !.main = bv]
          ELSE IF Max(deps) \notin d.dominators[Min(bv)] \ {Min(bv)}
               THEN [emitted EXCEPT !.fatal = TRUE]
          ELSE LET next == AddDependence(d, i, bv, deps, Max(deps))
               IN IF next.redundant # {}
                  THEN [emitted EXCEPT !.main = next.bv, !.dropped = @ \cup next.redundant]
                  ELSE GrowCandidate(f, d, i, next.bv, next.deps, emitted)

(* Contiguous sequences ending at i, from i back to the first one or to the first that
   cannot be added.                                                                     *)
RECURSIVE Contiguous(_, _, _, _, _, _, _, _)
Contiguous(f, d, i, j, first, inmain, main, out) ==
  IF out.fatal \/ j < first \/ j \in d.prevents \/ ~(d.forced[j] \subseteq j .. i) THEN out
  ELSE IF inmain /\ j \in main THEN Contiguous(f, d, i, j - 1, first, TRUE, main, out)
  ELSE Contiguous(f, d, i, j - 1, first, FALSE, main, Emit(f, d, out, j .. i))

NodeOf(d, n) == CHOOSE i \in DOMAIN d.nodes : d.nodes[i] = n
FirstNode(f, d, b) == NodeOf(d, InsNode(<<b, FirstNonPHI(f, b)>>))

GenerateCandidatesEndingAt(f, d, i, out) ==
  LET start == {i} \cup d.forced[i]
      deps == UNION {d.dominating[j] : j \in start} \ start
      grown == GrowCandidate(f, d, i, start, deps, out)
      first == Max({i + 1 - MaxAdjacent, FirstNode(f, d, NodeBlock(d.nodes[i]))})
  IN IF grown.fatal THEN grown ELSE Contiguous(f, d, i, i, first, TRUE, grown.main, grown)

(* The constructor: the nodes of each block at which candidates end.  An unconditional
   branch to a block it dominates moves the end of the block forward by one.            *)
EndNodes(f, d, b) ==
  LET last == NodeOf(d, TermNode(f, b))
      plain == /\ f.code[b][Len(f.code[b])].op = "br"
               /\ Len(f.succ[b]) = 1
               /\ b \in DomSets(f)[f.succ[b][1]]
  IN FirstNode(f, d, b) .. ((IF plain THEN last - 1 ELSE last) - 1)

RECURSIVE GenerateAll(_, _, _, _)
GenerateAll(f, d, ends, out) ==
  IF ends = <<>> \/ out.fatal THEN out
  ELSE GenerateAll(f, d, Tail(ends), GenerateCandidatesEndingAt(f, d, Head(ends), out))

AllEnds(f, d) ==
  FlattenSeq([b \in Blocks(f) |->
    IF b \in Reachable(f) THEN SetToSortSeq(EndNodes(f, d, b), LAMBDA x, y : x < y) ELSE <<>>])

NoCandidates == [cands |-> {}, dropped |-> {}, main |-> {}, fatal |-> FALSE]
OutliningCandidates(f, d) == GenerateAll(f, d, AllEnds(f, d), NoCandidates)

=============================================================================

----------------------------- MODULE Dependence -----------------------------
(***************************************************************************)
(* OutliningDependenceResults (src/outlining/lib/Dependence.cpp): which    *)
(* sets of a function's nodes can be moved into a function of their own.   *)
(* A node is a block's head, a MemoryPhi of MemorySSA ("mphi") or of       *)
(* FalseMemorySSA ("fphi"), or an instruction; nodes are numbered from 1   *)
(* where the code numbers them from 0, and a bit vector is a set of        *)
(* numbers.  Every pair below is <<user, def>>.                            *)
(***************************************************************************)
EXTENDS Integers, Sequences, FiniteSets, SequencesExt, FiniteSetsExt

(***************************************************************************)
(* LLVM functions as the outliner sees them: basic blocks of instructions, *)
(* dominator and post-dominator trees, memory in SSA form, and what a      *)
(* function computes when it runs.  The trees, MemorySSA and the meaning   *)
(* of an instruction are LLVM's and are modelled from how src/outlining    *)
(* uses them; FalseMemorySSA and CorrectPostDominatorTree are this         *)
(* repository's.                                                           *)
(*                                                                         *)
(* A function is [succ, code]: for every block its successors, and its     *)
(* instructions, the last of which is its terminator.  An instruction is   *)
(* [op, args, from]; a value is <<b, k>> for the k-th instruction of block *)
(* b, <<0, k>> for the k-th argument and <<-1, c>> for a constant; "from"  *)
(* is a phi's value for each predecessor.                                  *)
(***************************************************************************)

Root == -1                    \* the virtual root of a post-dominator tree
Implicit == 0                 \* the implicit node of CorrectCFG
LiveOnEntry == <<"entry", 0>>
NoBlock == -1

Blocks(f) == 1 .. Len(f.code)
Preds(f, b) == {p \in Blocks(f) : b \in Range(f.succ[p])}
Term(f, b) == <<b, Len(f.code[b])>>
Ins(f, v) == f.code[v[1]][v[2]]
Insns(f) == UNION {{<<b, k>> : k \in 1 .. Len(f.code[b])} : b \in Blocks(f)}
IsPhi(i) == i.op = "phi"
FirstNonPHI(f, b) == Cardinality({k \in DOMAIN f.code[b] : IsPhi(f.code[b][k])}) + 1
Operands(i) == IF IsPhi(i) THEN {i.from[p] : p \in DOMAIN i.from} ELSE Range(i.args)

(* LLVM's isGuaranteedToTransferExecutionToSuccessor is false of these: a call that may
   throw or exit, and every terminator that leaves the function.                     *)
MayNotReturn(i) == i.op \in {"exit", "invoke", "ret", "resume", "unreachable"}

-----------------------------------------------------------------------------
(* Reachability in a graph whose edges are the sets succ[n].  *)
Reach(succ, from, avoid) ==
  LET Grow[n \in 0 .. Cardinality(DOMAIN succ)] ==
        IF n = 0 THEN from \ avoid
        ELSE LET old == Grow[n - 1] IN old \cup (UNION {succ[x] : x \in old} \ avoid)
  IN Grow[Cardinality(DOMAIN succ)]

SuccSets(f) == [b \in Blocks(f) |-> Range(f.succ[b])]
Reachable(f) == Reach(SuccSets(f), {1}, {})

(* The dominators of every reachable block, itself included.  *)
DomSets(f) ==
  [b \in Reachable(f) |-> {d \in Reachable(f) : d = b \/ b \notin Reach(SuccSets(f), {1}, {d})}]

(* The post-dominators of every node, when the nodes without successors are the ways out
   and every node has a way out.                                                      *)
PostDomSets(succ) ==
  LET outs == {x \in DOMAIN succ : succ[x] = {}}
  IN [a \in DOMAIN succ |->
       {d \in DOMAIN succ : d = a \/ Reach(succ, {a}, {d}) \cap outs = {}}]

(* The parent of a in the tree of the given (post-)dominator sets.  *)
IDom(doms, a) ==
  LET strict == doms[a] \ {a}
  IN IF strict = {} THEN Root ELSE CHOOSE d \in strict : strict \subseteq doms[d]

Tree(doms) == [a \in DOMAIN doms |-> IDom(doms, a)]

(* The nodes from b up to and not including l.  *)
RECURSIVE PathUp(_, _, _)
PathUp(tree, b, l) == IF b = l \/ b = Root THEN <<>> ELSE <<b>> \o PathUp(tree, tree[b], l)

-----------------------------------------------------------------------------
(* CorrectCFG: the blocks that hold an instruction which may not return get an edge to the
   implicit node; a terminator without successors is not looked at.                     *)
HasImplicitControlFlow(f, b) ==
  \E k \in DOMAIN f.code[b] :
    /\ MayNotReturn(f.code[b][k])
    /\ ~(k = Len(f.code[b]) /\ f.succ[b] = <<>>)

CorrectSucc(f) ==
  [n \in {Implicit} \cup Blocks(f) |->
     IF n = Implicit THEN {}
     ELSE Range(f.succ[n]) \cup (IF HasImplicitControlFlow(f, n) THEN {Implicit} ELSE {})]

CorrectPostDominatorTree(f) == Tree(PostDomSets(CorrectSucc(f)))
PostDominatorTree(f) == Tree(PostDomSets(SuccSets(f)))

-----------------------------------------------------------------------------
(* Memory is one location: any two accesses may alias.  *)
WriteOps == {"store", "call", "exit", "invoke", "musttail", "setjmp", "memset",
             "lifetime_start", "lifetime_end", "stacksave", "stackrestore"}
Writes(i) == i.op \in WriteOps
Reads(i) == i.op = "load"

(* The accesses that are MemoryDefs: the writes for MemorySSA, and for FalseMemorySSA,
   which treats loads as defs, every access.                                         *)
TrueDefs == WriteOps
FalseDefs == WriteOps \cup {"load"}

(* The blocks where a MemoryPhi is placed: the iterated dominance frontier of the blocks
   that hold a MemoryDef.                                                             *)
PhiBlocks(f, defs) ==
  LET doms == DomSets(f)
      defining == {b \in Reachable(f) : \E k \in DOMAIN f.code[b] : f.code[b][k].op \in defs}
      Frontier(x) == {b \in Reachable(f) :
                        /\ ~(x \in doms[b] /\ x # b)
                        /\ \E p \in Preds(f, b) \cap Reachable(f) : x \in doms[p]}
      IDF[n \in 0 .. Len(f.code)] ==
        IF n = 0 THEN UNION {Frontier(x) : x \in defining}
        ELSE LET old == IDF[n - 1] IN old \cup UNION {Frontier(x) : x \in old}
  IN IDF[Len(f.code)]

(* The access that reaches the k-th instruction of block b (the end of the block when k is
   past its last one): the last MemoryDef before it in the block, the block's MemoryPhi,
   or what reaches the end of the immediate dominator; live on entry in unreachable code. *)
RECURSIVE Incoming(_, _, _, _, _, _)
Incoming(f, defs, tree, phis, b, k) ==
  LET before == {j \in 1 .. (k - 1) : f.code[b][j].op \in defs}
  IN IF b \notin DOMAIN tree THEN LiveOnEntry
     ELSE IF before # {} THEN <<"ins", <<b, CHOOSE j \in before : \A o \in before : o <= j>>>>
     ELSE IF b \in phis THEN <<"phi", b>>
     ELSE IF tree[b] = Root THEN LiveOnEntry
     ELSE Incoming(f, defs, tree, phis, tree[b], Len(f.code[tree[b]]) + 1)

-----------------------------------------------------------------------------

BlockNode(b) == <<"block", b>>
InsNode(v) == <<"ins", v>>
TermNode(f, b) == InsNode(Term(f, b))
InsNodes(f, b) == {InsNode(<<b, k>>) : k \in DOMAIN f.code[b]}

-----------------------------------------------------------------------------
(* numberNodes: dominators come before what they dominate, in the function's own order as
   far as possible; unreachable blocks are left out.                                    *)
BlockOrder(f) ==
  LET doms == DomSets(f)
      Above(x, y) == Cardinality(doms[x]) < Cardinality(doms[y])
      VisitBlock(order, b) ==
        IF b \notin DOMAIN doms THEN order
        ELSE order \o SetToSortSeq(doms[b] \ Range(order), Above)
  IN FoldLeft(VisitBlock, <<>>, [b \in Blocks(f) |-> b])

NumberNodes(f) ==
  LET mphis == PhiBlocks(f, TrueDefs)
      fphis == PhiBlocks(f, FalseDefs)
      Of(b) == <<BlockNode(b)>>
               \o (IF b \in mphis THEN <<<<"mphi", b>>>> ELSE <<>>)
               \o (IF b \in fphis THEN <<<<"fphi", b>>>> ELSE <<>>)
               \o [k \in DOMAIN f.code[b] |-> InsNode(<<b, k>>)]
  IN FlattenSeq([n \in DOMAIN BlockOrder(f) |-> Of(BlockOrder(f)[n])])

NodeBlock(node) == IF node[1] = "ins" THEN node[2][1] ELSE node[2]

Dominators(f, nodes) ==
  LET doms == DomSets(f)
  IN [i \in DOMAIN nodes |->
       {j \in DOMAIN nodes : /\ NodeBlock(nodes[j]) \in doms[NodeBlock(nodes[i])]
                             /\ NodeBlock(nodes[j]) = NodeBlock(nodes[i]) => j <= i}]

-----------------------------------------------------------------------------
(* analyzeBlock, first loop: what block a decides.  A block on the path from a successor of
   a to a's post-dominator depends on a's terminator, or on the head of the last block
   before it on the path that dominates it.                                              *)
Decided(f, tree, a) ==
  LET Strict == Range(PathUp(tree, tree[a], Root))
      Path(b) == SelectSeq(PathUp(tree, b, tree[a]), LAMBDA m : m # Implicit)
  IN {Path(b) : b \in Range(f.succ[a]) \ Strict}

ControlPairs(f, tree, doms, a) ==
  LET Dep(path, i) ==
        LET above == {j \in 1 .. (i - 1) : path[j] \in doms[path[i]]}
        IN IF above = {} THEN TermNode(f, a) ELSE BlockNode(path[Max(above)])
  IN UNION {{<<BlockNode(path[i]), Dep(path, i)>> : i \in DOMAIN path} : path \in Decided(f, tree, a)}

(* ControlDepends of block b as it is once the given blocks have been analysed.  *)
ControlDepends(f, tree, analysed, b) ==
  {a \in analysed : \E path \in Decided(f, tree, a) : b \in Range(path)}

(* Second loop: a branch is only outlined with all that it decides, explicit control flow
   only.                                                                                *)
BranchForces(f, tree, a) ==
  UNION {{<<TermNode(f, a), n>> : n \in UNION {{BlockNode(m)} \cup InsNodes(f, m) : m \in Range(path)}} :
          path \in Decided(f, tree, a)}

(* Third loop: the nearest dominator that is decided by nothing else than what decides b is
   outlined with b, so that the outlining point stays out of loops b is not in.  The blocks
   after b in the order have not been analysed yet.                                        *)
LoopForces(f, tree, domtree, order, b) ==
  LET analysed == {order[n] : n \in 1 .. CHOOSE n \in DOMAIN order : order[n] = b}
      Depends(x) == ControlDepends(f, tree, analysed, x)
      above == PathUp(domtree, domtree[b], Root)
      fits == {n \in DOMAIN above : Depends(above[n]) \subseteq Depends(b)}
  IN IF fits = {} THEN {} ELSE {<<BlockNode(b), TermNode(f, above[Min(fits)])>>}

-----------------------------------------------------------------------------
MemNode(kind, access) == IF access[1] = "phi" THEN <<kind, access[2]>> ELSE access

(* analyzeMemoryPhi.  *)
MemoryPhiForces(kind, phis) == {<<<<kind, b>>, BlockNode(b)>> : b \in phis}

MemoryPhiPairs(f, kind, defs, domtree, phis) ==
  UNION {{<<<<kind, b>>, MemNode(kind, Incoming(f, defs, domtree, phis, p, Len(f.code[p]) + 1))>> :
            p \in Preds(f, b)} : b \in phis}

(* The accesses a write follows in FalseMemorySSA: every load of the run of loads before it,
   and the access before those.                                                           *)
RECURSIVE WriteFollows(_, _, _, _)
WriteFollows(f, domtree, phis, v) ==
  LET parent == Incoming(f, FalseDefs, domtree, phis, v[1], v[2])
  IN {MemNode("fphi", parent)} \cup
     (IF parent[1] = "ins" /\ Reads(Ins(f, parent[2]))
      THEN WriteFollows(f, domtree, phis, parent[2]) ELSE {})

(* A mutant: a write may move before the loads that come before it.  *)
NoAntiPairs(f, domtree, mphis, fphis, v) ==
  {<<InsNode(v), MemNode("mphi", Incoming(f, TrueDefs, domtree, mphis, v[1], v[2]))>> :
     n \in {m \in {1} : Writes(Ins(f, v)) \/ Reads(Ins(f, v))}}

MemoryPairs(f, domtree, mphis, fphis, v) ==
  {<<InsNode(v), access>> : access \in
     IF Writes(Ins(f, v)) THEN WriteFollows(f, domtree, fphis, v)
     ELSE IF Reads(Ins(f, v)) THEN {MemNode("mphi", Incoming(f, TrueDefs, domtree, mphis, v[1], v[2]))}
     ELSE {}}

-----------------------------------------------------------------------------
(* Data, control and implicit control dependences of an instruction, and those of a phi on
   the branches that lead to it; a branch to a phi depends on the value it brings.        *)
DataPairs(f, v) == {<<InsNode(v), InsNode(o)>> : o \in {x \in Operands(Ins(f, v)) : x[1] > 0}}

ControlOf(f, v) == {<<InsNode(v), BlockNode(v[1])>>}

ImplicitPairs(f, v) ==
  IF MayNotReturn(Ins(f, v))
  THEN {<<InsNode(<<v[1], k>>), InsNode(v)>> : k \in (v[2] + 1) .. Len(f.code[v[1]])} ELSE {}

PhiPairs(f, v) ==
  IF ~IsPhi(Ins(f, v)) THEN {}
  ELSE LET from == Ins(f, v).from
       IN {<<InsNode(v), TermNode(f, p)>> : p \in DOMAIN from}
          \cup {<<TermNode(f, p), InsNode(from[p])>> : p \in {q \in DOMAIN from : from[q][1] > 0}}

(* The forced dependences of an instruction's kind.  *)
KindForces(f, v) ==
  LET i == Ins(f, v)
      First(b) == InsNode(<<b, FirstNonPHI(f, b)>>)
      pads == {First(b) : b \in {x \in Blocks(f) :
                                   f.code[x][FirstNonPHI(f, x)].op = "landingpad"}}
  IN CASE IsPhi(i) -> {<<InsNode(v), BlockNode(v[1])>>}
       [] i.op = "landingpad" -> {<<InsNode(v), TermNode(f, p)>> : p \in Preds(f, v[1])}
       [] i.op = "invoke" -> {<<InsNode(v), First(f.succ[v[1]][2])>>}
       [] i.op = "resume" -> ({InsNode(v)} \X pads) \cup (pads \X {InsNode(v)})
       [] OTHER -> {}

(* RecordingCaptureTracker on an alloca: the uses of the pointer and of pointers made from
   it; what is not an access through it or a derived pointer captures it.               *)
Derived(f, v) ==
  LET Grow[n \in 0 .. Cardinality(Insns(f))] ==
        IF n = 0 THEN {v}
        ELSE LET old == Grow[n - 1]
             IN old \cup {u \in Insns(f) : Ins(f, u).op \in {"gep", "phi"} /\ Operands(Ins(f, u)) \cap old # {}}
  IN Grow[Cardinality(Insns(f))]

UsesOf(f, v) == {u \in Insns(f) : Operands(Ins(f, u)) \cap Derived(f, v) # {}}

Captured(f, v) ==
  \E u \in UsesOf(f, v) : \/ Ins(f, u).op \notin {"load", "store", "gep", "phi", "memset",
                                                  "lifetime_start", "lifetime_end"}
                          \/ Ins(f, u).op = "store" /\ Ins(f, u).args[1] \in Derived(f, v)

AllocaForces(f, v) ==
  IF Ins(f, v).op = "alloca" /\ ~Captured(f, v)
  THEN {<<InsNode(v), InsNode(u)>> : u \in UsesOf(f, v)} ELSE {}

(* Calls: "musttail" and "setjmp" (returns_twice) stay.  Of the intrinsics, the ones known to
   be safe may be outlined, one of each class here; any other may not, known ("vastart",
   "frameaddress", "lifetime_start") or unlisted ("unknown").                             *)
StayingCalls == {"musttail", "setjmp"}
SafeIntrinsics == {"op", "lifetime_end", "memset"}
StackIntrinsics == {"stacksave", "stackrestore"}
Intrinsics == SafeIntrinsics \cup StackIntrinsics
              \cup {"lifetime_start", "vastart", "frameaddress", "unknown"}

IntrinsicPrevents(i) == i.op \in Intrinsics \ SafeIntrinsics

Prevents(f, v) ==
  \/ Ins(f, v).op \in {"ret"} \cup StayingCalls
  \/ Ins(f, v).op = "alloca" /\ Captured(f, v)
  \/ IntrinsicPrevents(Ins(f, v))

(* With stacksave or stackrestore in the function no alloca can be outlined.  *)
FinalizeDepends(f, prevents) ==
  prevents \cup (IF \E v \in Insns(f) : v[1] \in Reachable(f) /\ Ins(f, v).op \in StackIntrinsics
                 THEN {v \in Insns(f) : Ins(f, v).op = "alloca"} ELSE {})

-----------------------------------------------------------------------------
(* addDepend, addForcedDepend: a dependence between two nodes is dominating when the def
   dominates the user and forced when it does not; what is not a node is dropped.        *)
Recorded(nodes, pairs) ==
  LET index == [n \in Range(nodes) |-> CHOOSE i \in DOMAIN nodes : nodes[i] = n]
  IN {<<index[p[1]], index[p[2]]>> : p \in {q \in pairs : q[1] \in Range(nodes) /\ q[2] \in Range(nodes)}}

Split(nodes, dominators, depends, forces) ==
  [dominating |-> [i \in DOMAIN nodes |->
                     {j \in dominators[i] : <<i, j>> \in depends}],
   forced |-> [i \in DOMAIN nodes |->
                     {j \in DOMAIN nodes : \/ <<i, j>> \in forces
                                           \/ <<i, j>> \in depends /\ j \notin dominators[i]}]]

(* The constructor: every node is analysed in turn.  *)
Analyze(f) ==
  LET doms == DomSets(f)
      domtree == Tree(doms)
      cpdt == CorrectPostDominatorTree(f)
      pdt == PostDominatorTree(f)
      order == BlockOrder(f)
      nodes == NumberNodes(f)
      mphis == PhiBlocks(f, TrueDefs)
      fphis == PhiBlocks(f, FalseDefs)
      blocks == Range(order)
      insns == {v \in Insns(f) : v[1] \in blocks}
      dominators == Dominators(f, nodes)
      data == Recorded(nodes, UNION {DataPairs(f, v) : v \in insns})
      depends ==
        data \cup Recorded(nodes,
          UNION {ControlPairs(f, cpdt, doms, a) : a \in blocks}
          \cup MemoryPhiPairs(f, "mphi", TrueDefs, domtree, mphis)
          \cup MemoryPhiPairs(f, "fphi", FalseDefs, domtree, fphis)
          \cup UNION {MemoryPairs(f, domtree, mphis, fphis, v) \cup ControlOf(f, v)
                      \cup ImplicitPairs(f, v) \cup PhiPairs(f, v) : v \in insns})
      forces ==
        Recorded(nodes,
          UNION {BranchForces(f, pdt, a) \cup LoopForces(f, cpdt, domtree, order, a) : a \in blocks}
          \cup MemoryPhiForces("mphi", mphis) \cup MemoryPhiForces("fphi", fphis)
          \cup UNION {KindForces(f, v) \cup AllocaForces(f, v) : v \in insns})
      split == Split(nodes, dominators, depends, forces)
      prevents == FinalizeDepends(f, {v \in insns : Prevents(f, v)})
  IN [nodes |-> nodes, dominators |-> dominators, pdt |-> pdt,
      dominating |-> split.dominating, forced |-> split.forced,
      data |-> [i \in DOMAIN nodes |-> {j \in DOMAIN nodes : <<i, j>> \in data}],
      args |-> [i \in DOMAIN nodes |->
                  IF nodes[i][1] # "ins" THEN {}
                  ELSE {o \in Operands(Ins(f, nodes[i][2])) : o[1] = 0}],
      prevents |-> {i \in DOMAIN nodes : nodes[i][1] = "ins" /\ nodes[i][2] \in prevents}]

IsOutlinable(d, bv) ==
  /\ bv # {}
  /\ Max(bv) <= Len(d.nodes)
  /\ bv \cap d.prevents = {}
  /\ \A i \in bv : /\ Min(bv) \in d.dominators[i]
                   /\ d.forced[i] \subseteq bv
                   /\ d.dominating[i] \subseteq bv \cup d.dominators[Min(bv)]

-----------------------------------------------------------------------------
(* computeTransitiveClosures.  A dominating dependence has a smaller number than its user,
   so its own are complete when they are added.                                           *)
RECURSIVE CloseDominating(_, _)
CloseDominating(dominating, i) ==
  IF i > Len(dominating) THEN dominating
  ELSE CloseDominating([dominating EXCEPT ![i] = @ \cup UNION {dominating[x] : x \in @}], i + 1)

(* The last of the common dominators.  *)
OutliningPoint(above) == {Max(above)}

(* The dominating dependences that do not dominate the outlining point.  *)
Needed(dominating, members, above) == UNION {dominating[x] : x \in members} \ above

(* One turn of the inner loop: node i gets what its forced dependences force, a common
   dominator of them as the outlining point, and the dominating dependences that do not
   dominate it.                                                                        *)
CloseNode(d, dominating, forced, i) ==
  IF forced[i] = {} THEN forced
  ELSE LET members == {i} \cup forced[i]
           above == {a \in DOMAIN d.nodes : \A x \in members : a \in d.dominators[x]}
           needed == Needed(dominating, members, above)
       IN [forced EXCEPT ![i] = @ \cup UNION {forced[x] : x \in forced[i]} \cup needed
                                  \cup OutliningPoint(above)]

RECURSIVE CloseFrom(_, _, _, _)
CloseFrom(d, dominating, forced, i) ==
  IF i > Len(d.nodes) THEN forced
  ELSE CloseFrom(d, dominating, CloseNode(d, dominating, forced, i), i + 1)

RECURSIVE CloseForced(_, _, _)
CloseForced(d, dominating, forced) ==
  LET next == CloseFrom(d, dominating, forced, 1)
  IN IF next = forced THEN forced ELSE CloseForced(d, dominating, next)

(* The dominating dependences that are not forced as well.  *)
Remaining(dominating, forced, i) == dominating[i] \ forced[i]

(* A mutant: the set is made anew.  *)
PreventedByForced(d, forced) == {i \in DOMAIN d.nodes : forced[i] \cap d.prevents # {}}

(* What cannot be outlined, or forces what cannot.  *)
Prevented(d, forced) == {i \in DOMAIN d.nodes : ({i} \cup forced[i]) \cap d.prevents # {}}

ComputeTransitiveClosures(d) ==
  LET dominating == CloseDominating(d.dominating, 1)
      forced == CloseForced(d, dominating, d.forced)
      prevents == Prevented(d, forced)
      Unforced(i) == Remaining(dominating, forced, i)
      Kept(set, i) == IF i \in prevents THEN {} ELSE set
  IN [d EXCEPT !.prevents = prevents,
               !.forced = [i \in DOMAIN d.nodes |-> Kept(forced[i], i)],
               !.dominating = [i \in DOMAIN d.nodes |-> Kept(Unforced(i), i)],
               !.args = [i \in DOMAIN d.nodes |-> Kept(d.args[i], i)]]

=============================================================================

---------------------------- MODULE MCOutlining ----------------------------
(* Small functions of several shapes, with two instructions placed in every way, and some
   written by hand for the instructions that have rules of their own.                   *)
EXTENDS Outlining

I(op, args) == [op |-> op, args |-> args, from |-> <<>>]

Succ(name) ==
  CASE name = "diamond" -> <<<<2, 3>>, <<4>>, <<4>>, <<>>>>
    [] name = "dowhile" -> <<<<2>>, <<2, 3>>, <<>>>>
    [] name = "while" -> <<<<2>>, <<3, 4>>, <<2>>, <<>>>>
    [] name = "break" -> <<<<2>>, <<3, 4>>, <<>>, <<2, 3>>>>
    [] name = "loopif" -> <<<<2>>, <<3, 4>>, <<4>>, <<2, 5>>, <<>>>>
    [] name = "dead" -> <<<<3>>, <<3>>, <<>>>>

(* A block of the shape that several others lead to.  *)
Join(name) ==
  CASE name \in {"diamond", "loopif"} -> 4
    [] name \in {"dowhile", "while"} -> 2
    [] OTHER -> 3

Arg == <<0, 1>>

(* A function of the given shape: instruction x in block bx, instruction y in block by, after
   x when the blocks are the same, and perhaps a phi at block j.                            *)
Make(succ, bx, x, by, y, vy, cond, j, carry) ==
  LET joins == {p \in DOMAIN succ : j \in Range(succ[p])}
      shift(b) == IF b = j THEN 1 ELSE 0
      valx == <<bx, shift(bx) + 1>>
      valy == <<by, shift(by) + (IF by = bx THEN 2 ELSE 1)>>
      phi == [op |-> "phi", args |-> <<>>,
              from |-> [p \in joins |-> IF carry /\ p = by THEN valy ELSE <<-1, p>>]]
      Val(o) == CASE o = "arg" -> Arg [] o = "x" -> valx [] o = "phi" -> <<j, 1>>
      Place(op, v) == I(op, IF op = "load" THEN <<>> ELSE <<v>>)
      Finish(b) == CASE Len(succ[b]) = 0 -> I("ret", IF b = j THEN <<<<j, 1>>>> ELSE <<>>)
                  [] Len(succ[b]) = 1 -> I("br", <<>>)
                  [] Len(succ[b]) = 2 -> I("br", <<Val(cond)>>)
  IN [succ |-> succ,
      code |-> [b \in DOMAIN succ |->
        (IF b = j THEN <<phi>> ELSE <<>>)
        \o (IF b = bx THEN <<Place(x, Arg)>> ELSE <<>>)
        \o (IF b = by THEN <<Place(y, Val(vy))>> ELSE <<>>)
        \o <<Finish(b)>>]]

(* SSA: an operand is defined by an instruction that has a value and dominates the use.  *)
WellFormed(g) ==
  LET doms == DomSets(g)
      Defined(o, v) == \/ o[1] <= 0
                       \/ /\ Ins(g, o).op # "store"
                          /\ IF o[1] = v[1] THEN o[2] < v[2]
                             ELSE v[1] \in DOMAIN doms /\ o[1] \in doms[v[1]]
      OfPhi(i) == \A p \in DOMAIN i.from : Defined(i.from[p], <<p, Len(g.code[p])>>)
  IN \A v \in Insns(g) : IF IsPhi(Ins(g, v)) THEN OfPhi(Ins(g, v))
                         ELSE \A o \in Range(Ins(g, v).args) : Defined(o, v)

Generated(shapes, X, Y) ==
  {g \in UNION {{Make(Succ(s), bx, x, by, y, vy, cond, j, carry) :
        bx \in DOMAIN Succ(s), x \in X, by \in DOMAIN Succ(s), y \in Y,
        vy \in {"arg", "x"}, cond \in {"arg", "x"}, j \in {0, Join(s)}, carry \in {TRUE, FALSE}} :
      s \in shapes} : WellFormed(g)}

(* An invoke with a cleanup, local variables, intrinsics that stay where they are, and the
   loop of test/outlining/2021-07-19-invalid-candidate.ll.                              *)
Special ==
  {[succ |-> <<<<2, 3>>, <<>>, <<>>>>,
    code |-> <<<<I("op", <<Arg>>), I("call", <<<<1, 1>>>>), I("invoke", <<<<1, 1>>>>)>>,
               <<I("op", <<<<1, 3>>>>), I("call", <<<<2, 1>>>>), I("ret", <<<<2, 1>>>>)>>,
               <<I("landingpad", <<>>), I("call", <<<<3, 1>>>>), I("resume", <<>>)>>>>],
   [succ |-> <<<<2, 3>>, <<4>>, <<4>>, <<>>>>,
    code |-> <<<<I("op", <<Arg>>), I("invoke", <<<<1, 1>>>>)>>,
               <<I("call", <<<<1, 2>>>>), I("br", <<>>)>>,
               <<I("landingpad", <<>>), I("call", <<<<3, 1>>>>), I("br", <<>>)>>,
               <<I("load", <<>>), I("ret", <<<<4, 1>>>>)>>>>],
   [succ |-> <<<<>>>>,
    code |-> <<<<I("alloca", <<>>), I("store", <<Arg, <<1, 1>>>>), I("gep", <<<<1, 1>>>>),
                 I("op", <<Arg>>), I("load", <<<<1, 3>>>>), I("call", <<<<1, 5>>, <<1, 4>>>>),
                 I("ret", <<<<1, 5>>>>)>>>>],
   [succ |-> <<<<>>>>,
    code |-> <<<<I("alloca", <<>>), I("call", <<<<1, 1>>>>), I("load", <<<<1, 1>>>>),
                 I("frameaddress", <<>>), I("op", <<<<1, 4>>, <<1, 3>>>>), I("ret", <<<<1, 5>>>>)>>>>],
   [succ |-> <<<<2>>, <<>>>>,
    code |-> <<<<I("stacksave", <<>>), I("alloca", <<>>), I("op", <<Arg>>), I("br", <<>>)>>,
               <<I("store", <<<<1, 3>>, <<1, 2>>>>), I("load", <<<<1, 2>>>>), I("ret", <<<<2, 2>>>>)>>>>],
   [succ |-> <<<<>>>>,
    code |-> <<<<I("alloca", <<>>), I("lifetime_start", <<<<1, 1>>>>), I("memset", <<<<1, 1>>, Arg>>),
                 I("load", <<<<1, 1>>>>), I("lifetime_end", <<<<1, 1>>>>), I("op", <<<<1, 4>>>>),
                 I("ret", <<<<1, 6>>>>)>>>>],
   [succ |-> <<<<3, 2>>, <<>>, <<>>>>,
    code |-> <<<<I("vastart", <<>>), I("unknown", <<<<1, 1>>>>), I("setjmp", <<>>), I("br", <<<<1, 3>>>>)>>,
               <<I("op", <<<<1, 2>>>>), I("musttail", <<<<2, 1>>>>), I("ret", <<<<2, 2>>>>)>>,
               <<I("stackrestore", <<Arg>>), I("alloca", <<>>), I("store", <<Arg, <<3, 2>>>>),
                 I("ret", <<Arg>>)>>>>],
   [succ |-> <<<<2>>, <<3, 6>>, <<4, 5>>, <<5>>, <<6>>, <<2, 7>>, <<>>>>,
    code |-> <<<<I("br", <<>>)>>, <<I("load", <<>>), I("br", <<<<2, 1>>>>)>>, <<I("br", <<Arg>>)>>,
               <<I("call", <<Arg>>), I("br", <<>>)>>, <<I("br", <<>>)>>,
               <<[op |-> "phi", args |-> <<>>, from |-> (2 :> <<-1, 0>> @@ 5 :> <<-1, 1>>)],
                 I("load", <<>>), I("op", <<<<6, 2>>, <<6, 1>>>>), I("call", <<<<6, 3>>>>),
                 I("br", <<<<6, 3>>>>)>>,
               <<I("ret", <<>>)>>>>]}

MCFunctions ==
  Generated({"diamond", "while", "dead"}, {"load", "exit", "op"}, {"store", "call"})
    \cup Generated({"dowhile", "break"}, {"load"}, {"store", "call"})
    \cup Generated({"loopif"}, {"load", "call"}, {"store"})
    \cup Special

MCArguments == {<<0>>, <<1>>}
=============================================================================

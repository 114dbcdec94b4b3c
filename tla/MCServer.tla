------------------------------ MODULE MCServer ------------------------------
(* A small instance of Server: two funcs, three calls, any requests.       *)
EXTENDS Server, TLC

CONSTANTS k1, k2, a1, a2, b1, info

MCConn == {k1, k2}
MCFunc == {"a", "b"}
MCCall == {a1, a2, b1}
MCNameOf == [c \in MCCall |-> IF c = b1 THEN "b" ELSE "a"]
MCValue == {"v"}
MCWorkerInfo == {info}
MCFuncsOf == [i \in MCWorkerInfo |-> <<"a", "b">>]
MCInvalidated == {"b"}

MCSymmetry == Permutations(MCConn) \cup Permutations({a1, a2})
=============================================================================

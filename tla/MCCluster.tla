----------------------------- MODULE MCCluster ------------------------------
(* Two clients, a worker that may be killed and one that survives.         *)
EXTENDS Cluster

CONSTANTS k1, k2, w1, w2, a1, b1, infoA, infoAB

MCClient == {k1, k2}
MCWorker == {w1, w2}
MCConn == MCClient \cup MCWorker
MCFunc == {"a", "b"}
MCCall == {a1, b1}
MCNameOf == [c \in MCCall |-> IF c = b1 THEN "b" ELSE "a"]
MCValue == {"va", "vb"}
MCWorkerInfo == {infoA, infoAB}
MCFuncsOf == [i \in MCWorkerInfo |-> IF i = infoA THEN <<"a">> ELSE <<"a", "b">>]
MCWant == [k \in MCClient |-> IF k = k1 THEN a1 ELSE b1]
MCInfoOf == [w \in MCWorker |-> IF w = w1 THEN infoA ELSE infoAB]
MCResultOf == [c \in MCCall |-> IF c = a1 THEN "va" ELSE "vb"]
MCMortal == {w1}
=============================================================================

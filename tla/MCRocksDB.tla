----------------------------- MODULE MCRocksDB -----------------------------
(* Two threads, one head and one call whose argument may also be its result. *)
EXTENDS RocksDBStore, TLC

CONSTANTS t1, t2, h1, c1, f1, b1, b2, i1

MCNameOf == c1 :> f1
MCArgsOf == c1 :> {b1, i1}
MCLinksOf == b1 :> {} @@ b2 :> {b1, i1}
Threads == Permutations(Thread)

=============================================================================

---------------------------- MODULE MCThreadPool ----------------------------
(* Call a evaluates b; the main thread evaluates both. *)
EXTENDS ThreadPool, TLC

CONSTANTS w1, w2, a, b

MCSubCalls == a :> {b} @@ b :> {}

=============================================================================

------------------------------ MODULE MCClient ------------------------------
(* Call a evaluates b, b evaluates d. *)
EXTENDS ClientEvaluator, TLC

CONSTANTS w1, w2, a, b, d

MCSubCalls == [c \in Call |-> Call \cap CASE c = a -> {b} [] c = b -> {d} [] OTHER -> {}]

=============================================================================

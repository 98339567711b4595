----------------------------- MODULE MCRunLedger -----------------------------
(* A small instance of RunLedger: connections and events are               *)
(* interchangeable.                                                         *)
EXTENDS RunLedger, TLC

MCSymmetry == Permutations(Connections) \cup Permutations(Evidence)
=============================================================================

----------------------------- MODULE MCDependencies -----------------------------
(* Instances of Dependencies for TLC: every certificate with NumDerived        *)
(* derivations whose lin reasons cite at most two constraints and whose first  *)
(* derivation that is not in order ends the run.                               *)
EXTENDS Dependencies

Numbers == 0..(NumProblem + NumDerived - 1)

MCReasons ==
  {[type |-> t, indexes |-> <<>>] : t \in {"asm", "sol"}}
    \union {[type |-> "lin", indexes |-> <<a, b>>] : a, b \in Numbers}
    \union {[type |-> "rnd", indexes |-> <<a>>] : a \in Numbers}
    \union {[type |-> "uns", indexes |-> <<a, b, c, d>>] : a, b, c, d \in Numbers}
=============================================================================

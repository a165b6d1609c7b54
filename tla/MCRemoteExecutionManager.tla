----------------------- MODULE MCRemoteExecutionManager -----------------------
(* Instances of RemoteExecutionManager for TLC. *)
EXTENDS RemoteExecutionManager, TLC

CONSTANTS f1, f2, f3, f4

ThreeFiles == {f1, f2, f3}
FourFiles == {f1, f2, f3, f4}

\* The constructor's machines have one slot each.
OneSlotEach == [m \in Machine |-> 1]

\* A machine without slots beside one with two: what README's list allows.
UnevenSlots == [m \in Machine |-> IF m = 0 THEN 0 ELSE 2]

FileSymmetry == Permutations(Files)
=============================================================================

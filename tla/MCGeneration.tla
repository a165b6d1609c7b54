------------------------------ MODULE MCGeneration ------------------------------
(* Instances of Generation for TLC, with the evaluation behind it. *)
EXTENDS Checker

\* The block sizes a user may ask for, and none.
MCBlockArguments == {0, 2, 3, 7}
=============================================================================

---------------------------- MODULE EvaluationResult ----------------------------
(***************************************************************************)
(* What an evaluation promises, without machines, threads or processes:    *)
(* every SMT file of a certificate gets one answer, and the verdict is     *)
(* concluded from answers that have been given (Certificate::              *)
(* get_evaluation_result, read as a contract).                             *)
(***************************************************************************)
CONSTANT Files

VARIABLES answer,        \* answer[f]: what the solver said of file f
          verdict,       \* what main() prints: "OK", "ERR", or "none" yet
          expected       \* the answer the user asked for: TRUE is "sat"

vars == <<answer, verdict, expected>>

Init == /\ answer = [f \in Files |-> "open"]
        /\ verdict = "none"
        /\ expected \in BOOLEAN

Give(f) == /\ answer[f] = "open"
           /\ \E a \in {"sat", "notsat"} : answer' = [answer EXCEPT ![f] = a]
           /\ UNCHANGED <<verdict, expected>>

ConcludeSat == /\ verdict = "none"
               /\ \A f \in Files : answer[f] = "sat"
               /\ verdict' = IF expected THEN "OK" ELSE "ERR"
               /\ UNCHANGED <<answer, expected>>

\* One answer that is not "sat" is enough: the others may still be open.
ConcludeNotSat == /\ verdict = "none"
                  /\ \E f \in Files : answer[f] = "notsat"
                  /\ verdict' = IF expected THEN "ERR" ELSE "OK"
                  /\ UNCHANGED <<answer, expected>>

Next == (\E f \in Files : Give(f)) \/ ConcludeSat \/ ConcludeNotSat

Spec == Init /\ [][Next]_vars
=============================================================================

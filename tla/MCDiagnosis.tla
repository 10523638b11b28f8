---------------------------- MODULE MCDiagnosis ----------------------------
(* Small instances of Diagnosis for TLC. *)
EXTENDS Diagnosis

CONSTANTS f1, f2, t1, t2

TwoFlows == [t \in Thread |-> IF t = t1 THEN f1 ELSE f2]
=============================================================================

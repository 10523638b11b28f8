--------------------------- MODULE MCRemediation ---------------------------
(* Small instances of Remediation for TLC. *)
EXTENDS Remediation

CONSTANTS p1, p2, t1, t2, k1, k2

OneEach == [t \in Thread |-> IF t = t1 THEN p1 ELSE p2]

Restart1 == [failure |-> k1, confidence |-> 2, cat |-> "INFRA", denied |-> FALSE,
             match |-> "restart", safe |-> TRUE]
Rerun2 == [Restart1 EXCEPT !.failure = k2, !.match = "rerun", !.safe = FALSE]
Transient == [Restart1 EXCEPT !.confidence = 1, !.cat = "TRANSIENT"]
Config == [Restart1 EXCEPT !.confidence = 1, !.cat = "CONFIG"]
Cases == {Restart1, Rerun2, Transient, Config}
SecondDay == {2}
=============================================================================

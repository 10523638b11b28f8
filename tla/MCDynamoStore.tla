--------------------------- MODULE MCDynamoStore ---------------------------
(* A small instance of DynamoStore for TLC. *)
EXTENDS DynamoStore, TLC

CONSTANTS t1, t2, f1, f2, s1

Plain == [entity |-> "report", flow |-> f1, sig |-> None, sev |-> None,
          type |-> None, status |-> None, payload |-> None, count |-> 0, at |-> 0]
Report == [Plain EXCEPT !.sig = s1, !.sev = "error"]
Warning == [Plain EXCEPT !.sev = "warning"]
Attempt == [Plain EXCEPT !.entity = "action", !.type = "diagnosis", !.status = "sent"]
Elsewhere == [Attempt EXCEPT !.flow = f2, !.status = "degraded"]
Decision == [Plain EXCEPT !.entity = "decision"]
Diagnosis == [Plain EXCEPT !.entity = "diagnosis", !.flow = None, !.payload = "cost"]
Pattern == [Plain EXCEPT !.entity = "known_pattern", !.flow = None, !.payload = s1]
Fix == [Pattern EXCEPT !.entity = "fix_attempt"]
Remediation == [Plain EXCEPT !.entity = "remediation_action", !.flow = None]

EachEntity == {Report, Attempt, Elsewhere, Decision, Diagnosis, Pattern, Fix,
               Remediation}
Reports == {Report, Warning}
ThreadSymmetry == Permutations(Thread)
=============================================================================

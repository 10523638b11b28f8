----------------------------- MODULE LogPromise -----------------------------
(***************************************************************************)
(* What FlowDoctorHandler promises of the log records it takes in: they    *)
(* are reported in the order they were taken, none is skipped and none is  *)
(* reported twice, until it is closed; a record taken before the close is  *)
(* still reported.  Records are counted, not named.                        *)
(***************************************************************************)
EXTENDS Naturals

CONSTANTS Open     \* not a number: the handler has not been closed

VARIABLES taken,     \* records taken in so far
          reported,  \* records reported so far: the first ones taken
          sealed     \* Open, or the number taken before the close

lvars == <<taken, reported, sealed>>

LInit == taken = 0 /\ reported = 0 /\ sealed = Open

Take == taken' = taken + 1 /\ UNCHANGED <<reported, sealed>>

\* The last record that will be reported.
End == IF sealed = Open THEN taken ELSE sealed

ReportNext ==
  /\ reported < End
  /\ reported' = reported + 1
  /\ UNCHANGED <<taken, sealed>>

Seal == sealed = Open /\ sealed' = taken /\ UNCHANGED <<taken, reported>>

LNext == Take \/ ReportNext \/ Seal

LSpec == LInit /\ [][LNext]_lvars
=============================================================================

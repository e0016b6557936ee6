------------------------------- MODULE MCDlq -------------------------------
(* Instances of Dlq for TLC.                                               *)
EXTENDS Dlq

CONSTANTS f1, f2, f3, e1, e2

\* The event of f1 and f2 failed twice; f3 is the failure of another one.
MCEventOf == [f \in Failures |-> IF f = f3 THEN e2 ELSE e1]

=============================================================================

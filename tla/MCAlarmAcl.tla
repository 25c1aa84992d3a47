----------------------------- MODULE MCAlarmAcl -----------------------------
(***************************************************************************)
(* Instances of AlarmAcl for TLC; the other constants are in the .cfg files. *)
(***************************************************************************)
EXTENDS AlarmAcl

\* Alarm 0 is reported after one more pass, every other at once.
OneDelay == [k \in 0..(N - 1) |-> IF k = 0 THEN 1 ELSE 0]
=============================================================================

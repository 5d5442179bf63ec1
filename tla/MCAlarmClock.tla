---------------------------- MODULE MCAlarmClock ----------------------------
(* Instances of AlarmClock for TLC.  The constants are numbers given in    *)
(* the configurations: one with a rich clock and a trivial calendar, one   *)
(* with a rich calendar and a trivial clock.                               *)
EXTENDS AlarmClock

=============================================================================

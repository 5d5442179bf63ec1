--------------------------- MODULE MCAlarmSystem ----------------------------
(* The clock of two ticks, the calendar of one minute, and two timers of   *)
(* one channel each: exactly what the program needs.                       *)
EXTENDS AlarmSystem

=============================================================================

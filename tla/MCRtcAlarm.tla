----------------------------- MODULE MCRtcAlarm -----------------------------
(* Alarms of every mode, at values on both sides of each BCD and mask bit  *)
(* boundary.                                                               *)
EXTENDS RtcAlarm

Times == [second : {0, 59}, minute : {9, 48}, hour : {7, 19}, date : {5, 16}, day : {5}]

Made(a, mode, d, h, m, s) ==
  [alarm |-> a, mode |-> mode, dydw |-> d, hour |-> h, minute |-> m, second |-> s]

FewSettings ==
  {Made(1, mode, 5, 19, 48, 59) : mode \in Mode} \cup
  {Made(2, mode, 16, 7, 9, 0) : mode \in Mode \ {"EVERY", "MATCH_DY"}} \cup
  {Made(2, "MATCH_DY", 5, 7, 48, 0)}

\* What the sketch sets: Alarm 2 at an hour and a minute.
FewPlain == {Made(2, "MATCH_H_M", 16, 7, 9, 0)}
=============================================================================

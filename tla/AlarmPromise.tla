---------------------------- MODULE AlarmPromise ----------------------------
(***************************************************************************)
(* What the alarm clock promises to the person in the bed, without         *)
(* threads, buttons or counters: an alarm that falls due stays due until   *)
(* it rings or the person stores another one; ringing grows into watering  *)
(* and into messages only after it has lasted; watering and sending never  *)
(* overlap; and a reset keeps the alarm and what is due.  Time here is the *)
(* true time, not what a wrapping counter makes of it.                     *)
(***************************************************************************)
EXTENDS Integers

CONSTANTS
  Setting,      \* what can be stored as an alarm
  Never,        \* the setting that is never due
  WaterAfter,   \* ticks a ring lasts before it waters
  NotifyAfter   \* ticks a ring lasts before it reports; ages count to here

VARIABLES
  phase,        \* what the clock is doing
  setting,      \* the stored alarm
  due,          \* the alarm has come and has not been served
  age           \* how long the ring has lasted

vars == <<phase, setting, due, age>>

Alarming == {"Ringing", "Watering", "Reporting"}

Init ==
  /\ phase = "Idle"
  /\ setting \in Setting
  /\ due \in BOOLEAN
  /\ age = 0

\* The stored time comes.
ComeDue ==
  /\ setting # Never
  /\ due' = TRUE
  /\ UNCHANGED <<phase, setting, age>>

\* A due alarm rings, once.
StartRinging ==
  /\ phase = "Idle" /\ due
  /\ phase' = "Ringing"
  /\ due' = FALSE
  /\ age' = 0
  /\ UNCHANGED setting

Ageing ==
  /\ phase \in Alarming
  /\ age' \in {age, age + 1}
  /\ age' <= NotifyAfter
  /\ UNCHANGED <<phase, setting, due>>

Water ==
  /\ phase = "Ringing" /\ age >= WaterAfter
  /\ phase' = "Watering"
  /\ UNCHANGED <<setting, due, age>>

Report ==
  /\ phase = "Ringing" /\ age >= NotifyAfter
  /\ phase' = "Reporting"
  /\ UNCHANGED <<setting, due, age>>

\* Watering and reporting fall back to ringing, never to each other.
KeepRinging ==
  /\ phase \in {"Watering", "Reporting"}
  /\ phase' = "Ringing"
  /\ UNCHANGED <<setting, due, age>>

Dismiss ==
  /\ phase = "Ringing"
  /\ phase' = "Idle"
  /\ age' = 0
  /\ UNCHANGED <<setting, due>>

BeginEdit ==
  /\ phase = "Idle"
  /\ phase' = "Editing"
  /\ UNCHANGED <<setting, due, age>>

\* Storing an alarm takes effect first and forgets what was due next.
Store ==
  /\ phase = "Editing"
  /\ setting' \in Setting \ {Never}
  /\ phase' = "Storing"
  /\ UNCHANGED <<due, age>>

Forget ==
  /\ phase = "Storing"
  /\ due' = FALSE
  /\ phase' = "Editing"
  /\ UNCHANGED <<setting, age>>

EndEdit ==
  /\ phase = "Editing"
  /\ phase' = "Idle"
  /\ UNCHANGED <<setting, due, age>>

Restart ==
  /\ phase' = "Idle"
  /\ age' = 0
  /\ UNCHANGED <<setting, due>>

Next ==
  \/ ComeDue \/ StartRinging \/ Ageing \/ Water \/ Report \/ KeepRinging \/ Dismiss
  \/ BeginEdit \/ Store \/ Forget \/ EndEdit \/ Restart

Spec == Init /\ [][Next]_vars

=============================================================================

----------------------------- MODULE RtcPromise ------------------------------
(***************************************************************************)
(* The two alarms of the clock as a program would have them, without bytes,*)
(* registers and bus transfers: each call takes effect at one moment, an   *)
(* alarm rings at the times it is set for, and a flag goes down only when  *)
(* a call takes it down.  The promise has one gap: what rings while a call *)
(* holds its copy of the status register may go down with it.              *)
(***************************************************************************)
CONSTANTS
  Alarm,
  Settings,  \* what each alarm can be set to
  Unknown,   \* not set, or no longer as it was set
  Time,
  Due        \* the times each setting stands for

VARIABLES
  setting,   \* what each alarm is set to
  ringing,   \* the alarms whose flags are up
  busy,      \* a call is running
  clearing,  \* the alarm whose flag the running call takes down, 0 for none
  answer,    \* what the running call will say to `isAlarm?'
  recent     \* alarms that rang while the running call held its copy

vars == <<setting, ringing, busy, clearing, answer, recent>>

Init ==
  /\ setting = [a \in Alarm |-> Unknown]
  /\ ringing = {} /\ busy = FALSE /\ clearing = 0 /\ answer = FALSE /\ recent = {}

Start(a, says) == ~busy /\ busy' = TRUE /\ clearing' = a /\ answer' = says

\* What rang for the old setting is taken down before the call returns.
Set(a) ==
  /\ Start(a, FALSE)
  /\ \E s \in Settings[a] : setting' = [setting EXCEPT ![a] = s]
  /\ UNCHANGED <<ringing, recent>>

Clear(a) == Start(a, FALSE) /\ UNCHANGED <<setting, ringing, recent>>

\* Calls that are not about an alarm's flag.
Other == Start(0, FALSE) /\ UNCHANGED <<setting, ringing, recent>>

\* The answer is yes for an alarm that rang, and no for one that did not.
SayYes(a) ==
  /\ a \in ringing
  /\ \E c \in {0, a} : Start(c, TRUE)
  /\ UNCHANGED <<setting, ringing, recent>>

SayNo(a) ==
  /\ ~busy /\ a \notin ringing
  /\ answer' = FALSE
  /\ UNCHANGED <<setting, ringing, busy, clearing, recent>>

\* The moment of a call that takes a flag down; yes is said after it.
TakeDown ==
  /\ busy
  /\ \E lost \in SUBSET recent : ringing' = (ringing \ {clearing}) \ lost
  /\ clearing' = 0 /\ recent' = {} /\ busy' = answer
  /\ UNCHANGED <<setting, answer>>

\* A call that has no flag to take down goes on, or returns.
GoOn == busy /\ recent' = {} /\ UNCHANGED <<setting, ringing, busy, clearing, answer>>

Finish ==
  /\ busy /\ clearing = 0
  /\ busy' = FALSE /\ answer' = FALSE /\ recent' \in {recent, {}}
  /\ UNCHANGED <<setting, ringing, clearing>>

\* An alarm that was never set, or lost its setting, may ring at any time.
Ring(t) ==
  \E rings \in SUBSET Alarm :
    /\ \A a \in Alarm : setting[a] # Unknown => (a \in rings <=> t \in Due[setting[a]])
    /\ ringing' = ringing \cup rings
    /\ recent' = recent \/ (busy /\ recent' = recent \cup rings)
    /\ UNCHANGED <<setting, busy, clearing, answer>>

Forget(a) ==
  /\ ~busy
  /\ setting' = [setting EXCEPT ![a] = Unknown]
  /\ UNCHANGED <<ringing, busy, clearing, answer, recent>>

\* The program starts again, with a call that sets the clock up.
Restart ==
  /\ busy' = TRUE /\ clearing' = 0 /\ answer' = FALSE /\ recent' = {}
  /\ UNCHANGED <<setting, ringing>>

Next ==
  \/ \E a \in Alarm : Set(a) \/ Clear(a) \/ SayYes(a) \/ SayNo(a) \/ Forget(a)
  \/ Other \/ TakeDown \/ GoOn \/ Finish \/ Restart
  \/ \E t \in Time : Ring(t)

Spec == Init /\ [][Next]_vars

=============================================================================

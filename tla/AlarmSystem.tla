---------------------------- MODULE AlarmSystem -----------------------------
(***************************************************************************)
(* The sketch together with the PWM library it drives the buzzer and the   *)
(* relay with: the program of AlarmClock, each of whose steps that calls   *)
(* tone(), noTone() or analogWrite() is followed by the calls of           *)
(* PwmTimers, one by one.  Nothing of the program runs before they have    *)
(* returned, and none returns that finds no channel; time, the chip, the   *)
(* buttons and resets go on meanwhile.                                     *)
(***************************************************************************)
EXTENDS AlarmClock, Sequences

CONSTANTS NumTimers, SlotsPerTimer, SlotsPerGroup

\* The buzzer and the relay have different frequencies, and need a timer each.
ASSUME SystemAssumption ==
  /\ NumTimers \in Nat \ {0, 1}
  /\ SlotsPerTimer \in Nat \ {0} /\ SlotsPerGroup \in Nat \ {0}

VARIABLES
  calls,  \* the calls of the library that the running step still has to make
  ChannelUsed, timerFreqSet, timerCount, PWMCount, explicateAllocationMode, ledc, halted, asked

Buzz == "pin_Buzz"
Relay == "pin_Relay"
BuzzFreq == 835
RelayDrive == 140

Pwm == INSTANCE PwmTimers WITH
         TonePin <- {Buzz}, WritePin <- {Relay}, ServoPin <- {},
         ServoUse <- [p \in {} |-> {}],
         ToneFreq <- [p \in {Buzz} |-> {BuzzFreq}], Level <- {RelayDrive}

library == <<ChannelUsed, timerFreqSet, timerCount, PWMCount, explicateAllocationMode, ledc,
             halted, asked>>
sysVars == <<vars, calls, library>>

SysInit == Init /\ calls = <<>> /\ Pwm!Init

-----------------------------------------------------------------------------

\* The calls a step of the program makes.  A turn of the relay is written to
\* the pin again and again.
CallsOf(p, q) ==
  CASE p = "sprPoll" /\ q = "ring" -> <<"tone">>
    [] p \in WaterPcs /\ q \in {"water", "pause"} -> <<"drive">>
    [] p \in PausePcs /\ q \in {"pause", "notifyCheck"} -> <<"low">>
    [] p = "ringEnd" -> <<"noTone", "low">>
    [] OTHER -> <<>>

Run(A) ==
  /\ calls = <<>> /\ halted = 0
  /\ A
  /\ calls' = CallsOf(pc, pc')
  /\ UNCHANGED library

Step == Run(Program)

\* The library runs a call to its end, or halts the processor.
LibraryCall ==
  /\ calls # <<>> /\ halted = 0
  /\ calls' = Tail(calls)
  /\ CASE Head(calls) = "tone" -> Pwm!Tone(Buzz, BuzzFreq)
       [] Head(calls) = "noTone" -> Pwm!NoTone(Buzz)
       [] Head(calls) = "drive" -> Pwm!WriteWave(Relay, RelayDrive)
       [] Head(calls) = "low" -> Pwm!WriteDigital(Relay, Pwm!Low)
  /\ UNCHANGED vars

\* The world goes on; a reset empties the tables and lets all pins go.
SysReset ==
  /\ Reset
  /\ calls' = <<>>
  /\ Pwm!Restart

Outside(A) == A /\ UNCHANGED <<calls, library>>

World == Outside(Tick \/ RtcMinute \/ \E b \in Button : Press(b) \/ Release(b))

SysNext == Step \/ LibraryCall \/ World \/ SysReset

SysSpec == SysInit /\ [][SysNext]_sysVars

(* The processor never stops and millis() keeps counting.  A busy-wait on  *)
(* a held button samples the pin in microseconds, so it sees the release   *)
(* even if the button is pressed again: strong fairness.  A refresh takes  *)
(* tens of milliseconds, so one of them ends outside the last UIPeriod of  *)
(* the counter: strong fairness again.  A person lets an Add button go in  *)
(* the end.                                                                *)
SysFairSpec ==
  /\ SysSpec
  /\ WF_sysVars(Step \/ LibraryCall)
  /\ SF_sysVars(Run(Holding))
  /\ SF_sysVars(Run(UIYield))
  /\ WF_sysVars(Outside(Tick))
  /\ \A b \in {"AddHour", "AddMinute"} : WF_sysVars(Outside(Release(b)))

-----------------------------------------------------------------------------
(* Properties.                                                             *)

Heard == \E c \in Pwm!ChannelsOf(Buzz) : Pwm!Sounds(c, BuzzFreq)
Driven == \E c \in Pwm!ChannelsOf(Relay) : Pwm!Waves(c, RelayDrive)

(* What the pins put out is what the sketch asked for, at each point where *)
(* no call is under way and for as many turns of the relay as one likes:   *)
(* the buzzer is heard exactly during a ring, the relay is driven exactly  *)
(* in its turns, no other channel is held, and the library never halts the *)
(* processor of a program that needs two of its channels.                  *)
OutputsFollow ==
  /\ halted = 0
  /\ calls = <<>> => /\ Heard <=> buzzer
                     /\ Driven <=> relay
                     /\ Pwm!Attached(Buzz) <=> buzzer
                     /\ Pwm!Attached(Relay) <=> relay

(* The relay's pin does not stay driven: not through a long round, not     *)
(* through an Add button held in the middle of one, not through the        *)
(* library's tables and hardware timers.                                   *)
PumpStops == Driven ~> ~Pwm!Attached(Relay)

=============================================================================

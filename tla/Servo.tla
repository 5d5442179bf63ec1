------------------------------- MODULE Servo --------------------------------
(***************************************************************************)
(* The class Servo on the channels of PwmTimers.  A Servo keeps the        *)
(* frequency and the resolution it attaches with; changing one of them     *)
(* gives the channel back and takes another, while the pin stays the same. *)
(* Pulse widths and the conversion to ticks are left out: a pulse is one   *)
(* of Level, and right at the resolution it was written for.               *)
(***************************************************************************)
EXTENDS PwmTimers

VARIABLES
  servo,     \* the frequency and timer width of each Servo object
  reattach,  \* the Servo that has given its channel back and takes another
  told       \* history: the frequency the caller set each Servo to, the width
             \* it has set since attach() took the Servo back to the default, or
             \* 0, and the pulse it has written since the last set-up, or Stale

servoVars == <<vars, servo, reattach, told>>

None == "none"
DefaultBits == 16
Default == [freq |-> 50, bits |-> DefaultBits]

ASSUME DefaultAssumption ==
  \A p \in ServoPin :
    /\ p # None /\ Default \in ServoUse[p]
    /\ \A u \in ServoUse[p] : [u EXCEPT !.bits = DefaultBits] \in ServoUse[p]

\* Nothing set yet.
Untold == [freq |-> Default.freq, bits |-> 0, pulse |-> Stale]

ServoInit ==
  /\ Init /\ reattach = None
  /\ servo = [p \in ServoPin |-> Default]
  /\ told = [p \in ServoPin |-> Untold]

-----------------------------------------------------------------------------

\* attachPin(pin, frequency, resolution).  An attached pin keeps its channel
\* and sets the hardware timer up again; a new one starts with the duty that
\* was last written to the channel it gets.
AttachPin(p, u) ==
  IF Attached(p)
    THEN /\ ledc' = [ledc EXCEPT ![LedcOf(ChannelOf(p))] = u]
         /\ UNCHANGED <<books, halted, asked>>
    ELSE IF Fits(u.freq) = {}
           THEN Halt(u.freq)
           ELSE Allocate(p, u.freq, u.bits, Stale) /\ Asks(p, Attach(u))

\* attach() takes a Servo that is not attached back to the default width, and
\* writes no pulse.
ServoAttach(p) ==
  LET u == IF Attached(p) THEN servo[p] ELSE [servo[p] EXCEPT !.bits = DefaultBits]
  IN  /\ AttachPin(p, u)
      /\ servo' = [servo EXCEPT ![p] = u]
      /\ told' = IF Attached(p) THEN told
                  ELSE [told EXCEPT ![p] = [freq |-> @.freq, bits |-> 0, pulse |-> Stale]]
      /\ UNCHANGED reattach

ServoDetach(p) ==
  /\ IF Attached(p) THEN Deallocate(ChannelOf(p)) ELSE UNCHANGED <<books, ledc, halted>>
  /\ Asks(p, Low)
  /\ UNCHANGED <<servo, reattach, told>>

\* write(), writeMicroseconds(): nothing happens on a Servo without a channel.
ServoWrite(p, v) ==
  /\ IF Attached(p)
       THEN /\ ChannelUsed' = [ChannelUsed EXCEPT ![ChannelOf(p)].duty = v]
            /\ Asks(p, Pulse(servo[p], v))
            /\ told' = [told EXCEPT ![p].pulse = v]
       ELSE UNCHANGED <<ChannelUsed, asked, told>>
  /\ UNCHANGED <<timerFreqSet, timerCount, PWMCount, explicateAllocationMode, ledc, halted,
                 servo, reattach>>

\* The end of both setTimerWidth() and setPeriodHertz(): an attached Servo is
\* detached ...
SetTimer(p, u) ==
  /\ servo' = [servo EXCEPT ![p] = u]
  /\ IF Attached(p)
       THEN Deallocate(ChannelOf(p)) /\ Asks(p, Low) /\ reattach' = p
       ELSE UNCHANGED <<vars, reattach>>

\* ... and attached again, and its pulse is not written again.
Reattach ==
  /\ reattach # None
  /\ AttachPin(reattach, servo[reattach])
  /\ reattach' = None
  /\ UNCHANGED <<servo, told>>

SetTimerWidth(p, u) ==
  /\ u.freq = servo[p].freq
  /\ SetTimer(p, u)
  /\ told' = [told EXCEPT ![p] = [freq |-> @.freq, bits |-> u.bits, pulse |-> Stale]]

SetPeriodHertz(p, u) ==
  /\ u.bits = servo[p].bits
  /\ SetTimer(p, u)
  /\ told' = [told EXCEPT ![p] = [freq |-> u.freq, bits |-> @.bits, pulse |-> Stale]]

ServoRestart ==
  /\ Restart /\ reattach' = None
  /\ servo' = [p \in ServoPin |-> Default]
  /\ told' = [p \in ServoPin |-> Untold]

ServoCall ==
  \E p \in ServoPin :
    \/ ServoAttach(p) \/ ServoDetach(p)
    \/ \E v \in Level : ServoWrite(p, v)
    \/ \E u \in ServoUse[p] : SetTimerWidth(p, u) \/ SetPeriodHertz(p, u)

ServoNext ==
  \/ halted = 0 /\ reattach = None /\ Call /\ UNCHANGED <<servo, reattach, told>>
  \/ halted = 0 /\ reattach = None /\ ServoCall
  \/ halted = 0 /\ Reattach
  \/ Halted /\ UNCHANGED <<servo, reattach, told>>
  \/ ServoRestart

ServoSpec == ServoInit /\ [][ServoNext]_servoVars

-----------------------------------------------------------------------------
(* Properties.                                                             *)

\* The width the caller has set since attach(), which resets one set before.
Width(p) == IF told[p].bits = 0 THEN DefaultBits ELSE told[p].bits

(* Pins do not disturb each other: whatever was started and stopped on the *)
(* others, a pin puts out what it was last told.  The buzzer's tone stays  *)
(* through all the turns of the relay, and the relay's drive is the one    *)
(* that was written.  A Servo keeps the frequency, the width and the pulse *)
(* its caller set, but for two things the library takes back: attach()     *)
(* resets the width that was set before it, and neither it nor             *)
(* setTimerWidth() nor setPeriodHertz() writes the pulse again (ESP32Servo *)
(* says otherwise of both, .cpp:114 and .h:60).  Only pins that are used   *)
(* with one frequency at different resolutions can take each other's       *)
(* resolution, and with it the width of the pulses, never the frequency.   *)
Honoured ==
  /\ PinsHonoured
  /\ \A p \in ServoPin :
       IF asked[p] \in {Low, High}
         THEN ~Attached(p)
         ELSE \E c \in ChannelsOf(p) :
                /\ PutsOut(c, told[p].freq, Width(p))
                /\ told[p].pulse # Stale => ChannelUsed[c].duty = told[p].pulse

=============================================================================

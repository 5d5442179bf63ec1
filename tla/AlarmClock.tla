----------------------------- MODULE AlarmClock -----------------------------
(***************************************************************************)
(* The Sprinklers alarm clock: the sketch main.cpp with the button reader, *)
(* the edited date and the alarm display it is built on, running against a *)
(* DS3231 clock chip and a person who presses buttons.                     *)
(*                                                                         *)
(* One microcontroller runs one thread.  setup() is followed by loop(),    *)
(* which calls three protothreads in turn: ptUIDisplay, ptIO, ptSprinklers.*)
(* A protothread gives the processor back only at its PT_WAIT_UNTIL; the   *)
(* edit loop and the ring loop never do, so the whole program is a single  *)
(* program counter.  Around it move three things nobody synchronises with  *)
(* it: the millis() counter, the chip's own clock, and the buttons.        *)
(*                                                                         *)
(* Between any two steps the environment may do anything any number of     *)
(* times, which covers every delay() of the code without giving delays a   *)
(* length.                                                                 *)
(***************************************************************************)
EXTENDS Millis, FiniteSets

CONSTANTS
  UIPeriod,        \* ticks between two refreshes of the time page (1000 ms)
  WaterAfter,      \* ticks of ringing before the relay is used (10 s)
  NotifyAfter,     \* ticks of ringing before LINE messages are sent (20 s)
  WaterLoops,      \* iterations of the relay-on loop (400)
  PauseLoops,      \* iterations of the relay-off loop (200)
  HoursPerDay,     \* 24
  MinutesPerHour,  \* 60
  MonthDays,       \* the last day of the month the chip counts to
  Byte,            \* the modulus of the uint8_t fields of a date (256)
  MaxHeld,         \* bound: buttons held down at once
  MaxResets        \* bound: resets and crashes of the microcontroller

ASSUME TimingAssumption ==
  /\ UIPeriod \in 1 .. Wrap - 1
  /\ NotifyAfter \in 1 .. Wrap - 1
  /\ WaterAfter \in 1 .. NotifyAfter
  /\ WaterLoops \in Nat \ {0}
  /\ PauseLoops \in Nat \ {0}

ASSUME CalendarAssumption ==
  /\ HoursPerDay \in Nat \ {0}
  /\ MinutesPerHour \in Nat \ {0}
  /\ MonthDays \in Nat \ {0}
  /\ Byte \in Nat
  /\ HoursPerDay < Byte /\ MinutesPerHour < Byte /\ MonthDays < Byte

ASSUME BoundAssumption == MaxHeld \in Nat /\ MaxResets \in Nat

VARIABLES
  pc,         \* where the microcontroller is
  pressed,    \* the set of buttons held down
  throwEdit,  \* the local of the edit loop and of the ring loop
  date,       \* TimeSystemData.data: the time last read, or being edited
  screen,     \* what the LCD shows: a page, and the date printed on it
  backlight,  \* the LCD backlight
  buzzer,     \* tone() is playing on pin_Buzz
  relay,      \* the water relay on pin_Relay is driven
  loopIndex,  \* i of the two for loops of ptSprinklers
  now,        \* millis()
  uiLastTime,     \* the static lastTime of ptUIDisplay
  alarmLastTime,  \* the static lastTime of ptSprinklers
  rtc,        \* the chip: its time of day
  alarm2,     \* the chip: the Alarm 2 registers
  a2f,        \* the chip: the Alarm 2 flag, set when the time matches
  rung,       \* history: true ticks of this ring, counted to NotifyAfter
  resets      \* history: resets so far

outputs == <<screen, backlight, buzzer, relay>>
locals == <<throwEdit, loopIndex>>
statics == <<date, uiLastTime, alarmLastTime>>
chip == <<rtc, alarm2, a2f>>
world == <<chip, pressed, now, rung, resets>>
program == <<pc, outputs, locals, statics>>
vars == <<program, world>>

-----------------------------------------------------------------------------
(* Data.                                                                   *)

Button == {"Edit", "AddHour", "AddMinute", "Confirm"}
Throw == {"None", "AddHour", "AddMin", "Exit", "Confirm"}
Stop == {"Exit", "Confirm"}

ByteValue == 0 .. Byte - 1
Date == [day : ByteValue, hour : ByteValue, minute : ByteValue]

\* The chip keeps a valid time of day.  The month and the year play no part.
RtcTime == [day : 1 .. MonthDays, hour : 0 .. HoursPerDay - 1,
            minute : 0 .. MinutesPerHour - 1]

\* Alarm 2 compares hours and minutes (DS3231_MATCH_H_M).  NoAlarm stands for
\* register contents that no time matches, such as the chip's power-on zeros.
TimeOfDay == [hour : ByteValue, minute : ByteValue]
NoAlarm == [hour |-> -1, minute |-> -1]
RingableTime == [hour : 0 .. HoursPerDay - 1, minute : 0 .. MinutesPerHour - 1]

Page == {"blank", "time", "edit"}
ZeroDate == [day |-> 0, hour |-> 0, minute |-> 0]

EditPcs == {"editOpen", "edit", "editHold", "editWrite", "editClear", "editLeave"}
WaterPcs == {"water", "waterHold"}
PausePcs == {"pause", "pauseHold"}
RingPcs == {"ring", "ringHold", "ringCheck"} \cup WaterPcs \cup PausePcs
             \cup {"notifyCheck", "notify", "ringEnd"}
IdlePcs == {"setup", "uiRefresh", "uiWait", "ioPoll", "sprPoll"}

Ringing == pc \in RingPcs
Editing == pc \in EditPcs

\* Slip: the hours are normalised before the minutes carry into them.
HoursFirst(d) ==
  LET h == IF d.hour >= HoursPerDay
             THEN [d EXCEPT !.day = (@ + 1) % Byte, !.hour = @ - HoursPerDay]
             ELSE d
  IN  IF h.minute >= MinutesPerHour
        THEN [h EXCEPT !.hour = (@ + 1) % Byte, !.minute = @ - MinutesPerHour]
        ELSE h

\* __checkTimeFormat: minutes carry into hours first, then hours into days.
CheckTimeFormat(d) ==
  LET m == IF d.minute >= MinutesPerHour
             THEN [d EXCEPT !.hour = (@ + 1) % Byte, !.minute = @ - MinutesPerHour]
             ELSE d
  IN  IF m.hour >= HoursPerDay
        THEN [m EXCEPT !.day = (@ + 1) % Byte, !.hour = @ - HoursPerDay]
        ELSE m

AddHour(d) == CheckTimeFormat([d EXCEPT !.hour = (@ + 1) % Byte])
AddMinute(d) == CheckTimeFormat([d EXCEPT !.minute = (@ + 1) % Byte])

\* Slip: every pass starts from no button.
ForgetfulScan(old) ==
  CASE "Edit" \in pressed -> "Exit"
    [] "Edit" \notin pressed /\ "AddHour" \in pressed -> "AddHour"
    [] pressed \cap {"Edit", "AddHour"} = {} /\ "AddMinute" \in pressed -> "AddMin"
    [] pressed = {"Confirm"} -> "Confirm"
    [] OTHER -> "None"

\* One pass of runEditAlarmMode over the four pins, in the order it reads
\* them; `old' is what the caller's variable holds when no button is down.
Scan(old) ==
  CASE "Edit" \in pressed -> "Exit"
    [] "Edit" \notin pressed /\ "AddHour" \in pressed -> "AddHour"
    [] pressed \cap {"Edit", "AddHour"} = {} /\ "AddMinute" \in pressed -> "AddMin"
    [] pressed = {"Confirm"} -> "Confirm"
    [] OTHER -> old

\* The pass busy-waits while the Add button that it found down stays down.
ScanHolds == "Edit" \notin pressed /\ pressed \cap {"AddHour", "AddMinute"} # {}
HeldReleased ==
  \/ throwEdit = "AddHour" /\ "AddHour" \notin pressed
  \/ throwEdit = "AddMin" /\ "AddMinute" \notin pressed

\* Slip: the test of ptUIDisplay used for the ring, which a wrap defeats.
WaterDueBySum == now >= Plus(alarmLastTime, WaterAfter)

WaterDue == Elapsed(alarmLastTime, now) >= WaterAfter
NotifyDue == Elapsed(alarmLastTime, now) >= NotifyAfter

Show(page, d) == [page |-> page, date |-> d]

-----------------------------------------------------------------------------
(* Start: the microcontroller is about to run setup(), the chip has been   *)
(* counting on its battery with whatever alarm it was last given.          *)

Init ==
  /\ pc = "setup"
  /\ pressed = {}
  /\ throwEdit = "None"
  /\ date = ZeroDate
  /\ screen = Show("blank", ZeroDate)
  /\ backlight \in BOOLEAN
  /\ buzzer = FALSE
  /\ relay = FALSE
  /\ loopIndex = 0
  /\ now = 0 /\ uiLastTime = 0 /\ alarmLastTime = 0
  /\ rtc \in RtcTime
  /\ alarm2 \in {NoAlarm} \cup RingableTime
  /\ a2f \in BOOLEAN
  /\ rung = 0
  /\ resets = 0

-----------------------------------------------------------------------------
\* A step that does nothing but go on.
Goto(p) == pc' = p /\ UNCHANGED <<outputs, locals, statics, world>>

(* setup().  lcd.init() clears the screen; the WiFi loop ends when the     *)
(* station is connected or after WIFI_TIMEOUT, in both cases here.         *)

Setup ==
  /\ pc = "setup"
  /\ screen' = Show("blank", ZeroDate)
  /\ backlight' = TRUE
  /\ pc' = "uiRefresh"
  /\ UNCHANGED <<locals, statics, buzzer, relay, world>>

-----------------------------------------------------------------------------
(* ptUIDisplay.                                                            *)

\* The condition of the PT_WAIT_UNTIL of main.cpp:77, last the time of the
\* last refresh.  The sum is unsigned and may wrap.
UIDue(last) == now >= Plus(last, UIPeriod)

\* A refresh, after which the wait condition is tried at once.  It holds at
\* once only when the sum wraps: then the page is drawn over and over, and
\* nothing else runs, until the counter has wrapped too.
UIRefresh ==
  /\ pc = "uiRefresh"
  /\ date' = rtc
  /\ screen' = Show("time", rtc)
  /\ uiLastTime' = now
  /\ pc' = IF UIDue(now) THEN "uiRefresh" ELSE "ioPoll"
  /\ UNCHANGED <<locals, backlight, buzzer, relay, alarmLastTime, world>>

UIWait ==
  /\ pc = "uiWait"
  /\ Goto(IF UIDue(uiLastTime) THEN "uiRefresh" ELSE "ioPoll")

-----------------------------------------------------------------------------
(* ptIO: the edit mode.                                                    *)

\* Slip: a busy-wait for the button in place of PT_WAIT_UNTIL.
IOBusyWait ==
  /\ pc = "ioPoll"
  /\ Goto(IF "Edit" \in pressed THEN "editOpen" ELSE "ioPoll")

\* PT_WAIT_UNTIL(isClickedEditBtn()): one look at the Edit button.
IOPoll ==
  /\ pc = "ioPoll"
  /\ Goto(IF "Edit" \in pressed THEN "editOpen" ELSE "sprPoll")

EditOpen ==
  /\ pc = "editOpen"
  /\ screen' = Show("edit", date)
  /\ throwEdit' = "None"
  /\ pc' = "edit"
  /\ UNCHANGED <<statics, backlight, buzzer, relay, loopIndex, world>>

\* One turn of the edit loop up to the reading of the buttons.
EditScan ==
  /\ pc = "edit"
  /\ throwEdit' = Scan("None")
  /\ pc' = CASE throwEdit' = "Exit" -> "editLeave"
             [] throwEdit' = "Confirm" -> "editWrite"
             [] throwEdit' = "None" -> "edit"
             [] OTHER -> "editHold"
  /\ UNCHANGED <<statics, outputs, loopIndex, world>>

\* Slip: an added minute is not displayed.
EditAddUnseen ==
  /\ pc = "editHold"
  /\ HeldReleased
  /\ date' = IF throwEdit = "AddHour" THEN AddHour(date) ELSE AddMinute(date)
  /\ screen' = IF throwEdit = "AddHour" THEN Show("edit", date') ELSE screen
  /\ pc' = "edit"
  /\ UNCHANGED <<locals, backlight, buzzer, relay, uiLastTime, alarmLastTime,
                 world>>

\* The Add button was let go: the edited time moves and is displayed.
EditAdd ==
  /\ pc = "editHold"
  /\ HeldReleased
  /\ date' = IF throwEdit = "AddHour" THEN AddHour(date) ELSE AddMinute(date)
  /\ screen' = Show("edit", date')
  /\ pc' = "edit"
  /\ UNCHANGED <<locals, backlight, buzzer, relay, uiLastTime, alarmLastTime,
                 world>>

\* setAlarm2 writes the registers in one bus transfer ...
EditWrite ==
  /\ pc = "editWrite"
  /\ alarm2' = [hour |-> date.hour, minute |-> date.minute]
  /\ pc' = "editClear"
  /\ UNCHANGED <<locals, statics, outputs, rtc, a2f, pressed, now, rung, resets>>

\* ... and ends with clearAlarm2, which drops a match that came meanwhile.
EditClear ==
  /\ pc = "editClear"
  /\ a2f' = FALSE
  /\ pc' = "editLeave"
  /\ UNCHANGED <<locals, statics, outputs, rtc, alarm2, pressed, now, rung, resets>>

\* delay(1000), then ptIO looks at the Edit button again before it yields.
EditLeave ==
  /\ pc = "editLeave"
  /\ Goto("ioPoll")

-----------------------------------------------------------------------------
(* ptSprinklers: the alarm.                                                *)

\* Slip: isAlarm2(false), which leaves the flag set.
RingKeepingFlag ==
  /\ pc = "sprPoll"
  /\ a2f
  /\ pc' = "ring" /\ buzzer' = TRUE
  /\ alarmLastTime' = now /\ throwEdit' = "None" /\ rung' = 0
  /\ UNCHANGED <<date, screen, backlight, relay, loopIndex, uiLastTime, chip, pressed,
                 now, resets>>

\* PT_WAIT_UNTIL(isAlarm2()): reading the flag clears it, and a ring starts.
SprRing ==
  /\ pc = "sprPoll"
  /\ a2f
  /\ a2f' = FALSE
  /\ pc' = "ring" /\ buzzer' = TRUE
  /\ alarmLastTime' = now /\ throwEdit' = "None" /\ rung' = 0
  /\ UNCHANGED <<date, screen, backlight, relay, loopIndex, uiLastTime, rtc, alarm2,
                 pressed, now, resets>>

SprYield ==
  /\ pc = "sprPoll"
  /\ ~a2f
  /\ Goto("uiWait")

\* Slip: only Confirm ends a ring.
ConfirmOnlyHead(t) == IF t = "Confirm" THEN "ringEnd" ELSE "ring"

\* The head of the ring loop, reached with throwEdit = t.
RingHead(t) == IF t \in Stop THEN "ringEnd" ELSE "ring"

RingScan ==
  /\ pc = "ring"
  /\ throwEdit' = Scan("None")
  /\ pc' = IF ScanHolds THEN "ringHold" ELSE "ringCheck"
  /\ UNCHANGED <<statics, outputs, loopIndex, world>>

RingRelease ==
  /\ pc = "ringHold"
  /\ HeldReleased
  /\ Goto("ringCheck")

\* The two time tests of a turn follow each other at once when the first
\* fails, and then the second, which asks for more, fails too.
RingCheck ==
  /\ pc = "ringCheck"
  /\ IF WaterDue
       THEN pc' = "water" /\ backlight' = TRUE /\ loopIndex' = 0
       ELSE pc' = RingHead(throwEdit) /\ UNCHANGED <<backlight, loopIndex>>
  /\ UNCHANGED <<throwEdit, statics, screen, buzzer, relay, world>>

\* Slip: the relay-on loop has no bound of its own.
UnboundedWatering(t) ==
  /\ relay' = TRUE
  /\ IF t \in Stop
       THEN pc' = "pause" /\ loopIndex' = 0 /\ backlight' = FALSE
       ELSE pc' = "water" /\ UNCHANGED <<loopIndex, backlight>>

\* The end of an iteration of the relay-on loop, with throwEdit = t.
WaterIteration(t) ==
  /\ relay' = TRUE
  /\ IF t \in Stop \/ loopIndex + 1 = WaterLoops
       THEN pc' = "pause" /\ loopIndex' = 0 /\ backlight' = FALSE
       ELSE pc' = "water" /\ loopIndex' = loopIndex + 1 /\ UNCHANGED backlight

\* The loop does not reset throwEdit: a pass that finds no button keeps it,
\* and a pass that finds an Add button replaces it, a dismissal included.
WaterScan ==
  /\ pc = "water"
  /\ throwEdit' = Scan(throwEdit)
  /\ IF ScanHolds
       THEN pc' = "waterHold" /\ UNCHANGED <<relay, loopIndex, backlight>>
       ELSE WaterIteration(throwEdit')
  /\ UNCHANGED <<statics, screen, buzzer, world>>

WaterRelease ==
  /\ pc = "waterHold"
  /\ HeldReleased
  /\ WaterIteration(throwEdit)
  /\ UNCHANGED <<throwEdit, statics, screen, buzzer, world>>

\* Slip: the loop is left before the relay is switched off.
BreakBeforeOff(t) ==
  IF t \in Stop
    THEN pc' = "notifyCheck" /\ loopIndex' = 0 /\ UNCHANGED relay
    ELSE /\ relay' = FALSE
         /\ IF loopIndex + 1 = PauseLoops
              THEN pc' = "notifyCheck" /\ loopIndex' = 0
              ELSE pc' = "pause" /\ loopIndex' = loopIndex + 1

\* The end of an iteration of the relay-off loop, with throwEdit = t.
PauseIteration(t) ==
  /\ relay' = FALSE
  /\ IF t \in Stop \/ loopIndex + 1 = PauseLoops
       THEN pc' = "notifyCheck" /\ loopIndex' = 0
       ELSE pc' = "pause" /\ loopIndex' = loopIndex + 1

PauseScan ==
  /\ pc = "pause"
  /\ throwEdit' = Scan(throwEdit)
  /\ IF ScanHolds
       THEN pc' = "pauseHold" /\ UNCHANGED <<relay, loopIndex>>
       ELSE PauseIteration(throwEdit')
  /\ UNCHANGED <<statics, screen, backlight, buzzer, world>>

PauseRelease ==
  /\ pc = "pauseHold"
  /\ HeldReleased
  /\ PauseIteration(throwEdit)
  /\ UNCHANGED <<throwEdit, statics, screen, backlight, buzzer, world>>

NotifyCheck ==
  /\ pc = "notifyCheck"
  /\ Goto(IF NotifyDue THEN "notify" ELSE RingHead(throwEdit))

\* Both messages were sent, or answered with an error.  The other outcome,
\* a crash inside the HTTP client, is a Reset.
Notify ==
  /\ pc = "notify"
  /\ Goto(RingHead(throwEdit))

\* Slip: the backlight is not switched on again.
RingEndDark ==
  /\ pc = "ringEnd"
  /\ buzzer' = FALSE
  /\ relay' = FALSE
  /\ rung' = 0
  /\ pc' = "sprPoll"
  /\ UNCHANGED <<locals, statics, screen, backlight, chip, pressed, now, resets>>

\* The ring is over; ptSprinklers polls the flag again before it yields.
RingEnd ==
  /\ pc = "ringEnd"
  /\ backlight' = TRUE
  /\ buzzer' = FALSE
  /\ relay' = FALSE
  /\ rung' = 0
  /\ pc' = "sprPoll"
  /\ UNCHANGED <<locals, statics, screen, chip, pressed, now, resets>>

-----------------------------------------------------------------------------
(* The environment.                                                        *)

Tick ==
  /\ now' = Plus(now, 1)
  /\ rung' = IF Ringing /\ rung < NotifyAfter THEN rung + 1 ELSE rung
  /\ UNCHANGED <<program, chip, pressed, resets>>

\* A minute passes on the chip, which sets A2F when the new time matches.
RtcMinute ==
  /\ rtc' = LET m == (rtc.minute + 1) % MinutesPerHour
                h == IF m = 0 THEN (rtc.hour + 1) % HoursPerDay ELSE rtc.hour
                d == IF m = 0 /\ h = 0 THEN (rtc.day % MonthDays) + 1 ELSE rtc.day
            IN  [day |-> d, hour |-> h, minute |-> m]
  /\ a2f' = (a2f \/ alarm2 = [hour |-> rtc'.hour, minute |-> rtc'.minute])
  /\ UNCHANGED <<program, alarm2, pressed, now, rung, resets>>

Press(b) ==
  /\ b \notin pressed
  /\ Cardinality(pressed) < MaxHeld
  /\ pressed' = pressed \cup {b}
  /\ UNCHANGED <<program, chip, now, rung, resets>>

Release(b) ==
  /\ b \in pressed
  /\ pressed' = pressed \ {b}
  /\ UNCHANGED <<program, chip, now, rung, resets>>

\* A brown-out, the reset button or a panic.  RAM is initialised again and
\* the pins fall back to inputs; the chip and the LCD keep what they have.
Reset ==
  /\ resets < MaxResets
  /\ resets' = resets + 1
  /\ pc' = "setup"
  /\ throwEdit' = "None"
  /\ date' = ZeroDate
  /\ buzzer' = FALSE
  /\ relay' = FALSE
  /\ loopIndex' = 0
  /\ now' = 0 /\ uiLastTime' = 0 /\ alarmLastTime' = 0
  /\ rung' = 0
  /\ UNCHANGED <<screen, backlight, chip, pressed>>

-----------------------------------------------------------------------------

UIThread == UIRefresh \/ UIWait
IOThread == IOPoll \/ EditOpen \/ EditScan \/ EditAdd \/ EditWrite \/ EditClear \/ EditLeave
SprinklersThread ==
  \/ SprRing \/ SprYield \/ RingScan \/ RingRelease \/ RingCheck
  \/ WaterScan \/ WaterRelease \/ PauseScan \/ PauseRelease
  \/ NotifyCheck \/ Notify \/ RingEnd

Program == Setup \/ UIThread \/ IOThread \/ SprinklersThread

Environment ==
  \/ Tick
  \/ RtcMinute
  \/ \E b \in Button : Press(b) \/ Release(b)
  \/ Reset

Next == Program \/ Environment

Spec == Init /\ [][Next]_vars

\* Steps that have to be taken when they can be taken again and again: the
\* refresh that ends outside the last UIPeriod of the counter, and the sample
\* of a pin that sees a button released.
UIYield == UIRefresh /\ pc' = "ioPoll"
Holding == EditAdd \/ RingRelease \/ WaterRelease \/ PauseRelease

-----------------------------------------------------------------------------
(* Properties.                                                             *)

TypeOK ==
  /\ pc \in IdlePcs \cup EditPcs \cup RingPcs
  /\ pressed \subseteq Button
  /\ throwEdit \in Throw
  /\ date \in Date
  /\ screen \in [page : Page, date : Date]
  /\ backlight \in BOOLEAN /\ buzzer \in BOOLEAN /\ relay \in BOOLEAN
  /\ loopIndex \in Nat
  /\ now \in MillisValue /\ uiLastTime \in MillisValue
  /\ alarmLastTime \in MillisValue
  /\ rtc \in RtcTime
  /\ alarm2 \in {NoAlarm} \cup TimeOfDay
  /\ a2f \in BOOLEAN
  /\ rung \in 0 .. NotifyAfter
  /\ resets \in 0 .. MaxResets

(* However the Add buttons are used, the edited time is a time of day, and *)
(* so is the alarm that a Confirm leaves in the chip: an hour of 24 would  *)
(* be an alarm that never rings.  (__checkTimeFormat after addHour and     *)
(* addMinute, then setAlarm2.)                                             *)
ValidTime(t) == t.hour \in 0 .. HoursPerDay - 1 /\ t.minute \in 0 .. MinutesPerHour - 1
AlarmCanRing == ValidTime(date) /\ (alarm2 # NoAlarm => ValidTime(alarm2))

(* Outside a ring nothing sounds or sprinkles, and the screen is lit: each *)
(* way out of the ring loop puts the buzzer, the relay and the backlight   *)
(* back, whatever half of a round it comes from.                           *)
QuietOutsideRing ==
  ~Ringing => ~buzzer /\ ~relay /\ (pc # "setup" => backlight)

(* The relay is never on before the alarm has really rung for WaterAfter,  *)
(* whatever millis() does meanwhile: main.cpp:129 over the counter's wrap. *)
WaterAfterGrace == relay => Ringing /\ rung >= WaterAfter

(* The messages go out only after the alarm has really rung for NotifyAfter*)
(* and the blocking calls that send them never start with the relay on.    *)
NotifyAfterGrace == pc = "notify" => rung >= NotifyAfter /\ ~relay

(* What a Confirm stores in the chip is what the person has on the screen: *)
(* every change of the edited date is followed by its display before the   *)
(* buttons are read again.                                                 *)
ConfirmsWhatIsShown ==
  [][alarm2' # alarm2 =>
       /\ screen.page = "edit"
       /\ alarm2' = [hour |-> screen.date.hour, minute |-> screen.date.minute]]_vars

(* A dismissal that a pass over the buttons has read during a ring is lost *)
(* in one way only: a later pass of the same ring finds an Add button down *)
(* and Edit up.  Letting the button go, or more rounds, do not lose it.    *)
DismissalKept ==
  [][(Ringing /\ Ringing' /\ throwEdit \in Stop /\ throwEdit' \notin Stop) =>
        "Edit" \notin pressed /\ pressed \cap {"AddHour", "AddMinute"} # {}]_vars

(* An alarm that came due is served, with the edit mode as the only thing  *)
(* that can come first: no other wait of the three threads keeps the flag  *)
(* from being looked at, and a reset does not lose it.                     *)
AlarmServed == (a2f /\ ~Editing) ~> (Ringing \/ Editing)

(* Holding Edit silences the alarm from any point of a ring.               *)
HeldEditSilences == Ringing ~> (~Ringing \/ "Edit" \notin pressed)

-----------------------------------------------------------------------------
(* Why the safety properties hold: an inductive invariant.                 *)

\* The relay is on only inside the two loops of a round.
RelayInRound == relay => pc \in WaterPcs \cup PausePcs

\* The ring is at least as old as the program's difference makes it; the
\* difference falls back to 0 when the counter has made a whole turn.
RungCounts ==
  Ringing => Elapsed(alarmLastTime, now) <= rung \/ rung = NotifyAfter

\* A round is begun only when it is due.
RoundsAreDue ==
  pc \in WaterPcs \cup PausePcs \cup {"notifyCheck", "notify"} => rung >= WaterAfter

\* While the edit loop runs, the screen shows the edited date.
EditPage == pc \in {"edit", "editHold", "editWrite"} => screen = Show("edit", date)

\* A turn of the ring loop begins with no dismissal pending.
RingFresh == pc = "ring" => throwEdit \notin Stop

(* The parts together are kept by every step, which none of the properties *)
(* above is on its own.                                                    *)
AlarmInv ==
  /\ QuietOutsideRing
  /\ RelayInRound
  /\ RungCounts
  /\ RoundsAreDue
  /\ NotifyAfterGrace
  /\ EditPage
  /\ RingFresh
  /\ AlarmCanRing

-----------------------------------------------------------------------------
(* The program implements the promise.                                     *)

Phase ==
  CASE pc = "editClear" -> "Storing"
    [] Editing /\ pc # "editClear" -> "Editing"
    [] pc = "notify" -> "Reporting"
    [] Ringing /\ pc # "notify" /\ relay -> "Watering"
    [] Ringing /\ pc # "notify" /\ ~relay -> "Ringing"
    [] OTHER -> "Idle"

Promise == INSTANCE AlarmPromise
             WITH Setting <- {NoAlarm} \cup RingableTime, Never <- NoAlarm,
                  phase <- Phase, setting <- alarm2, due <- a2f, age <- rung

(* Every behaviour of the three threads, the chip, the buttons and resets  *)
(* is one the promise allows: the alarm flag is neither lost nor served    *)
(* twice, relay and messages wait for the true ring time, and never        *)
(* coincide.                                                               *)
ImplementsPromise == Promise!Spec

=============================================================================

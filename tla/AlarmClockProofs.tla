-------------------------- MODULE AlarmClockProofs --------------------------
(***************************************************************************)
(* Proofs about AlarmClock, for every value of its constants: the type     *)
(* invariant, then one inductive invariant from which the safety           *)
(* properties of the model-checked runs follow.                            *)
(***************************************************************************)
EXTENDS AlarmClock, TLAPS

-----------------------------------------------------------------------------
(* The counter.                                                            *)

(* A sum on the counter is a counter value: main.cpp:77 and the counter.   *)
LEMMA PlusIsMillis ==
  ASSUME NEW a \in MillisValue, NEW b \in 0 .. Wrap
  PROVE  Plus(a, b) \in MillisValue
BY WrapAssumption DEF Plus, MillisValue

(* A difference of two readings is a number of ticks below the modulus.    *)
LEMMA ElapsedIsMillis ==
  ASSUME NEW a \in MillisValue, NEW b \in MillisValue
  PROVE  Elapsed(a, b) \in MillisValue
BY WrapAssumption DEF Elapsed, MillisValue

(* The difference grows with the counter, or falls back to 0 when a whole  *)
(* turn of the counter has passed: main.cpp:129 and 150.                   *)
LEMMA ElapsedTicks ==
  ASSUME NEW a \in MillisValue, NEW b \in MillisValue
  PROVE  Elapsed(a, Plus(b, 1)) \in {0, Elapsed(a, b) + 1}
BY WrapAssumption DEF Elapsed, Plus, MillisValue

(* The difference of two readings is exact as long as less than a whole    *)
(* turn of the counter lies between them.                                  *)
LEMMA ElapsedIsExact ==
  ASSUME NEW a \in MillisValue, NEW n \in 0 .. Wrap - 1
  PROVE  Elapsed(a, Plus(a, n)) = n
BY WrapAssumption DEF Elapsed, Plus, MillisValue

-----------------------------------------------------------------------------
(* The edited date.                                                        *)

LEMMA ByteType ==
  ASSUME NEW x \in Nat
  PROVE  x % Byte \in ByteValue
BY CalendarAssumption DEF ByteValue

(* Adding to any date of bytes gives a date of bytes.                      *)
LEMMA AddType ==
  ASSUME NEW d \in Date
  PROVE  AddHour(d) \in Date /\ AddMinute(d) \in Date
<1>1. ASSUME NEW e \in Date PROVE CheckTimeFormat(e) \in Date
  <2> DEFINE m == IF e.minute >= MinutesPerHour
                    THEN [e EXCEPT !.hour = (@ + 1) % Byte, !.minute = @ - MinutesPerHour]
                    ELSE e
  <2>1. m \in Date
    <3>1. (e.hour + 1) % Byte \in ByteValue
      BY ByteType DEF Date, ByteValue
    <3>2. e.minute >= MinutesPerHour => e.minute - MinutesPerHour \in ByteValue
      BY CalendarAssumption DEF Date, ByteValue
    <3> QED BY <3>1, <3>2 DEF Date
  <2> HIDE DEF m
  <2>2. (IF m.hour >= HoursPerDay
           THEN [m EXCEPT !.day = (@ + 1) % Byte, !.hour = @ - HoursPerDay]
           ELSE m) \in Date
    <3>1. (m.day + 1) % Byte \in ByteValue
      BY <2>1, ByteType DEF Date, ByteValue
    <3>2. m.hour >= HoursPerDay => m.hour - HoursPerDay \in ByteValue
      BY <2>1, CalendarAssumption DEF Date, ByteValue
    <3> QED BY <2>1, <3>1, <3>2 DEF Date
  <2> QED BY <2>2 DEF CheckTimeFormat, m
<1>2. /\ [d EXCEPT !.hour = (@ + 1) % Byte] \in Date
      /\ [d EXCEPT !.minute = (@ + 1) % Byte] \in Date
  BY ByteType, CalendarAssumption DEF Date, ByteValue
<1> QED BY <1>1, <1>2 DEF AddHour, AddMinute

(* Adding to a date whose time is valid keeps the time valid, whatever     *)
(* carries.                                                                *)
LEMMA AddKeepsTimeValid ==
  ASSUME NEW d \in Date, ValidTime(d)
  PROVE  ValidTime(AddHour(d)) /\ ValidTime(AddMinute(d))
<1>1. \A x \in 0 .. Byte - 1 : x % Byte = x
  BY CalendarAssumption
<1>2. ValidTime(AddHour(d))
  BY <1>1, CalendarAssumption DEF AddHour, CheckTimeFormat, ValidTime, Date, ByteValue
<1>3. ValidTime(AddMinute(d))
  BY <1>1, CalendarAssumption DEF AddMinute, CheckTimeFormat, ValidTime, Date, ByteValue
<1> QED BY <1>2, <1>3

-----------------------------------------------------------------------------
(* Types.                                                                  *)

(* A pass over the buttons returns one of the throw codes.                 *)
LEMMA ScanType ==
  ASSUME NEW t \in Throw
  PROVE  Scan(t) \in Throw
BY DEF Scan, Throw

(* No operation, in any order with the chip, the buttons, the counter and  *)
(* resets, takes a variable outside its type: the bytes of the date and    *)
(* the readings of the counter stay below their moduli.                    *)
THEOREM TypeCorrect == Spec => []TypeOK
<1>1. Init => TypeOK
  <2> SUFFICES ASSUME Init PROVE TypeOK
    OBVIOUS
  <2>1. ZeroDate \in Date
    BY CalendarAssumption DEF ZeroDate, Date, ByteValue
  <2>2. RingableTime \subseteq TimeOfDay
    BY CalendarAssumption DEF RingableTime, TimeOfDay, ByteValue
  <2>3. 0 \in MillisValue /\ 0 \in 0 .. NotifyAfter /\ 0 \in 0 .. MaxResets
    BY WrapAssumption, TimingAssumption, BoundAssumption DEF MillisValue
  <2>4. /\ backlight \in BOOLEAN /\ buzzer \in BOOLEAN /\ relay \in BOOLEAN
        /\ a2f \in BOOLEAN
    BY DEF Init
  <2> QED BY <2>1, <2>2, <2>3, <2>4 DEF Init, TypeOK, IdlePcs, Throw, Show, Page
<1>2. TypeOK /\ [Next]_vars => TypeOK'
  <2> SUFFICES ASSUME TypeOK, [Next]_vars PROVE TypeOK'
    OBVIOUS
  <2> USE DEF TypeOK, Goto, world, outputs, locals, statics, chip, program,
              IdlePcs, EditPcs, RingPcs, WaterPcs, PausePcs
  <2>1. CASE Setup
    BY <2>1, CalendarAssumption DEF Setup, Show, ZeroDate, Page, Date, ByteValue
  <2>2. CASE UIThread
    <3>1. RtcTime \subseteq Date
      BY CalendarAssumption DEF RtcTime, Date, ByteValue
    <3> QED BY <2>2, <3>1 DEF UIThread, UIRefresh, UIWait, Show, Page
  <2>3. CASE IOThread
    <3>1. CASE IOPoll
      BY <3>1 DEF IOPoll
    <3>2. CASE EditOpen
      BY <3>2 DEF EditOpen, Show, Page, Throw
    <3>3. CASE EditScan
      BY <3>3, ScanType DEF EditScan, Throw
    <3>4. CASE EditAdd
      BY <3>4, AddType DEF EditAdd, Show, Page
    <3>5. CASE EditWrite
      BY <3>5 DEF EditWrite, TimeOfDay, Date
    <3>6. CASE EditClear
      BY <3>6 DEF EditClear
    <3>7. CASE EditLeave
      BY <3>7 DEF EditLeave
    <3> QED BY <2>3, <3>1, <3>2, <3>3, <3>4, <3>5, <3>6, <3>7 DEF IOThread
  <2>4. CASE SprinklersThread
    <3>1. CASE SprRing
      <4>1. rung' \in 0 .. NotifyAfter
        BY <3>1, WrapAssumption, TimingAssumption DEF SprRing
      <4>2. buzzer' \in BOOLEAN /\ a2f' \in BOOLEAN
        BY <3>1 DEF SprRing
      <4> QED BY <3>1, <4>1, <4>2 DEF SprRing, Throw
    <3>2. CASE SprYield
      BY <3>2 DEF SprYield
    <3>3. CASE RingScan
      BY <3>3, ScanType DEF RingScan, Throw
    <3>4. CASE RingRelease
      BY <3>4 DEF RingRelease
    <3>5. CASE RingCheck
      <4>1. CASE WaterDue
        BY <3>5, <4>1 DEF RingCheck
      <4>2. CASE ~WaterDue
        BY <3>5, <4>2 DEF RingCheck, RingHead
      <4> QED BY <4>1, <4>2
    <3>6. ASSUME NEW t, WaterIteration(t)
          PROVE  /\ pc' \in {"water", "pause"} /\ loopIndex' \in Nat
                 /\ relay' \in BOOLEAN /\ backlight' \in BOOLEAN
      <4>1. pc' \in {"water", "pause"} /\ loopIndex' \in Nat
        BY <3>6 DEF WaterIteration
      <4>2. relay' \in BOOLEAN /\ backlight' \in BOOLEAN
        BY <3>6, Zenon DEF WaterIteration
      <4> QED BY <4>1, <4>2
    <3>7. ASSUME NEW t, PauseIteration(t)
          PROVE  /\ pc' \in {"pause", "notifyCheck"} /\ loopIndex' \in Nat
                 /\ relay' \in BOOLEAN
      <4>1. pc' \in {"pause", "notifyCheck"} /\ loopIndex' \in Nat
        BY <3>7 DEF PauseIteration
      <4>2. relay' \in BOOLEAN
        BY <3>7, Zenon DEF PauseIteration
      <4> QED BY <4>1, <4>2
    <3>8. CASE WaterScan \/ WaterRelease
      <4>1. /\ throwEdit' \in Throw
            /\ pc' \in {"water", "pause", "waterHold"} /\ loopIndex' \in Nat
            /\ relay' \in BOOLEAN /\ backlight' \in BOOLEAN
        BY <3>6, <3>8, ScanType DEF WaterScan, WaterRelease
      <4> QED BY <3>8, <4>1 DEF WaterScan, WaterRelease
    <3>9. CASE PauseScan \/ PauseRelease
      <4>1. /\ throwEdit' \in Throw
            /\ pc' \in {"pause", "notifyCheck", "pauseHold"} /\ loopIndex' \in Nat
            /\ relay' \in BOOLEAN
        BY <3>7, <3>9, ScanType DEF PauseScan, PauseRelease
      <4> QED BY <3>9, <4>1 DEF PauseScan, PauseRelease
    <3>10. CASE NotifyCheck
      BY <3>10 DEF NotifyCheck, RingHead
    <3>11. CASE Notify
      BY <3>11 DEF Notify, RingHead
    <3>12. CASE RingEnd
      <4>1. rung' \in 0 .. NotifyAfter
        BY <3>12, WrapAssumption, TimingAssumption DEF RingEnd
      <4>2. backlight' \in BOOLEAN /\ buzzer' \in BOOLEAN /\ relay' \in BOOLEAN
        BY <3>12 DEF RingEnd
      <4> QED BY <3>12, <4>1, <4>2 DEF RingEnd
    <3> QED BY <2>4, <3>1, <3>2, <3>3, <3>4, <3>5, <3>6, <3>7, <3>8, <3>9, <3>10, <3>11,
               <3>12 DEF SprinklersThread
  <2>5. CASE Tick
    BY <2>5, PlusIsMillis, WrapAssumption, TimingAssumption DEF Tick
  <2>6. CASE RtcMinute
    <3>1. rtc' \in RtcTime
      <4>1. /\ (rtc.minute + 1) % MinutesPerHour \in 0 .. MinutesPerHour - 1
            /\ (rtc.hour + 1) % HoursPerDay \in 0 .. HoursPerDay - 1
            /\ (rtc.day % MonthDays) + 1 \in 1 .. MonthDays
        BY CalendarAssumption DEF RtcTime
      <4> QED BY <2>6, <4>1 DEF RtcMinute, RtcTime
    <3> QED BY <2>6, <3>1 DEF RtcMinute
  <2>7. CASE \E b \in Button : Press(b) \/ Release(b)
    BY <2>7 DEF Press, Release
  <2>8. CASE Reset
    <3>1. ZeroDate \in Date
      BY CalendarAssumption DEF ZeroDate, Date, ByteValue
    <3>2. 0 \in MillisValue /\ 0 \in 0 .. NotifyAfter
      BY WrapAssumption, TimingAssumption DEF MillisValue
    <3>3. resets' \in 0 .. MaxResets
      BY <2>8, BoundAssumption DEF Reset
    <3>4. buzzer' \in BOOLEAN /\ relay' \in BOOLEAN
      BY <2>8 DEF Reset
    <3> QED BY <2>8, <3>1, <3>2, <3>3, <3>4 DEF Reset, Throw
  <2>9. CASE UNCHANGED vars
    BY <2>9 DEF vars
  <2> QED BY <2>1, <2>2, <2>3, <2>4, <2>5, <2>6, <2>7, <2>8, <2>9
          DEF Next, Program, Environment
<1> QED BY <1>1, <1>2, PTL DEF Spec

-----------------------------------------------------------------------------
(* Safety.  TypeOK and AlarmInv together are inductive.                    *)

IInv == TypeOK /\ AlarmInv

(* A start of the program satisfies the invariant.                         *)
LEMMA InitInv == Init => AlarmInv
<1> SUFFICES ASSUME Init PROVE AlarmInv
  OBVIOUS
<1>1. pc = "setup" /\ ~relay /\ ~buzzer
  BY DEF Init
<1>2. AlarmCanRing
  BY CalendarAssumption DEF Init, AlarmCanRing, ValidTime, ZeroDate, RingableTime
<1> QED BY <1>1, <1>2
        DEF AlarmInv, QuietOutsideRing, RelayInRound, RungCounts, RoundsAreDue,
            NotifyAfterGrace, EditPage, RingFresh, Ringing, RingPcs, WaterPcs, PausePcs

(* The edited date and the stored alarm stay times of day.                 *)
LEMMA CanRingStep ==
  ASSUME TypeOK, AlarmCanRing, [Next]_vars
  PROVE  AlarmCanRing'
<1> USE DEF Goto, world, outputs, locals, statics, chip, program
<1>1. CASE UIRefresh
  BY <1>1 DEF UIRefresh, AlarmCanRing, ValidTime, TypeOK, RtcTime
<1>2. CASE EditAdd
  BY <1>2, AddKeepsTimeValid DEF EditAdd, AlarmCanRing, ValidTime, TypeOK
<1>3. CASE EditWrite
  BY <1>3 DEF EditWrite, AlarmCanRing, ValidTime
<1>4. CASE Reset
  BY <1>4, CalendarAssumption DEF Reset, AlarmCanRing, ValidTime, ZeroDate
<1>5. CASE UNCHANGED <<date, alarm2>>
  BY <1>5 DEF AlarmCanRing, ValidTime
<1> QED
  BY <1>1, <1>2, <1>3, <1>4, <1>5
  DEF Next, vars, Program, Environment, UIThread, IOThread, SprinklersThread, Setup,
      UIWait, IOPoll, EditOpen, EditScan, EditClear, EditLeave, SprRing, SprYield,
      RingScan, RingRelease, RingCheck, WaterScan, WaterRelease, PauseScan,
      PauseRelease, NotifyCheck, Notify, RingEnd, Tick, RtcMinute, Press, Release

(* Every step keeps the rest of the invariant.                             *)
LEMMA AlarmInvStep ==
  ASSUME IInv, [Next]_vars
  PROVE  AlarmInv'
<1>0. TypeOK /\ AlarmInv /\ AlarmCanRing'
  BY CanRingStep DEF IInv, AlarmInv
<1> USE DEF Goto, world, outputs, locals, statics, chip, program, IdlePcs, EditPcs,
            RingPcs, WaterPcs, PausePcs, Ringing
<1> USE DEF AlarmInv, QuietOutsideRing, RelayInRound, RungCounts, RoundsAreDue,
            NotifyAfterGrace, EditPage, RingFresh
<1>1. CASE Setup
  BY <1>0, <1>1 DEF Setup
<1>2. CASE UIThread
  BY <1>0, <1>2 DEF UIThread, UIRefresh, UIWait
<1>3. CASE IOThread
  <2>1. CASE IOPoll
    BY <1>0, <2>1 DEF IOPoll
  <2>2. CASE EditOpen
    BY <1>0, <2>2 DEF EditOpen
  <2>3. CASE EditScan
    BY <1>0, <2>3 DEF EditScan
  <2>4. CASE EditAdd
    BY <1>0, <2>4 DEF EditAdd
  <2>5. CASE EditWrite \/ EditClear \/ EditLeave
    BY <1>0, <2>5 DEF EditWrite, EditClear, EditLeave
  <2> QED BY <1>3, <2>1, <2>2, <2>3, <2>4, <2>5 DEF IOThread
<1>4. CASE SprinklersThread
  <2>1. CASE SprRing
    <3>1. Elapsed(alarmLastTime', now') = 0
      BY <1>0, <2>1 DEF SprRing, Elapsed, TypeOK, MillisValue
    <3> QED BY <1>0, <2>1, <3>1 DEF SprRing, Stop
  <2>2. CASE SprYield
    BY <1>0, <2>2 DEF SprYield
  <2>3. CASE RingScan \/ RingRelease
    BY <1>0, <2>3 DEF RingScan, RingRelease
  <2>4. CASE RingCheck
    <3>1. Elapsed(alarmLastTime, now) \in Nat /\ rung \in Nat
      BY <1>0, ElapsedIsMillis, WrapAssumption, TimingAssumption DEF TypeOK, MillisValue
    <3>2. WaterDue => rung >= WaterAfter
      BY <1>0, <2>4, <3>1, WrapAssumption, TimingAssumption DEF WaterDue, RingCheck
    <3> QED BY <1>0, <2>4, <3>2 DEF RingCheck, RingHead
  <2>5. CASE WaterScan \/ WaterRelease
    BY <1>0, <2>5 DEF WaterScan, WaterRelease, WaterIteration
  <2>6. CASE PauseScan \/ PauseRelease
    BY <1>0, <2>6 DEF PauseScan, PauseRelease, PauseIteration
  <2>7. CASE NotifyCheck
    <3>1. Elapsed(alarmLastTime, now) \in Nat /\ rung \in Nat
      BY <1>0, ElapsedIsMillis, WrapAssumption, TimingAssumption DEF TypeOK, MillisValue
    <3>2. NotifyDue => rung >= NotifyAfter
      BY <1>0, <2>7, <3>1, WrapAssumption, TimingAssumption DEF NotifyDue, NotifyCheck
    <3> QED BY <1>0, <2>7, <3>2 DEF NotifyCheck, RingHead
  <2>8. CASE Notify
    BY <1>0, <2>8 DEF Notify, RingHead
  <2>9. CASE RingEnd
    BY <1>0, <2>9 DEF RingEnd
  <2> QED BY <1>4, <2>1, <2>2, <2>3, <2>4, <2>5, <2>6, <2>7, <2>8, <2>9
          DEF SprinklersThread
<1>5. CASE Tick
  <2>1. /\ rung \in 0 .. NotifyAfter /\ NotifyAfter \in Nat /\ WaterAfter \in Nat
        /\ Elapsed(alarmLastTime, now) \in Nat
    BY <1>0, ElapsedIsMillis, WrapAssumption, TimingAssumption DEF TypeOK, MillisValue
  <2>2. Elapsed(alarmLastTime', now') \in {0, Elapsed(alarmLastTime, now) + 1}
    BY <1>0, <1>5, ElapsedTicks DEF Tick, TypeOK
  <2>3. RungCounts'
    BY <1>0, <1>5, <2>1, <2>2 DEF Tick
  <2>4. rung' >= rung
    BY <1>5, <2>1 DEF Tick
  <2>5. RoundsAreDue' /\ NotifyAfterGrace'
    BY <1>0, <1>5, <2>1, <2>4 DEF Tick
  <2> QED BY <1>0, <1>5, <2>3, <2>5 DEF Tick
<1>6. CASE RtcMinute \/ \E b \in Button : Press(b) \/ Release(b)
  BY <1>0, <1>6 DEF RtcMinute, Press, Release
<1>7. CASE Reset
  BY <1>0, <1>7 DEF Reset
<1>8. CASE UNCHANGED vars
  BY <1>0, <1>8 DEF vars
<1> QED BY <1>1, <1>2, <1>3, <1>4, <1>5, <1>6, <1>7, <1>8 DEF Next, Program, Environment, IInv

(* The inductive invariant holds throughout every execution.               *)
THEOREM Invariance == Spec => []IInv
<1>1. Init => AlarmInv
  BY InitInv
<1>2. IInv /\ [Next]_vars => AlarmInv'
  BY AlarmInvStep
<1>3. TypeOK /\ AlarmInv <=> IInv
  BY DEF IInv
<1>4. Spec => []TypeOK
  BY TypeCorrect
<1> QED BY <1>1, <1>2, <1>3, <1>4, PTL DEF Spec

(* All parts of the invariant, on its own name.                            *)
THEOREM SafetyCorrect == Spec => []AlarmInv
<1>1. IInv => AlarmInv
  BY DEF IInv
<1> QED BY <1>1, Invariance, PTL

(* Outside a ring the outputs are quiet and the screen is lit.             *)
THEOREM QuietCorrect == Spec => []QuietOutsideRing
<1>1. AlarmInv => QuietOutsideRing
  BY DEF AlarmInv
<1> QED BY <1>1, SafetyCorrect, PTL

(* Water waits for its share of true ringing time, over any wrap.          *)
THEOREM WaterCorrect == Spec => []WaterAfterGrace
<1>1. AlarmInv => WaterAfterGrace
  BY DEF AlarmInv, RelayInRound, RoundsAreDue, WaterAfterGrace, Ringing, RingPcs, WaterPcs,
         PausePcs
<1> QED BY <1>1, SafetyCorrect, PTL

(* Messages wait for their share of true ringing time, the relay off.      *)
THEOREM NotifyCorrect == Spec => []NotifyAfterGrace
<1>1. AlarmInv => NotifyAfterGrace
  BY DEF AlarmInv
<1> QED BY <1>1, SafetyCorrect, PTL

(* The alarm in the chip is one that comes round every day.                *)
THEOREM CanRingCorrect == Spec => []AlarmCanRing
<1>1. AlarmInv => AlarmCanRing
  BY DEF AlarmInv
<1> QED BY <1>1, SafetyCorrect, PTL

(* A step that changes the stored alarm stores what the screen shows.      *)
THEOREM ConfirmCorrect == Spec => ConfirmsWhatIsShown
<1>1. IInv /\ [Next]_vars =>
        [alarm2' # alarm2 =>
           /\ screen.page = "edit"
           /\ alarm2' = [hour |-> screen.date.hour, minute |-> screen.date.minute]]_vars
  <2> SUFFICES ASSUME IInv, [Next]_vars, alarm2' # alarm2
               PROVE  /\ screen.page = "edit"
                      /\ alarm2' = [hour |-> screen.date.hour,
                                    minute |-> screen.date.minute]
    OBVIOUS
  <2>1. EditWrite
    BY DEF Next, vars, Program, Environment, UIThread, IOThread, SprinklersThread, Setup,
           UIRefresh, UIWait, IOPoll, EditOpen, EditScan, EditAdd, EditClear, EditLeave,
           SprRing, SprYield, RingScan, RingRelease, RingCheck, WaterScan, WaterRelease,
           PauseScan, PauseRelease, NotifyCheck, Notify, RingEnd, Tick, RtcMinute, Press,
           Release, Reset, Goto, world, chip
  <2> QED BY <2>1 DEF EditWrite, IInv, AlarmInv, EditPage, Show
<1> QED BY <1>1, Invariance, PTL DEF Spec, ConfirmsWhatIsShown

(* The only way to lose a dismissal during a ring is an Add button.        *)
THEOREM DismissalCorrect == Spec => DismissalKept
<1> DEFINE Kept == (Ringing /\ Ringing' /\ throwEdit \in Stop /\ throwEdit' \notin Stop) =>
                      "Edit" \notin pressed /\ pressed \cap {"AddHour", "AddMinute"} # {}
<1>1. IInv /\ [Next]_vars => [Kept]_vars
  <2> SUFFICES ASSUME IInv, [Next]_vars, Ringing, Ringing', throwEdit \in Stop,
                      throwEdit' \notin Stop
               PROVE  "Edit" \notin pressed /\ pressed \cap {"AddHour", "AddMinute"} # {}
    BY DEF Kept
  <2>1. pc # "ring"
    BY DEF IInv, AlarmInv, RingFresh
  <2>2. WaterScan \/ PauseScan
    BY <2>1
       DEF Next, vars, Program, Environment, UIThread, IOThread, SprinklersThread, Setup,
           UIRefresh, UIWait, IOPoll, EditOpen, EditScan, EditAdd, EditWrite, EditClear,
           EditLeave, SprRing, SprYield, RingScan, RingRelease, RingCheck, WaterRelease,
           PauseRelease, NotifyCheck, Notify, RingEnd, Tick, RtcMinute, Press, Release,
           Reset, Goto, world, locals, program, Ringing, RingPcs, WaterPcs, PausePcs
  <2>3. throwEdit' = Scan(throwEdit)
    BY <2>2 DEF WaterScan, PauseScan
  <2> QED BY <2>3 DEF Scan, Stop
<1> QED BY <1>1, Invariance, PTL DEF Spec, DismissalKept

-----------------------------------------------------------------------------
(* Refinement.                                                             *)

(* A start of the program is a start of the promise.                       *)
LEMMA InitMaps == Init => Promise!Init
BY DEF Init, Promise!Init, Phase, Editing, Ringing, EditPcs, RingPcs, WaterPcs, PausePcs

(* A step of the program is a step of the promise, or changes nothing that *)
(* the promise speaks of.                                                  *)
LEMMA StepMaps ==
  ASSUME IInv, IInv', [Next]_vars
  PROVE  [Promise!Next]_(Promise!vars)
<1>1. /\ TypeOK /\ QuietOutsideRing /\ RelayInRound /\ RoundsAreDue
      /\ NotifyAfterGrace /\ AlarmCanRing /\ WaterAfter <= NotifyAfter
      /\ RoundsAreDue' /\ NotifyAfterGrace' /\ TypeOK'
  BY WrapAssumption, TimingAssumption DEF IInv, AlarmInv
<1> USE DEF Goto, world, outputs, locals, statics, chip, program, Phase, Editing, Ringing,
            EditPcs, RingPcs, WaterPcs, PausePcs, Promise!vars
<1>2. CASE Setup \/ UIThread
  BY <1>2 DEF Setup, UIThread, UIRefresh, UIWait
<1>3. CASE IOPoll
  BY <1>3 DEF IOPoll, Promise!Next, Promise!BeginEdit
<1>4. CASE EditOpen \/ EditScan \/ EditAdd
  BY <1>4 DEF EditOpen, EditScan, EditAdd
<1>5. CASE EditWrite
  <2>1. alarm2' \in RingableTime /\ alarm2' # NoAlarm
    BY <1>1, <1>5, CalendarAssumption
       DEF EditWrite, AlarmCanRing, ValidTime, RingableTime, NoAlarm
  <2> QED BY <1>5, <2>1 DEF EditWrite, Promise!Next, Promise!Store
<1>6. CASE EditClear
  BY <1>6 DEF EditClear, Promise!Next, Promise!Forget
<1>7. CASE EditLeave
  BY <1>7 DEF EditLeave, Promise!Next, Promise!EndEdit
<1>8. CASE SprRing
  BY <1>1, <1>8 DEF SprRing, QuietOutsideRing, Promise!Next, Promise!StartRinging
<1>9. CASE SprYield \/ RingScan \/ RingRelease
  BY <1>9 DEF SprYield, RingScan, RingRelease
<1>10. CASE RingCheck
  BY <1>1, <1>10 DEF RingCheck, RingHead
<1>11. CASE WaterScan \/ WaterRelease
  BY <1>1, <1>11
     DEF WaterScan, WaterRelease, WaterIteration, RoundsAreDue, Promise!Next, Promise!Water
<1>12. CASE PauseScan \/ PauseRelease
  BY <1>12
     DEF PauseScan, PauseRelease, PauseIteration, Promise!Next, Promise!KeepRinging
<1>13. CASE NotifyCheck
  BY <1>1, <1>13
     DEF NotifyCheck, RingHead, RelayInRound, NotifyAfterGrace, Promise!Next, Promise!Report
<1>14. CASE Notify
  BY <1>1, <1>14
     DEF Notify, RingHead, NotifyAfterGrace, Promise!Next, Promise!KeepRinging
<1>15. CASE RingEnd
  BY <1>1, <1>15 DEF RingEnd, RelayInRound, Promise!Next, Promise!Dismiss
<1>16. CASE Tick
  BY <1>1, <1>16, WrapAssumption, TimingAssumption
     DEF Tick, TypeOK, Promise!Next, Promise!Ageing, Promise!Alarming
<1>17. CASE RtcMinute
  <2>1. [hour |-> rtc'.hour, minute |-> rtc'.minute] # NoAlarm
    BY <1>1 DEF TypeOK, RtcTime, NoAlarm
  <2>2. CASE alarm2 = [hour |-> rtc'.hour, minute |-> rtc'.minute]
    BY <1>17, <2>1, <2>2 DEF RtcMinute, Promise!Next, Promise!ComeDue
  <2>3. CASE alarm2 # [hour |-> rtc'.hour, minute |-> rtc'.minute]
    <3>1. a2f' = a2f
      BY <1>1, <1>17, <2>3 DEF RtcMinute, TypeOK
    <3> QED BY <1>17, <3>1 DEF RtcMinute
  <2> QED BY <2>2, <2>3
<1>18. CASE \E b \in Button : Press(b) \/ Release(b)
  BY <1>18 DEF Press, Release
<1>19. CASE Reset
  BY <1>19 DEF Reset, Promise!Next, Promise!Restart
<1>20. CASE UNCHANGED vars
  BY <1>20 DEF vars
<1> QED
  BY <1>2, <1>3, <1>4, <1>5, <1>6, <1>7, <1>8, <1>9, <1>10, <1>11, <1>12, <1>13, <1>14,
     <1>15, <1>16, <1>17, <1>18, <1>19, <1>20
  DEF Next, Program, Environment, IOThread, SprinklersThread

(* The whole program implements the promise.                               *)
THEOREM Refinement == Spec => ImplementsPromise
<1>1. Init => Promise!Init
  BY InitMaps
<1>2. IInv /\ IInv' /\ [Next]_vars => [Promise!Next]_(Promise!vars)
  BY StepMaps
<1> QED BY <1>1, <1>2, Invariance, PTL DEF Spec, ImplementsPromise, Promise!Spec

=============================================================================

------------------------------ MODULE RtcAlarm ------------------------------
(***************************************************************************)
(* The registers of the DS3231 beside the date: how a call of setAlarm1 or *)
(* setAlarm2 becomes register bytes, what the chip matches with them, what *)
(* the library reads back, and how each call changes bits of the control   *)
(* and the status register by reading the register and writing it back,    *)
(* while the chip goes on setting flags and the program may be reset.      *)
(*                                                                         *)
(* The two alarms differ in one thing: Alarm 2 has no seconds register and *)
(* matches at second 0.  Here its seconds register is one that stays 0.    *)
(* Its modes are those of Alarm 1 without EVERY_SECOND, under other names. *)
(***************************************************************************)
EXTENDS Integers

CONSTANTS
  Setting,   \* the calls of setAlarm1 and setAlarm2 that are made
  Plain,     \* bound: the alarms that may be set when other settings change
  ChipTime   \* the times the chip shows

Alarm == {1, 2}
Field == {"second", "minute", "hour", "dydw"}

\* The modes, each with the fields it leaves out of the comparison.
Mode == {"EVERY", "MATCH_S", "MATCH_M", "MATCH_H_M", "MATCH_DT", "MATCH_DY"}
Ignored(mode) ==
  CASE mode = "EVERY" -> Field
    [] mode = "MATCH_S" -> {"minute", "hour", "dydw"}
    [] mode = "MATCH_M" -> {"hour", "dydw"}
    [] mode = "MATCH_H_M" -> {"dydw"}
    [] OTHER -> {}

ASSUME SettingAssumption ==
  \A s \in Setting :
    /\ s.alarm \in Alarm /\ s.mode \in Mode
    /\ s.second \in 0 .. 59 /\ s.minute \in 0 .. 59 /\ s.hour \in 0 .. 23
    /\ s.dydw \in 0 .. 31
    /\ s.alarm = 2 => s.second = 0 /\ s.mode # "EVERY"

ASSUME ChipTimeAssumption ==
  \A t \in ChipTime :
    /\ t.second \in 0 .. 59 /\ t.minute \in 0 .. 59 /\ t.hour \in 0 .. 23
    /\ t.date \in 1 .. 31 /\ t.day \in 1 .. 7

ASSUME PlainAssumption == Plain \subseteq Setting

NoSetting == [alarm |-> 0]

\* The bits of the two registers, as the names of those that are 1.
ControlBit == {"EOSC", "BBSQW", "CONV", "RS2", "RS1", "INTCN", "A2IE", "A1IE"}
StatusBit == {"EN32kHz", "A2F", "A1F"}
Enable(a) == IF a = 1 THEN "A1IE" ELSE "A2IE"
Flag(a) == IF a = 1 THEN "A1F" ELSE "A2F"
Flags == {Flag(a) : a \in Alarm}

VARIABLES
  pc,        \* where the program is in a call of the library
  target,    \* the alarm the call is about, 0 for none
  edit,      \* the change of a register that the call is making
  value,     \* the local copy of that register, changed
  report,    \* what the running isAlarm call will return
  registers, \* the chip: the bytes of each alarm
  control,   \* the chip: the control register
  status,    \* the chip: the status register
  setting,   \* history: the call that last set each alarm, if it is still set
  owed,      \* history: alarms that matched since last set, cleared or reported
  fresh,     \* history: alarms that matched between the transfers of a change
  wanted     \* history: the bits the calls so far have asked for

library == <<pc, target, edit, value, report>>
chip == <<registers, control, status>>
history == <<setting, owed, fresh, wanted>>
vars == <<library, chip, history>>

-----------------------------------------------------------------------------
(* Bytes.                                                                  *)

\* Slip: the tens are not divided out, and no longer fit a byte.
dec2bcdUndivided(dec) == (dec * 16) + (dec % 10)

dec2bcd(dec) == ((dec \div 10) * 16) + (dec % 10)
bcd2dec(bcd) == ((bcd \div 16) * 10) + (bcd % 16)

Bit(byte, n) == (byte \div n) % 2 = 1
SetBit(byte, n) == IF Bit(byte, n) THEN byte ELSE byte + n
ClearBit(byte, n) == IF Bit(byte, n) THEN byte - n ELSE byte

MaskBit == 128   \* AxMy: the field is not compared
DayBit == 64     \* DY/DT: the day field is a day of the week

\* Slip: no field is left out of the comparison.
EncodeUnmasked(s) ==
  [f \in Field |->
     IF f = "dydw" /\ s.mode = "MATCH_DY" THEN SetBit(dec2bcd(s[f]), DayBit) ELSE dec2bcd(s[f])]

\* The bytes setAlarm1 and setAlarm2 write.
Encode(s) ==
  [f \in Field |->
     LET masked == IF f \in Ignored(s.mode)
                     THEN SetBit(dec2bcd(s[f]), MaskBit) ELSE ClearBit(dec2bcd(s[f]), MaskBit)
     IN  IF f = "dydw" /\ s.mode = "MATCH_DY" THEN SetBit(masked, DayBit) ELSE masked]

\* Slip: the bytes are decoded with their mask bits.
GetAlarmMasked(bytes) == [f \in Field |-> bcd2dec(bytes[f])]

\* getAlarm1 and getAlarm2.
GetAlarm(bytes) == [f \in Field |-> bcd2dec(ClearBit(bytes[f], MaskBit))]

\* getAlarmType1 and getAlarmType2 decode the bytes first and then look for
\* the mask bits where decoding tends to move them.
GetAlarmType(a, bytes) ==
  LET fields == IF a = 1 THEN Field ELSE Field \ {"second"}
      ignored == {f \in fields : Bit(bcd2dec(bytes[f]), 64)}
      weekday == Bit(bcd2dec(bytes["dydw"]), 32)
  IN  {m \in Mode : Ignored(m) \cap fields = ignored /\ (m = "MATCH_DY") = weekday
                      /\ (a = 2 => m # "EVERY")}

\* readTemperature, in quarters of a degree.  The upper byte is widened to a
\* short without its sign, so the shift brings in zeros.
ReadTemperature(bytes) == ((bytes.msb * 256) + bytes.lsb) \div 64
TemperatureBytes(q) ==
  LET twos == (q * 64) % 65536 IN [msb |-> twos \div 256, lsb |-> twos % 256]

\* The chip compares the time registers with the fields that have no mask.
ChipByte(bytes, t, f) ==
  CASE f # "dydw" -> dec2bcd(t[f])
    [] f = "dydw" /\ Bit(bytes.dydw, DayBit) -> SetBit(dec2bcd(t.day), DayBit)
    [] OTHER -> dec2bcd(t.date)
Matches(bytes, t) ==
  \A f \in Field : Bit(bytes[f], MaskBit) \/ bytes[f] = ChipByte(bytes, t, f)

-----------------------------------------------------------------------------
(* A chip after power-on, whose zero date matches no time.                 *)

ZeroBytes == [f \in Field |-> 0]
PowerOnControl == {"RS2", "RS1", "INTCN"}
PowerOnStatus == {"EN32kHz"}

\* A change of one register and where the call goes on after it.
Change(register, on, off, then) ==
  [register |-> register, on |-> on, off |-> off, then |-> then]
NoChange == Change("control", {}, {}, "idle")

\* Which of two sets of bits a Boolean argument turns on; the other is turned off.
Switch(register, bits, on, then) ==
  Change(register, IF on THEN bits ELSE {}, IF on THEN {} ELSE bits, then)

ArmChange(a, armed, then) == Switch("control", {Enable(a)}, armed, then)
ClearChange(a, then) == Change("status", {}, {Flag(a)}, then)

\* Slip: the mask that keeps the time running leaves EOSC alone.
BatteryChangeLate(time, square) ==
  LET wave == Switch("control", {"BBSQW"}, square, "idle")
  IN  [wave EXCEPT !.on = @ \cup (IF time THEN {} ELSE {"EOSC"}),
                   !.off = @ \cup (IF time THEN {"INTCN"} ELSE {})]

\* setBattery.  The mask for a clock that runs on the battery clears INTCN
\* along with EOSC, and so turns the square wave on.
BatteryChange(time, square) ==
  LET wave == Switch("control", {"BBSQW"}, square, "idle")
  IN  [wave EXCEPT !.on = @ \cup (IF time THEN {} ELSE {"EOSC"}),
                   !.off = @ \cup (IF time THEN {"EOSC", "INTCN"} ELSE {})]

Init ==
  /\ pc = "idle" /\ target = 0 /\ edit = NoChange /\ value = {} /\ report = FALSE
  /\ registers = [a \in Alarm |-> ZeroBytes]
  /\ control = PowerOnControl /\ status = PowerOnStatus
  /\ setting = [a \in Alarm |-> NoSetting]
  /\ owed = {} /\ fresh = {}
  /\ wanted = PowerOnControl \cup PowerOnStatus

-----------------------------------------------------------------------------
(* The library, one bus transfer a step.                                   *)

\* Bound: alarms that are not Plain are set only while every setting but the
\* interrupt enables is as at power-on, and those settings change only while
\* no such alarm is set.
AtPowerOn ==
  /\ (control \ {"A1IE", "A2IE"}) = PowerOnControl /\ "EN32kHz" \in status
  /\ (wanted \ {"A1IE", "A2IE"}) = PowerOnControl \cup PowerOnStatus
PlainOnly == \A a \in Alarm : registers[a] = ZeroBytes \/ setting[a] \in Plain

\* A call that changes a register starts: the register is read next.
Begin(change, a) ==
  /\ edit' = change
  /\ target' = a /\ value' = {}
  /\ report' = FALSE
  /\ pc' = "read"

\* setAlarm1, setAlarm2: the bytes, then armAlarm1 or armAlarm2, then
\* clearAlarm1 or clearAlarm2.
SetAlarm(s, armed) ==
  /\ pc = "idle" /\ (s \in Plain \/ AtPowerOn)
  /\ registers' = [registers EXCEPT ![s.alarm] = Encode(s)]
  /\ setting' = [setting EXCEPT ![s.alarm] = s]
  /\ Begin(ArmChange(s.alarm, armed, "clear"), s.alarm)
  /\ owed' = owed \ {s.alarm}
  /\ wanted' = IF armed THEN wanted \cup {Enable(s.alarm)} ELSE wanted \ {Enable(s.alarm)}
  /\ UNCHANGED <<control, status, fresh>>

\* The calls that change settings: armAlarm1, armAlarm2, setBattery,
\* enableOutput, setOutput, enable32kHz and forceConversion.
Configure(change) ==
  /\ pc = "idle" /\ PlainOnly
  /\ Begin(change, 0)
  /\ wanted' = (wanted \ change.off) \cup (change.on \ {"CONV"})
  /\ UNCHANGED <<chip, setting, owed, fresh>>

armAlarm == \E a \in Alarm, armed \in BOOLEAN : Configure(ArmChange(a, armed, "idle"))

setBattery ==
  \E time, square \in BOOLEAN :
    /\ pc = "idle" /\ PlainOnly
    /\ Begin(BatteryChange(time, square), 0)
    /\ wanted' = (wanted \ {"EOSC", "BBSQW"})
                   \cup (IF time THEN {} ELSE {"EOSC"}) \cup (IF square THEN {"BBSQW"} ELSE {})
    /\ UNCHANGED <<chip, setting, owed, fresh>>

enableOutput == \E enabled \in BOOLEAN : Configure(Switch("control", {"INTCN"}, ~enabled, "idle"))

setOutput ==
  \E mode \in SUBSET {"RS2", "RS1"} :
    Configure(Change("control", mode, {"RS2", "RS1"}, "idle"))

enable32kHz == \E enabled \in BOOLEAN : Configure(Switch("status", {"EN32kHz"}, enabled, "idle"))

forceConversion == Configure(Change("control", {"CONV"}, {}, "convert"))

\* clearAlarm1, clearAlarm2.
ClearAlarm(a) ==
  /\ pc = "idle"
  /\ Begin(ClearChange(a, "idle"), a)
  /\ UNCHANGED <<chip, history>>

\* isAlarm1(clear), isAlarm2(clear): one look at the status register.
IsAlarm(a, clear) ==
  /\ pc = "idle"
  /\ report' = (Flag(a) \in status)
  /\ IF Flag(a) \in status /\ clear
       THEN pc' = "read" /\ target' = a /\ edit' = ClearChange(a, "return")
       ELSE /\ pc' = IF Flag(a) \in status THEN "return" ELSE "idle"
            /\ UNCHANGED <<target, edit>>
  /\ UNCHANGED <<value, chip, history>>

\* A change is written: its locals are gone.
End ==
  /\ edit' = NoChange /\ target' = 0 /\ value' = {}
  /\ fresh' = {}

\* readRegister8, and the change of the local copy.
Read ==
  /\ pc = "read"
  /\ value' = ((IF edit.register = "control" THEN control ELSE status) \ edit.off) \cup edit.on
  /\ pc' = "write"
  /\ UNCHANGED <<target, edit, report, chip, history>>

\* Slip: setting an alarm leaves its flag as it is.
WriteControlAndReturn ==
  /\ pc = "write" /\ edit.register = "control"
  /\ control' = value
  /\ pc' = (IF edit.then = "clear" THEN "idle" ELSE edit.then)
  /\ End
  /\ UNCHANGED <<report, registers, status, setting, owed, wanted>>

\* writeRegister8: the chip leaves the control register alone, except that it
\* ends a conversion.
WriteControl ==
  /\ pc = "write" /\ edit.register = "control"
  /\ control' = value
  /\ IF edit.then = "clear"
       THEN /\ pc' = "read" /\ edit' = ClearChange(target, "idle")
            /\ value' = {} /\ fresh' = {} /\ UNCHANGED target
       ELSE pc' = edit.then /\ End
  /\ UNCHANGED <<report, registers, status, setting, owed, wanted>>

\* Slip: the chip's flags are overwritten with what was read: none is kept.
WriteStatusZero ==
  /\ pc = "write" /\ edit.register = "status"
  /\ status' = value \ Flags
  /\ owed' = owed \ {target}
  /\ pc' = edit.then
  /\ End
  /\ UNCHANGED <<report, registers, control, setting, wanted>>

\* A flag of the chip can be written to 0 only: writing 1 changes nothing.
WriteStatus ==
  /\ pc = "write" /\ edit.register = "status"
  /\ status' = (value \ Flags) \cup (value \cap status)
  /\ owed' = owed \ {target}
  /\ pc' = edit.then
  /\ End
  /\ UNCHANGED <<report, registers, control, setting, wanted>>

\* forceConversion polls the control register until the chip has cleared CONV.
AwaitConversion ==
  /\ pc = "convert" /\ "CONV" \notin control
  /\ pc' = "idle"
  /\ UNCHANGED <<target, edit, value, report, chip, history>>

\* isAlarm returns true.
Return ==
  /\ pc = "return"
  /\ report' = FALSE
  /\ pc' = "idle"
  /\ UNCHANGED <<target, edit, value, chip, history>>

\* setDateTime writes eight bytes, the last one a 0 into the seconds register
\* of Alarm 1, which follows those of the time: what was set there is gone.
SetDateTime ==
  /\ pc = "idle"
  /\ registers' = [registers EXCEPT ![1].second = 0]
  /\ setting' = [setting EXCEPT ![1] = NoSetting]
  /\ UNCHANGED <<library, control, status, owed, fresh, wanted>>

Library ==
  \/ SetDateTime
  \/ \E s \in Setting, armed \in BOOLEAN : SetAlarm(s, armed)
  \/ armAlarm \/ setBattery \/ enableOutput \/ setOutput \/ enable32kHz \/ forceConversion
  \/ \E a \in Alarm : ClearAlarm(a) \/ IsAlarm(a, TRUE) \/ IsAlarm(a, FALSE)
  \/ Read \/ WriteControl \/ WriteStatus \/ AwaitConversion \/ Return

-----------------------------------------------------------------------------
(* The chip, and resets of the program.                                    *)

\* The chip shows time t and sets the flags of the alarms that match.
Tick(t) ==
  LET matching == {a \in Alarm : Matches(registers[a], t)}
  IN  /\ status' = status \cup {Flag(a) : a \in matching}
      /\ owed' = owed \cup matching
      /\ fresh' = IF pc = "write" THEN fresh \cup matching ELSE fresh
      /\ UNCHANGED <<library, registers, control, setting, wanted>>

\* A forced conversion ends.
Converted ==
  /\ "CONV" \in control
  /\ control' = control \ {"CONV"}
  /\ UNCHANGED <<library, registers, status, history>>

\* The microcontroller restarts, in a call or between two, and begin() sets
\* the battery up; the chip keeps its registers.  What an interrupted call
\* has asked for may be done or not: the history takes over what is there.
Restart ==
  /\ PlainOnly
  /\ Begin(BatteryChange(TRUE, FALSE), 0)
  /\ wanted' = (IF pc = "idle" THEN wanted ELSE (control \ {"CONV"}) \cup (status \ Flags))
                  \ {"EOSC", "BBSQW"}
  /\ owed' = IF pc = "idle" THEN owed ELSE owed \cup {a \in Alarm : Flag(a) \in status}
  /\ fresh' = {}
  /\ UNCHANGED <<chip, setting>>

Next == Library \/ Converted \/ Restart \/ \E t \in ChipTime : Tick(t)

Spec == Init /\ [][Next]_vars

-----------------------------------------------------------------------------
(* Properties.                                                             *)

TypeOK ==
  /\ pc \in {"idle", "read", "write", "convert", "return"}
  /\ target \in {0} \cup Alarm
  /\ edit.register \in {"control", "status"} /\ edit.then \in {"idle", "clear", "convert", "return"}
  /\ edit.on \cup edit.off \cup value \subseteq ControlBit \cup StatusBit
  /\ report \in BOOLEAN
  /\ registers \in [Alarm -> [Field -> 0 .. 255]]
  /\ control \subseteq ControlBit /\ status \subseteq StatusBit
  /\ setting \in [Alarm -> Setting \cup {NoSetting}]
  /\ owed \subseteq Alarm /\ fresh \subseteq Alarm
  /\ wanted \subseteq ControlBit \cup StatusBit

IsSet(a) == setting[a] # NoSetting

\* The times a call of setAlarm1 or setAlarm2 stands for.
Means(s, t) ==
  /\ "second" \in Ignored(s.mode) \/ s.second = t.second
  /\ "minute" \in Ignored(s.mode) \/ s.minute = t.minute
  /\ "hour" \in Ignored(s.mode) \/ s.hour = t.hour
  /\ s.mode = "MATCH_DT" => s.dydw = t.date
  /\ s.mode = "MATCH_DY" => s.dydw = t.day

(* The chip matches exactly the times that were asked for: no field is     *)
(* compared by its mask or its decimal value by mistake, whatever alarm    *)
(* was in the registers before.                                            *)
MatchesWhatWasSet ==
  \A a \in Alarm : IsSet(a) =>
    \A t \in ChipTime : Matches(registers[a], t) <=> Means(setting[a], t)

(* Between calls, a flag that is up is a match of the present setting that *)
(* was neither reported nor cleared: an alarm that is set while the one    *)
(* before it is pending does not ring at once for the old time, unless a   *)
(* reset cut the call short.                                               *)
NoFalseAlarm ==
  pc = "idle" => \A a \in Alarm : Flag(a) \in status => a \in owed

(* A flag that is up and is not the one being cleared goes down only if it *)
(* came up between the two transfers of a change of the status register:   *)
(* whatever is set, tested, cleared and switched, each alarm's match stays *)
(* until it is reported or cleared itself, and the window in which one is  *)
(* lost is a bus transfer.                                                 *)
OtherAlarmKept ==
  [][\A a \in Alarm :
       Flag(a) \in status \ status' => a = target \/ a \in fresh]_vars

(* Between calls, the control register and the 32 kHz bit are what the     *)
(* calls so far have asked for, in any order and with resets in between:   *)
(* no call's mask undoes another call's bit.  The exception is INTCN,      *)
(* which setBattery and begin() clear unasked; no call ever sets it        *)
(* unasked.                                                                *)
AsAsked ==
  pc = "idle" =>
    LET settings == (control \ {"CONV"}) \cup (status \ Flags)
    IN  settings \subseteq wanted /\ wanted \ settings \subseteq {"INTCN"}

\* getAlarmType1 and getAlarmType2 find each bit where they look for it.
BitsFound(s) ==
  /\ \A f \in Ignored(s.mode) \ (IF s.alarm = 1 THEN {} ELSE {"second"}) :
       s[f] < (IF f = "dydw" THEN 16 ELSE 48)
  /\ s.mode = "MATCH_DY" => s.dydw < 24

\* Quarters of a degree that the chip's sensor can show.
Quarter == -512 .. 511

TemperatureReadsBack ==
  \A q \in Quarter : ReadTemperature(TemperatureBytes(q)) = IF q < 0 THEN q + 1024 ELSE q

(* What getAlarm1 and getAlarm2 read back is what was set, day of the week *)
(* excepted: decoding takes the mask bits off and keeps the digits.  The   *)
(* mode reads back exactly if no field that is left out of the comparison  *)
(* has a value that moves its mask bit when it is decoded: 48 and more for *)
(* seconds and minutes, 16 and more for days; a day of the week is found   *)
(* to be one below 24.  And the temperature is read right from 0 degrees   *)
(* up, and 256 degrees too high below.                                     *)
ReadsBack ==
  /\ \A a \in Alarm : IsSet(a) =>
       /\ \A f \in Field : (f # "dydw" \/ setting[a].mode # "MATCH_DY") =>
            GetAlarm(registers[a])[f] = setting[a][f]
       /\ GetAlarmType(a, registers[a]) = {setting[a].mode} <=> BitsFound(setting[a])
  /\ TemperatureReadsBack

\* What the transfers add up to.
DueTimes == [s \in Setting |-> {t \in ChipTime : Means(s, t)}]
SettingsOf == [a \in Alarm |-> {s \in Setting : s.alarm = a}]
Ringing == {a \in Alarm : Flag(a) \in status}

Promise == INSTANCE RtcPromise
             WITH Settings <- SettingsOf, Unknown <- NoSetting, Time <- ChipTime, Due <- DueTimes,
                  ringing <- Ringing, busy <- pc # "idle", clearing <- target, answer <- report,
                  recent <- fresh

(* Transfer by transfer, the driver and the chip do what two simple alarms *)
(* would: each call takes effect in one moment, an alarm rings at the      *)
(* times it was set for and at no others, a flag that is reported and      *)
(* cleared is reported after it went down, and nothing but its own call    *)
(* takes a flag down, the window between two transfers excepted.           *)
KeepsPromise == Promise!Spec

=============================================================================

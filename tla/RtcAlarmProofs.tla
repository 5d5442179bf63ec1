--------------------------- MODULE RtcAlarmProofs ---------------------------
(***************************************************************************)
(* Proofs about RtcAlarm, for any alarms, any times the chip may show and  *)
(* any order of calls, matches and resets: types, the bytes of the alarms  *)
(* against the times they match, what reads back, the flags, the settings, *)
(* and that transfer by transfer they are the two alarms of RtcPromise.    *)
(***************************************************************************)
EXTENDS RtcAlarm, TLAPS

-----------------------------------------------------------------------------
(* The inductive invariant.                                                *)

Busy == {"read", "write"}

\* The change in progress: one of the settings, or the enable bit of the
\* alarm that is being set, or the flag of an alarm.
Changes ==
  /\ pc \in {"idle", "read", "write", "convert", "return"}
  /\ edit.then \in {"idle", "clear", "convert", "return"}
  /\ edit.register \in {"control", "status"}
  /\ edit.on \subseteq (IF edit.register = "control" THEN ControlBit ELSE {"EN32kHz"})
  /\ pc \in Busy /\ edit.register = "control" =>
       /\ edit.off \subseteq ControlBit
       /\ target \in Alarm <=> edit.then = "clear"
  /\ pc \in Busy /\ edit.register = "status" =>
       /\ edit.then # "clear"
       /\ IF target \in Alarm THEN edit.off = {Flag(target)} /\ edit.on = {}
                              ELSE edit.off \subseteq {"EN32kHz"}

\* The local copy is the register as it was read, changed.
Copies ==
  pc = "write" =>
    /\ edit.register = "control" =>
         value \ {"CONV"} = ((control \ edit.off) \cup edit.on) \ {"CONV"}
    /\ edit.register = "status" =>
         /\ value \ Flags = ((status \ edit.off) \cup edit.on) \ Flags
         /\ value \cap edit.off \cap Flags = {}
         /\ \A a \in Alarm : Flag(a) \in status \ value => a = target \/ a \in fresh

\* A flag is owed, or is of the alarm whose flag the call is about to clear.
FlagsOwed ==
  \A a \in Alarm : Flag(a) \in status => a \in owed \/ (pc \in Busy /\ target = a)

\* The settings when the change in progress is done.
Settings == (control \ {"CONV"}) \cup (status \ Flags)
Settled ==
  IF pc \in Busy THEN (Settings \ (edit.off \ Flags)) \cup (edit.on \ {"CONV"}) ELSE Settings
Asked == Settled \subseteq wanted /\ wanted \ Settled \subseteq {"INTCN"}

\* The bytes of an alarm that is set are those its call wrote.
Written ==
  \A a \in Alarm : IsSet(a) =>
    setting[a].alarm = a /\ setting[a] \in Setting /\ registers[a] = Encode(setting[a])

IInv == TypeOK /\ Changes /\ Copies /\ FlagsOwed /\ Asked /\ Written

-----------------------------------------------------------------------------
(* Bytes.                                                                  *)

(* Two digits fill the two halves of a byte and come back out of them; a   *)
(* value below 60 leaves the mask bit free, one below 32 the day bit too.  *)
LEMMA Digits ==
  ASSUME NEW x \in 0 .. 59
  PROVE  /\ dec2bcd(x) \in 0 .. 89
         /\ bcd2dec(dec2bcd(x)) = x
         /\ ClearBit(dec2bcd(x), MaskBit) = dec2bcd(x)
         /\ SetBit(dec2bcd(x), MaskBit) = dec2bcd(x) + 128
         /\ ~Bit(dec2bcd(x), MaskBit) /\ Bit(dec2bcd(x) + 128, MaskBit)
         /\ x < 32 => dec2bcd(x) \in 0 .. 49 /\ ~Bit(dec2bcd(x), DayBit)
<1>1. x \div 10 \in 0 .. 5 /\ x % 10 \in 0 .. 9 /\ x = (x \div 10) * 10 + (x % 10)
  <2>1. x = (x \div 10) * 10 + (x % 10)
    OBVIOUS
  <2>2. x \div 10 \in Int /\ x % 10 \in 0 .. 9
    OBVIOUS
  <2> QED BY <2>1, <2>2
<1>2. dec2bcd(x) = ((x \div 10) * 16) + (x % 10)
  BY DEF dec2bcd
<1>3. dec2bcd(x) \in 0 .. 89
  BY <1>1, <1>2
<1>4. dec2bcd(x) \div 16 = x \div 10 /\ dec2bcd(x) % 16 = x % 10
  BY <1>1, <1>2
<1>5. bcd2dec(dec2bcd(x)) = x
  BY <1>1, <1>4 DEF bcd2dec
<1>6. x < 32 => dec2bcd(x) \in 0 .. 49
  BY <1>1, <1>2
<1> HIDE DEF dec2bcd
<1>7. ASSUME NEW y \in 0 .. 89
      PROVE  /\ ~Bit(y, 128) /\ Bit(y + 128, 128)
             /\ y \in 0 .. 49 => ~Bit(y, 64)
  BY <1>7 DEF Bit
<1> QED BY <1>3, <1>5, <1>6, <1>7 DEF ClearBit, SetBit, MaskBit, DayBit

(* Different values have different digits.                                 *)
LEMMA DigitsDiffer ==
  ASSUME NEW x \in 0 .. 59, NEW y \in 0 .. 59
  PROVE  dec2bcd(x) = dec2bcd(y) <=> x = y
BY Digits

(* What a byte of an alarm is.                                             *)
LEMMA Encoded ==
  ASSUME NEW s \in Setting, NEW f \in Field
  PROVE  LET masked == IF f \in Ignored(s.mode) THEN dec2bcd(s[f]) + 128 ELSE dec2bcd(s[f])
         IN  Encode(s)[f] = IF f = "dydw" /\ s.mode = "MATCH_DY"
                              THEN SetBit(masked, DayBit) ELSE masked
<1>1. s[f] \in 0 .. 59
  BY SettingAssumption DEF Field
<1> QED BY <1>1, Digits DEF Encode

LEMMA EncodedByte ==
  ASSUME NEW s \in Setting
  PROVE  Encode(s) \in [Field -> 0 .. 255]
<1>1. ASSUME NEW f \in Field PROVE Encode(s)[f] \in 0 .. 255
  <2>0. s[f] \in 0 .. 59
    BY SettingAssumption DEF Field
  <2>1. dec2bcd(s[f]) \in 0 .. 89
    BY <2>0, Digits, Zenon
  <2>2. ASSUME NEW b \in 0 .. 89
        PROVE  b + 128 \in 0 .. 255 /\ SetBit(b, 64) \in 0 .. 255 /\ SetBit(b + 128, 64) \in 0 .. 255
    BY <2>2 DEF SetBit, Bit
  <2>3. /\ dec2bcd(s[f]) + 128 \in 0 .. 255 /\ dec2bcd(s[f]) \in 0 .. 255
        /\ SetBit(dec2bcd(s[f]) + 128, DayBit) \in 0 .. 255 /\ SetBit(dec2bcd(s[f]), DayBit) \in 0 .. 255
    <3> DEFINE d == dec2bcd(s[f])
    <3>1. d \in 0 .. 89
      BY <2>1
    <3> HIDE DEF d
    <3>2. /\ d + 128 \in 0 .. 255 /\ d \in 0 .. 255
          /\ SetBit(d + 128, DayBit) \in 0 .. 255 /\ SetBit(d, DayBit) \in 0 .. 255
      <4>1. /\ d + 128 \in 0 .. 255 /\ SetBit(d, 64) \in 0 .. 255
            /\ SetBit(d + 128, 64) \in 0 .. 255
        BY <2>2, <3>1, Zenon
      <4>2. d \in 0 .. 255
        BY <3>1
      <4> QED BY <4>1, <4>2, Zenon DEF DayBit
    <3> QED BY <3>2 DEF d
  <2> QED BY <2>3, Encoded
<1>2. Encode(s) = [f \in Field |-> Encode(s)[f]]
  BY DEF Encode
<1> QED BY <1>1, <1>2

(* The chip matches the bytes of a setting at the times it stands for.     *)
LEMMA EncodedMatches ==
  ASSUME NEW s \in Setting, NEW t \in ChipTime
  PROVE  Matches(Encode(s), t) <=> Means(s, t)
<1> DEFINE Agrees(f) == Bit(Encode(s)[f], MaskBit) \/ Encode(s)[f] = ChipByte(Encode(s), t, f)
<1>0. /\ s.mode \in Mode
      /\ s.second \in 0 .. 59 /\ s.minute \in 0 .. 59 /\ s.hour \in 0 .. 59 /\ s.dydw \in 0 .. 31
      /\ t.second \in 0 .. 59 /\ t.minute \in 0 .. 59 /\ t.hour \in 0 .. 59
      /\ t.date \in 0 .. 31 /\ t.day \in 0 .. 7
  BY SettingAssumption, ChipTimeAssumption
<1>1. ASSUME NEW f \in {"second", "minute", "hour"}
      PROVE  Agrees(f) <=> f \in Ignored(s.mode) \/ s[f] = t[f]
  <2>1. s[f] \in 0 .. 59 /\ t[f] \in 0 .. 59
    BY <1>0
  <2>2. Encode(s)[f] = IF f \in Ignored(s.mode) THEN dec2bcd(s[f]) + 128 ELSE dec2bcd(s[f])
    BY Encoded DEF Field
  <2>3. ChipByte(Encode(s), t, f) = dec2bcd(t[f])
    BY DEF ChipByte
  <2>4. CASE f \in Ignored(s.mode)
    BY <2>1, <2>2, <2>4, Digits, ZenonT(60)
  <2>5. CASE f \notin Ignored(s.mode)
    <3>1. ~Bit(Encode(s)[f], MaskBit) /\ Encode(s)[f] = dec2bcd(s[f])
      <4>1. ~Bit(dec2bcd(s[f]), MaskBit)
        BY <2>1, Digits, Zenon
      <4> QED BY <2>2, <2>5, <4>1, Zenon
    <3>2. dec2bcd(s[f]) = dec2bcd(t[f]) <=> s[f] = t[f]
      BY <2>1, DigitsDiffer
    <3> QED BY <2>3, <2>5, <3>1, <3>2
  <2> QED BY <2>4, <2>5
<1>2. Agrees("dydw") <=> /\ s.mode = "MATCH_DT" => s.dydw = t.date
                         /\ s.mode = "MATCH_DY" => s.dydw = t.day
  <2>1. /\ s["dydw"] \in 0 .. 59 /\ t["date"] \in 0 .. 59 /\ t["day"] \in 0 .. 59
        /\ s.dydw = s["dydw"] /\ "dydw" \in Field
    BY <1>0 DEF Field
  <2>2. /\ dec2bcd(s.dydw) \in 0 .. 49 /\ dec2bcd(t.date) \in 0 .. 49 /\ dec2bcd(t.day) \in 0 .. 49
        /\ ~Bit(dec2bcd(s.dydw), DayBit) /\ ~Bit(dec2bcd(t.day), DayBit)
        /\ ~Bit(dec2bcd(s.dydw), MaskBit) /\ Bit(dec2bcd(s.dydw) + 128, MaskBit)
    <3>1. \A x \in 0 .. 31 : x \in 0 .. 59 /\ x < 32
      OBVIOUS
    <3>2. t.day \in 0 .. 31
      BY <1>0
    <3>3. \A x \in 0 .. 31 :
            /\ dec2bcd(x) \in 0 .. 49 /\ ~Bit(dec2bcd(x), DayBit)
            /\ ~Bit(dec2bcd(x), MaskBit) /\ Bit(dec2bcd(x) + 128, MaskBit)
      BY <3>1, Digits, Zenon
    <3> QED BY <1>0, <3>2, <3>3, Zenon
  <2>3. CASE "dydw" \in Ignored(s.mode)
    <3>1. s.mode # "MATCH_DY" /\ s.mode # "MATCH_DT"
      BY <2>3 DEF Ignored
    <3>2. Encode(s)["dydw"] = dec2bcd(s.dydw) + 128
      BY <2>1, <2>3, <3>1, Encoded
    <3> QED BY <2>2, <3>1, <3>2
  <2>4. CASE s.mode = "MATCH_DY"
    <3>1. "dydw" \notin Ignored(s.mode)
      BY <2>4 DEF Ignored
    <3>2. Encode(s)["dydw"] = SetBit(dec2bcd(s.dydw), DayBit)
      BY <2>1, <2>4, <3>1, Encoded
    <3>3. ASSUME NEW b \in 0 .. 49, ~Bit(b, 64)
          PROVE  SetBit(b, 64) = b + 64 /\ Bit(b + 64, 64) /\ ~Bit(b + 64, 128)
      BY <3>3 DEF SetBit, Bit
    <3>4. /\ Encode(s)["dydw"] = dec2bcd(s.dydw) + 64
          /\ Bit(Encode(s)["dydw"], DayBit) /\ ~Bit(Encode(s)["dydw"], MaskBit)
          /\ SetBit(dec2bcd(t.day), DayBit) = dec2bcd(t.day) + 64
      BY <2>2, <3>2, <3>3 DEF DayBit, MaskBit
    <3>5. ChipByte(Encode(s), t, "dydw") = dec2bcd(t.day) + 64
      BY <3>4 DEF ChipByte
    <3>6. dec2bcd(s.dydw) + 64 = dec2bcd(t.day) + 64 <=> s.dydw = t.day
      BY <2>1, <2>2, DigitsDiffer
    <3> QED BY <2>4, <3>4, <3>5, <3>6
  <2>5. CASE "dydw" \notin Ignored(s.mode) /\ s.mode # "MATCH_DY"
    <3>1. s.mode = "MATCH_DT"
      BY <1>0, <2>5 DEF Mode, Ignored, Field
    <3>2. Encode(s)["dydw"] = dec2bcd(s.dydw)
      BY <2>1, <2>5, Encoded
    <3>3. ChipByte(Encode(s), t, "dydw") = dec2bcd(t.date)
      BY <2>2, <3>2 DEF ChipByte
    <3>4. dec2bcd(s.dydw) = dec2bcd(t.date) <=> s.dydw = t.date
      BY <2>1, DigitsDiffer
    <3> QED BY <2>2, <3>1, <3>2, <3>3, <3>4
  <2> QED BY <2>3, <2>4, <2>5
<1>3. Matches(Encode(s), t) <=> \A f \in Field : Agrees(f)
  BY DEF Matches
<1> HIDE DEF Agrees
<1> QED BY <1>1, <1>2, <1>3 DEF Means, Field

-----------------------------------------------------------------------------
(* Types and the change in progress.                                       *)

\* A change that the calls of Configure make.
Setup(change) ==
  /\ change.register \in {"control", "status"}
  /\ change.then \in (IF change.register = "control" THEN {"idle", "convert"} ELSE {"idle"})
  /\ change.on \cup change.off
       \subseteq (IF change.register = "control" THEN ControlBit ELSE {"EN32kHz"})

LEMMA ConfigureSo ==
  ASSUME armAlarm \/ enableOutput \/ setOutput \/ enable32kHz \/ forceConversion
  PROVE  \E change : Configure(change) /\ Setup(change)
<1> USE DEF Setup, ControlBit
<1>1. CASE armAlarm
  <2>1. PICK a \in Alarm, armed \in BOOLEAN : Configure(ArmChange(a, armed, "idle"))
    BY <1>1 DEF armAlarm
  <2>2. Setup(ArmChange(a, armed, "idle"))
    BY <2>1 DEF ArmChange, Switch, Change, Enable
  <2> QED BY <2>1, <2>2
<1>2. CASE enableOutput
  <2>1. PICK enabled \in BOOLEAN : Configure(Switch("control", {"INTCN"}, ~enabled, "idle"))
    BY <1>2 DEF enableOutput
  <2>2. Setup(Switch("control", {"INTCN"}, ~enabled, "idle"))
    BY DEF Switch, Change
  <2> QED BY <2>1, <2>2
<1>3. CASE setOutput
  <2>1. PICK mode \in SUBSET {"RS2", "RS1"} :
          Configure(Change("control", mode, {"RS2", "RS1"}, "idle"))
    BY <1>3 DEF setOutput
  <2>2. Setup(Change("control", mode, {"RS2", "RS1"}, "idle"))
    BY DEF Change
  <2> QED BY <2>1, <2>2
<1>4. CASE enable32kHz
  <2>1. PICK enabled \in BOOLEAN : Configure(Switch("status", {"EN32kHz"}, enabled, "idle"))
    BY <1>4 DEF enable32kHz
  <2>2. Setup(Switch("status", {"EN32kHz"}, enabled, "idle"))
    BY DEF Switch, Change
  <2> QED BY <2>1, <2>2
<1>5. CASE forceConversion
  <2>1. Setup(Change("control", {"CONV"}, {}, "convert"))
    BY DEF Change
  <2> QED BY <1>5, <2>1 DEF forceConversion
<1> QED BY <1>1, <1>2, <1>3, <1>4, <1>5

LEMMA BatterySo ==
  ASSUME NEW time \in BOOLEAN, NEW square \in BOOLEAN
  PROVE  /\ Setup(BatteryChange(time, square))
         /\ BatteryChange(time, square).register = "control"
         /\ BatteryChange(time, square).then = "idle"
         /\ BatteryChange(time, square).on =
              (IF time THEN {} ELSE {"EOSC"}) \cup (IF square THEN {"BBSQW"} ELSE {})
         /\ BatteryChange(time, square).off =
              (IF time THEN {"EOSC", "INTCN"} ELSE {}) \cup (IF square THEN {} ELSE {"BBSQW"})
<1> DEFINE wave == Switch("control", {"BBSQW"}, square, "idle")
<1>1. wave = [register |-> "control", on |-> IF square THEN {"BBSQW"} ELSE {},
              off |-> IF square THEN {} ELSE {"BBSQW"}, then |-> "idle"]
  BY DEF Switch, Change
<1>2. BatteryChange(time, square) =
        [wave EXCEPT !.on = @ \cup (IF time THEN {} ELSE {"EOSC"}),
                     !.off = @ \cup (IF time THEN {"EOSC", "INTCN"} ELSE {})]
  BY DEF BatteryChange
<1> HIDE DEF wave
<1>3. /\ BatteryChange(time, square).register = "control"
      /\ BatteryChange(time, square).then = "idle"
      /\ BatteryChange(time, square).on =
           (IF square THEN {"BBSQW"} ELSE {}) \cup (IF time THEN {} ELSE {"EOSC"})
      /\ BatteryChange(time, square).off =
           (IF square THEN {} ELSE {"BBSQW"}) \cup (IF time THEN {"EOSC", "INTCN"} ELSE {})
  BY <1>1, <1>2
<1> QED BY <1>3 DEF Setup, ControlBit

(* A call of Configure or setBattery, or the begin() of a reset, starts a  *)
(* change of the settings.                                                 *)
LEMMA Starts ==
  ASSUME armAlarm \/ setBattery \/ enableOutput \/ setOutput \/ enable32kHz
           \/ forceConversion \/ Restart
  PROVE  /\ Setup(edit') /\ target' = 0 /\ value' = {} /\ report' = FALSE /\ pc' = "read"
         /\ UNCHANGED <<chip, setting>>
<1>1. CASE armAlarm \/ enableOutput \/ setOutput \/ enable32kHz \/ forceConversion
  BY <1>1, ConfigureSo DEF Configure, Begin
<1>2. CASE setBattery
  BY <1>2, BatterySo DEF setBattery, Begin
<1>3. CASE Restart
  BY <1>3, BatterySo DEF Restart, Begin
<1> QED BY <1>1, <1>2, <1>3

LEMMA FlagSo ==
  /\ Flag(1) = "A1F" /\ Flag(2) = "A2F" /\ Flags = {"A1F", "A2F"}
  /\ \A a \in Alarm : Flag(a) \in Flags
BY DEF Flag, Flags, Alarm

LEMMA ChangesStep == Changes /\ [Next]_vars => Changes'
<1> SUFFICES ASSUME Changes, [Next]_vars PROVE Changes'
  OBVIOUS
<1> USE DEF Changes
<1>1. ASSUME NEW s \in Setting, NEW armed \in BOOLEAN, SetAlarm(s, armed)
      PROVE  Changes'
  <2>1. s.alarm \in Alarm /\ Enable(s.alarm) \in ControlBit
    BY SettingAssumption DEF Alarm, Enable, ControlBit
  <2> QED BY <1>1, <2>1 DEF SetAlarm, Begin, ArmChange, Switch, Change
<1>2. CASE armAlarm \/ setBattery \/ enableOutput \/ setOutput \/ enable32kHz
             \/ forceConversion \/ Restart
  <2>1. target' = 0 /\ pc' = "read"
    BY <1>2, Starts
  <2>2. /\ edit'.then \in {"idle", "convert"} /\ edit'.register \in {"control", "status"}
        /\ edit'.on \cup edit'.off
             \subseteq (IF edit'.register = "control" THEN ControlBit ELSE {"EN32kHz"})
    BY <1>2, Starts DEF Setup
  <2>3. edit'.register = "control" => edit'.on \subseteq ControlBit /\ edit'.off \subseteq ControlBit
    BY <2>2
  <2>4. edit'.register = "status" => edit'.on \subseteq {"EN32kHz"} /\ edit'.off \subseteq {"EN32kHz"}
    BY <2>2
  <2>5. target' \notin Alarm /\ edit'.then # "clear"
    BY <2>1, <2>2 DEF Alarm
  <2> QED BY <2>1, <2>2, <2>3, <2>4, <2>5
<1>3. ASSUME NEW a \in Alarm, ClearAlarm(a)
      PROVE  Changes'
  BY <1>3 DEF ClearAlarm, Begin, ClearChange, Change
<1>4. ASSUME NEW a \in Alarm, NEW clear \in BOOLEAN, IsAlarm(a, clear)
      PROVE  Changes'
  BY <1>4 DEF IsAlarm, ClearChange, Change, Busy
<1>5. CASE Read
  BY <1>5 DEF Read, Busy
<1>6. CASE WriteControl
  BY <1>6 DEF WriteControl, End, NoChange, ClearChange, Change, Busy
<1>7. CASE WriteStatus
  BY <1>7 DEF WriteStatus, End, NoChange, Change, Busy
<1>8. CASE AwaitConversion \/ Return
  BY <1>8 DEF AwaitConversion, Return, Busy
<1>9. CASE UNCHANGED <<pc, edit, target>>
  BY <1>9
<1> QED BY <1>1, <1>2, <1>3, <1>4, <1>5, <1>6, <1>7, <1>8, <1>9
        DEF Next, Library, SetDateTime, Converted, Tick, library, vars

LEMMA TypeStep == TypeOK /\ Changes /\ Copies /\ [Next]_vars => TypeOK'
<1> SUFFICES ASSUME TypeOK, Changes, Copies, [Next]_vars PROVE TypeOK'
  OBVIOUS
<1>0. /\ control \subseteq ControlBit /\ status \subseteq StatusBit
      /\ Flags \subseteq StatusBit /\ "EN32kHz" \in StatusBit
      /\ {Enable(1), Enable(2), "EOSC", "BBSQW", "CONV"} \subseteq ControlBit
      /\ setting \in [Alarm -> Setting \cup {NoSetting}]
      /\ registers \in [Alarm -> [Field -> 0 .. 255]]
  BY FlagSo DEF TypeOK, ControlBit, StatusBit, Enable
<1>1. ASSUME NEW s \in Setting, NEW armed \in BOOLEAN, SetAlarm(s, armed)
      PROVE  TypeOK'
  <2>1. s.alarm \in Alarm /\ Enable(s.alarm) \in ControlBit
    BY <1>0, SettingAssumption DEF Alarm
  <2>2. /\ registers' \in [Alarm -> [Field -> 0 .. 255]]
        /\ setting' \in [Alarm -> Setting \cup {NoSetting}]
    BY <1>0, <1>1, <2>1, EncodedByte DEF SetAlarm
  <2> QED BY <1>1, <2>1, <2>2, ZenonT(60) DEF TypeOK, SetAlarm, Begin, ArmChange, Switch, Change
<1>2. CASE armAlarm \/ setBattery \/ enableOutput \/ setOutput \/ enable32kHz
             \/ forceConversion \/ Restart
  <2>1. /\ edit'.on \cup edit'.off \subseteq ControlBit \cup StatusBit
        /\ edit'.register \in {"control", "status"} /\ edit'.then \in {"idle", "convert"}
        /\ target' = 0 /\ value' = {} /\ report' = FALSE /\ pc' = "read"
        /\ UNCHANGED <<chip, setting>>
    BY <1>0, <1>2, Starts DEF Setup
  <2>2. /\ wanted' \subseteq ControlBit \cup StatusBit
        /\ owed' \subseteq Alarm /\ fresh' \subseteq Alarm
    <3>1. CASE armAlarm \/ enableOutput \/ setOutput \/ enable32kHz \/ forceConversion
      BY <1>0, <3>1, ConfigureSo DEF Configure, Setup, TypeOK
    <3>2. CASE setBattery
      BY <1>0, <3>2 DEF setBattery, TypeOK
    <3>3. CASE Restart
      BY <1>0, <3>3 DEF Restart, TypeOK
    <3> QED BY <1>2, <3>1, <3>2, <3>3
  <2> QED BY <2>1, <2>2 DEF TypeOK, chip
<1>3. ASSUME NEW a \in Alarm, ClearAlarm(a)
      PROVE  TypeOK'
  BY <1>0, <1>3, FlagSo, ZenonT(60) DEF TypeOK, ClearAlarm, Begin, ClearChange, Change, chip, history
<1>4. ASSUME NEW a \in Alarm, NEW clear \in BOOLEAN, IsAlarm(a, clear)
      PROVE  TypeOK'
  BY <1>0, <1>4, FlagSo DEF TypeOK, IsAlarm, ClearChange, Change, chip, history
<1>5. CASE Read
  BY <1>0, <1>5 DEF TypeOK, Read, chip, history
<1>6. CASE WriteControl
  <2>1. control' \subseteq ControlBit
    <3>1. value \ {"CONV"} = ((control \ edit.off) \cup edit.on) \ {"CONV"}
      BY <1>6 DEF WriteControl, Copies
    <3>2. edit.on \subseteq ControlBit /\ control' = value
      BY <1>6 DEF WriteControl, Changes
    <3> QED BY <1>0, <3>1, <3>2
  <2>2. CASE edit.then = "clear"
    <3>1. edit' = [register |-> "status", on |-> {}, off |-> {Flag(target)}, then |-> "idle"]
      BY <1>6, <2>2 DEF WriteControl, ClearChange, Change
    <3>2. target \in Alarm
      BY <1>6, <2>2 DEF WriteControl, Changes, Busy
    <3>3. edit'.on \cup edit'.off \subseteq StatusBit
      BY <1>0, <3>1, <3>2, FlagSo
    <3> QED BY <1>6, <2>1, <2>2, <3>1, <3>3 DEF TypeOK, WriteControl
  <2>3. CASE edit.then # "clear"
    BY <1>6, <2>1, <2>3 DEF TypeOK, WriteControl, End, NoChange, Change
  <2> QED BY <2>2, <2>3
<1>7. CASE WriteStatus
  <2>1. status' \subseteq StatusBit
    <3>1. value \ Flags = ((status \ edit.off) \cup edit.on) \ Flags
      BY <1>7 DEF WriteStatus, Copies
    <3>2. /\ edit.on \subseteq {"EN32kHz"}
          /\ status' = (value \ Flags) \cup (value \cap status)
      BY <1>7 DEF WriteStatus, Changes
    <3> QED BY <1>0, <3>1, <3>2
  <2>2. /\ pc' = edit.then /\ edit.then # "clear" /\ target' = 0 /\ value' = {} /\ fresh' = {}
        /\ edit' = [register |-> "control", on |-> {}, off |-> {}, then |-> "idle"]
        /\ owed' = owed \ {target}
        /\ UNCHANGED <<report, registers, control, setting, wanted>>
    BY <1>7 DEF WriteStatus, End, NoChange, Change, Changes, Busy
  <2> QED BY <2>1, <2>2 DEF TypeOK
<1>8. CASE AwaitConversion \/ Return \/ Converted
  BY <1>0, <1>8, ZenonT(60) DEF TypeOK, AwaitConversion, Return, Converted, library, chip, history
<1>9. CASE SetDateTime
  <2>1. [registers[1] EXCEPT !.second = 0] \in [Field -> 0 .. 255]
    BY <1>0 DEF Alarm
  <2>2. registers' \in [Alarm -> [Field -> 0 .. 255]]
    <3>1. registers' = [registers EXCEPT ![1] = [registers[1] EXCEPT !.second = 0]]
      BY <1>9 DEF SetDateTime
    <3> QED BY <1>0, <2>1, <3>1
  <2>3. setting' \in [Alarm -> Setting \cup {NoSetting}]
    BY <1>0, <1>9 DEF SetDateTime
  <2> QED BY <1>9, <2>2, <2>3 DEF TypeOK, SetDateTime, library
<1>10. ASSUME NEW t \in ChipTime, Tick(t)
       PROVE  TypeOK'
  BY <1>0, <1>10, FlagSo DEF TypeOK, Tick, library
<1>11. CASE UNCHANGED vars
  BY <1>11 DEF TypeOK, vars, library, chip, history
<1> QED BY <1>1, <1>2, <1>3, <1>4, <1>5, <1>6, <1>7, <1>8, <1>9, <1>10, <1>11
        DEF Next, Library

LEMMA CopiesStep == Changes /\ Copies /\ [Next]_vars => Copies'
<1> SUFFICES ASSUME Changes, Copies, [Next]_vars, pc' = "write" PROVE Copies'
  BY DEF Copies
<1> USE DEF Copies
<1>1. ~\E s \in Setting, armed \in BOOLEAN : SetAlarm(s, armed)
  BY DEF SetAlarm, Begin
<1>2. ~(armAlarm \/ setBattery \/ enableOutput \/ setOutput \/ enable32kHz
          \/ forceConversion \/ Restart)
  BY Starts
<1>3. ~\E a \in Alarm : ClearAlarm(a) \/ IsAlarm(a, TRUE) \/ IsAlarm(a, FALSE)
  BY DEF ClearAlarm, Begin, IsAlarm
<1>4. CASE Read
  <2>1. /\ value' = ((IF edit.register = "control" THEN control ELSE status) \ edit.off)
                      \cup edit.on
        /\ UNCHANGED <<edit, target, control, status, fresh>> /\ pc = "read"
    BY <1>4 DEF Read, chip, history
  <2>2. CASE edit.register = "control"
    BY <2>1, <2>2
  <2>3. CASE edit.register = "status"
    <3>1. edit.on \cap Flags = {}
      BY <2>3, FlagSo DEF Changes
    <3>2. ASSUME NEW a \in Alarm, Flag(a) \in status \ value' PROVE a = target
      <4>1. Flag(a) \in edit.off
        BY <2>1, <2>3, <3>2
      <4>2. edit.off \subseteq {"EN32kHz"} \/ (target \in Alarm /\ edit.off = {Flag(target)})
        BY <2>1, <2>3 DEF Changes, Busy
      <4> QED BY <4>1, <4>2, FlagSo DEF Alarm
    <3> QED BY <2>1, <2>3, <3>1, <3>2
  <2> QED BY <2>2, <2>3 DEF Changes
<1>5. ~WriteControl /\ ~WriteStatus
  BY DEF WriteControl, WriteStatus, Changes, Busy
<1>6. ~AwaitConversion /\ ~Return /\ ~SetDateTime
  BY DEF AwaitConversion, Return, SetDateTime, library
<1>7. CASE Converted
  BY <1>7 DEF Converted, library, history
<1>8. ASSUME NEW t \in ChipTime, Tick(t)
      PROVE  Copies'
  <2> DEFINE matching == {a \in Alarm : Matches(registers[a], t)}
  <2>1. /\ pc = "write" /\ UNCHANGED <<edit, target, value, control>>
        /\ status' = status \cup {Flag(a) : a \in matching}
        /\ fresh' = fresh \cup matching
    BY <1>8 DEF Tick, library
  <2> HIDE DEF matching
  <2>2. matching \subseteq Alarm
    BY DEF matching
  <2>3. status' \ Flags = status \ Flags
    BY <2>1, <2>2, FlagSo
  <2>4. ((status' \ edit.off) \cup edit.on) \ Flags = ((status \ edit.off) \cup edit.on) \ Flags
    BY <2>3
  <2>5. \A a \in Alarm : Flag(a) \in status' => Flag(a) \in status \/ a \in matching
    BY <2>1, <2>2, FlagSo DEF Alarm
  <2> QED BY <2>1, <2>4, <2>5
<1>9. CASE UNCHANGED vars
  BY <1>9 DEF vars, library, chip, history
<1> QED BY <1>1, <1>2, <1>3, <1>4, <1>5, <1>6, <1>7, <1>8, <1>9 DEF Next, Library

-----------------------------------------------------------------------------
(* Flags.                                                                  *)

(* What a write to the status register does to the flags.                  *)
LEMMA StatusWritten ==
  ASSUME Changes, Copies, WriteStatus, NEW a \in Alarm
  PROVE  /\ Flag(a) \in status' => Flag(a) \in status /\ a # target
         /\ Flag(a) \in status \ status' => a = target \/ a \in fresh
<1>1. /\ status' = (value \ Flags) \cup (value \cap status) /\ pc = "write"
      /\ edit.register = "status" /\ Flag(a) \in Flags
  BY FlagSo DEF WriteStatus
<1>2. Flag(a) \in status' <=> Flag(a) \in value \cap status
  BY <1>1
<1>3. a = target => Flag(a) \notin value
  <2>1. a = target => Flag(a) \in edit.off
    BY <1>1 DEF Changes, Busy
  <2> QED BY <1>1, <2>1 DEF Copies
<1> QED BY <1>1, <1>2, <1>3 DEF Copies

LEMMA FlagsStep == Changes /\ Copies /\ FlagsOwed /\ [Next]_vars => FlagsOwed'
<1> SUFFICES ASSUME Changes, Copies, FlagsOwed, [Next]_vars PROVE FlagsOwed'
  OBVIOUS
<1> USE DEF FlagsOwed
<1>1. ASSUME NEW s \in Setting, NEW armed \in BOOLEAN, SetAlarm(s, armed)
      PROVE  FlagsOwed'
  BY <1>1 DEF SetAlarm, Begin, Busy
<1>2. CASE armAlarm \/ setBattery \/ enableOutput \/ setOutput \/ enable32kHz
             \/ forceConversion
  <2>1. pc = "idle" /\ UNCHANGED <<status, owed>>
    BY <1>2 DEF armAlarm, setBattery, enableOutput, setOutput, enable32kHz, forceConversion,
                Configure, chip
  <2> QED BY <2>1 DEF Busy
<1>3. CASE Restart
  <2>1. /\ status' = status /\ owed \subseteq owed'
        /\ pc # "idle" => \A a \in Alarm : Flag(a) \in status => a \in owed'
    BY <1>3 DEF Restart, chip
  <2> QED BY <2>1 DEF Busy
<1>4. ASSUME NEW a \in Alarm, ClearAlarm(a) \/ IsAlarm(a, TRUE) \/ IsAlarm(a, FALSE)
      PROVE  FlagsOwed'
  <2>1. pc = "idle" /\ UNCHANGED <<status, owed>>
    BY <1>4 DEF ClearAlarm, IsAlarm, chip, history
  <2> QED BY <2>1 DEF Busy
<1>5. CASE Read
  BY <1>5 DEF Read, Busy, chip, history
<1>6. CASE WriteControl
  <2>1. UNCHANGED <<status, owed>> /\ pc = "write" /\ edit.register = "control"
    BY <1>6 DEF WriteControl
  <2>2. CASE edit.then = "clear"
    BY <1>6, <2>1, <2>2 DEF WriteControl, Busy
  <2>3. CASE edit.then # "clear"
    <3>1. target \notin Alarm
      BY <2>1, <2>3 DEF Changes, Busy
    <3> QED BY <2>1, <3>1
  <2> QED BY <2>2, <2>3
<1>7. CASE WriteStatus
  <2>1. ASSUME NEW a \in Alarm, Flag(a) \in status' PROVE a \in owed'
    BY <1>7, <2>1, StatusWritten DEF WriteStatus
  <2> QED BY <2>1
<1>8. CASE AwaitConversion \/ Return
  BY <1>8 DEF AwaitConversion, Return, Busy, chip, history
<1>9. ASSUME NEW t \in ChipTime, Tick(t)
      PROVE  FlagsOwed'
  <2> DEFINE matching == {a \in Alarm : Matches(registers[a], t)}
  <2>1. /\ UNCHANGED <<pc, target>>
        /\ status' = status \cup {Flag(a) : a \in matching}
        /\ owed' = owed \cup matching
    BY <1>9 DEF Tick, library
  <2> HIDE DEF matching
  <2>2. matching \subseteq Alarm
    BY DEF matching
  <2>3. \A a \in Alarm : Flag(a) \in status' => Flag(a) \in status \/ a \in matching
    BY <2>1, <2>2, FlagSo DEF Alarm
  <2> QED BY <2>1, <2>3
<1>10. CASE UNCHANGED <<pc, target, status, owed>>
  BY <1>10
<1> QED BY <1>1, <1>2, <1>3, <1>4, <1>5, <1>6, <1>7, <1>8, <1>9, <1>10
        DEF Next, Library, SetDateTime, Converted, library, history, chip, vars

-----------------------------------------------------------------------------
(* Settings.                                                               *)

LEMMA WrittenStep == TypeOK /\ Written /\ [Next]_vars => Written'
<1> SUFFICES ASSUME TypeOK, Written, [Next]_vars PROVE Written'
  OBVIOUS
<1> USE DEF Written, IsSet
<1>1. ASSUME NEW s \in Setting, NEW armed \in BOOLEAN, SetAlarm(s, armed)
      PROVE  Written'
  <2>1. s.alarm \in Alarm
    BY SettingAssumption
  <2>2. /\ registers' = [registers EXCEPT ![s.alarm] = Encode(s)]
        /\ setting' = [setting EXCEPT ![s.alarm] = s]
    BY <1>1 DEF SetAlarm
  <2> QED BY <2>1, <2>2 DEF TypeOK
<1>2. CASE SetDateTime
  <2>1. /\ setting' = [setting EXCEPT ![1] = NoSetting]
        /\ registers'[2] = registers[2]
    BY <1>2 DEF SetDateTime, TypeOK, Alarm
  <2> QED BY <2>1 DEF TypeOK, Alarm
<1>3. CASE armAlarm \/ setBattery \/ enableOutput \/ setOutput \/ enable32kHz
             \/ forceConversion \/ Restart
  BY <1>3, Starts DEF chip
<1>4. CASE UNCHANGED <<registers, setting>>
  BY <1>4
<1> QED BY <1>1, <1>2, <1>3, <1>4
        DEF Next, Library, ClearAlarm, IsAlarm, Read, WriteControl, WriteStatus, AwaitConversion,
            Return, Converted, Tick, library, history, chip, vars

LEMMA SettingBits ==
  ASSUME TypeOK
  PROVE  /\ Settings \subseteq (ControlBit \ {"CONV"}) \cup {"EN32kHz"}
         /\ Flags \cap ControlBit = {} /\ "EN32kHz" \notin Flags /\ "EN32kHz" \notin ControlBit
BY FlagSo DEF TypeOK, Settings, ControlBit, StatusBit

LEMMA AskedStep == TypeOK /\ Changes /\ Copies /\ Asked /\ [Next]_vars => Asked'
<1> SUFFICES ASSUME TypeOK, Changes, Copies, Asked, [Next]_vars PROVE Asked'
  OBVIOUS
<1> USE DEF Asked, Settled
<1>1. ASSUME NEW s \in Setting, NEW armed \in BOOLEAN, SetAlarm(s, armed)
      PROVE  Asked'
  <2> DEFINE e == Enable(s.alarm)
  <2>1. e \in ControlBit /\ e # "CONV" /\ e # "INTCN"
    BY SettingAssumption DEF Alarm, Enable, ControlBit
  <2>2. Settled = Settings /\ Settings' = Settings /\ pc' \in Busy
    BY <1>1 DEF SetAlarm, Begin, Settings, Busy
  <2>3. /\ edit'.on = (IF armed THEN {e} ELSE {}) /\ edit'.off = (IF armed THEN {} ELSE {e})
        /\ wanted' = IF armed THEN wanted \cup {e} ELSE wanted \ {e}
    BY <1>1 DEF SetAlarm, Begin, ArmChange, Switch, Change
  <2>4. e \notin Flags
    BY <2>1, SettingBits
  <2> HIDE DEF e
  <2>5. Settled' = (Settings \ (edit'.off \ Flags)) \cup (edit'.on \ {"CONV"})
    BY <2>2
  <2>6. Settings \subseteq wanted /\ wanted \ Settings \subseteq {"INTCN"}
    BY <2>2
  <2>7. CASE armed
    BY <2>1, <2>3, <2>4, <2>5, <2>6, <2>7
  <2>8. CASE ~armed
    BY <2>1, <2>3, <2>4, <2>5, <2>6, <2>8
  <2> QED BY <2>7, <2>8
<1>2. CASE armAlarm \/ enableOutput \/ setOutput \/ enable32kHz \/ forceConversion
  <2>1. PICK change : Configure(change) /\ Setup(change)
    BY <1>2, ConfigureSo
  <2>2. /\ Settled = Settings /\ Settings' = Settings /\ pc' \in Busy /\ edit' = change
        /\ wanted' = (wanted \ change.off) \cup (change.on \ {"CONV"})
    BY <2>1 DEF Configure, Begin, Settings, Busy, chip
  <2>3. change.off \ Flags = change.off
    BY <2>1, SettingBits DEF Setup
  <2> QED BY <2>2, <2>3
<1>3. ASSUME NEW time \in BOOLEAN, NEW square \in BOOLEAN, Begin(BatteryChange(time, square), 0),
             UNCHANGED chip, NEW w,
             w \subseteq ControlBit \cup StatusBit,
             Settings \subseteq w, w \ Settings \subseteq {"INTCN"},
             wanted' = (w \ {"EOSC", "BBSQW"})
                          \cup (IF time THEN {} ELSE {"EOSC"}) \cup (IF square THEN {"BBSQW"} ELSE {})
      PROVE  Asked'
  <2>1. /\ Settings' = Settings /\ pc' \in Busy
        /\ edit'.on = (IF time THEN {} ELSE {"EOSC"}) \cup (IF square THEN {"BBSQW"} ELSE {})
        /\ edit'.off = (IF time THEN {"EOSC", "INTCN"} ELSE {}) \cup (IF square THEN {} ELSE {"BBSQW"})
    BY <1>3, BatterySo DEF Begin, Settings, Busy, chip
  <2>2. Settled' = (Settings \ edit'.off) \cup edit'.on
    BY <2>1, FlagSo
  <2> QED BY <1>3, <2>1, <2>2
<1>4. CASE setBattery
  <2>1. Settled = Settings
    BY <1>4 DEF setBattery, Busy
  <2> QED BY <1>3, <1>4, <2>1 DEF setBattery, TypeOK
<1>5. CASE Restart
  <2> DEFINE w == IF pc = "idle" THEN wanted ELSE Settings
  <2>1. pc = "idle" => Settled = Settings
    BY DEF Busy
  <2>2. Settings \subseteq w /\ w \ Settings \subseteq {"INTCN"}
    BY <2>1
  <2>3. w \subseteq ControlBit \cup StatusBit
    BY DEF TypeOK, Settings
  <2>4. /\ Begin(BatteryChange(TRUE, FALSE), 0) /\ UNCHANGED chip
        /\ wanted' = w \ {"EOSC", "BBSQW"}
    BY <1>5 DEF Restart, Settings
  <2> HIDE DEF w
  <2> QED BY <1>3, <2>2, <2>3, <2>4
<1>6. ASSUME NEW a \in Alarm, ClearAlarm(a) \/ IsAlarm(a, TRUE) \/ IsAlarm(a, FALSE)
      PROVE  Asked'
  <2>1. /\ pc = "idle" /\ Settings' = Settings /\ wanted' = wanted
        /\ pc' \in Busy => edit'.off = {Flag(a)} /\ edit'.on = {}
    BY <1>6 DEF ClearAlarm, Begin, IsAlarm, ClearChange, Change, chip, history, Settings, Busy
  <2>2. Settled = Settings /\ Settled' = Settings'
    BY <2>1, FlagSo DEF Busy
  <2> QED BY <2>1, <2>2
<1>7. CASE Read
  BY <1>7 DEF Read, chip, history, Settings, Busy
<1>8. CASE WriteControl
  <2>1. Settled = (Settings \ (edit.off \ Flags)) \cup (edit.on \ {"CONV"})
    BY <1>8 DEF WriteControl, Busy
  <2>2. /\ control' \ {"CONV"} = ((control \ edit.off) \cup edit.on) \ {"CONV"}
        /\ status' = status /\ wanted' = wanted
    BY <1>8 DEF WriteControl, Copies
  <2>3. edit.off \subseteq ControlBit /\ edit.on \subseteq ControlBit
    BY <1>8 DEF WriteControl, Changes, Busy
  <2>4. status \subseteq StatusBit /\ StatusBit \cap ControlBit = {} /\ Flags \cap ControlBit = {}
    BY SettingBits DEF TypeOK, StatusBit, ControlBit
  <2>5. Settings' = Settled
    BY <2>1, <2>2, <2>3, <2>4 DEF Settings
  <2>6. pc' \in Busy => edit'.off \subseteq Flags /\ edit'.on = {}
    <3>1. edit.then = "clear" => target \in Alarm
      BY <1>8 DEF WriteControl, Changes, Busy
    <3>2. edit.then \notin Busy
      BY DEF Changes, Busy
    <3> QED BY <1>8, <3>1, <3>2, FlagSo DEF WriteControl, ClearChange, Change
  <2>7. Settled' = Settings'
    BY <2>6
  <2> QED BY <2>2, <2>5, <2>7
<1>9. CASE WriteStatus
  <2>1. Settled = (Settings \ (edit.off \ Flags)) \cup (edit.on \ {"CONV"})
    BY <1>9 DEF WriteStatus, Busy
  <2>2. /\ value \ Flags = ((status \ edit.off) \cup edit.on) \ Flags
        /\ status' = (value \ Flags) \cup (value \cap status)
        /\ control' = control /\ wanted' = wanted
    BY <1>9 DEF WriteStatus, Copies
  <2>3. edit.on \subseteq {"EN32kHz"} /\ edit.off \subseteq Flags \cup {"EN32kHz"}
    BY <1>9, FlagSo DEF WriteStatus, Changes, Busy
  <2>4. status' \ Flags = ((status \ edit.off) \cup edit.on) \ Flags
    BY <2>2
  <2>5. control \subseteq ControlBit /\ "EN32kHz" \notin ControlBit /\ "EN32kHz" \notin Flags
        /\ "EN32kHz" # "CONV"
    BY SettingBits DEF TypeOK
  <2>6. Settings' = Settled
    BY <2>1, <2>2, <2>3, <2>4, <2>5, SettingBits DEF Settings
  <2>7. pc' \notin Busy
    BY <1>9 DEF WriteStatus, Changes, Busy
  <2> QED BY <2>2, <2>6, <2>7
<1>10. CASE AwaitConversion \/ Return
  BY <1>10 DEF AwaitConversion, Return, Busy, chip, history, Settings
<1>11. CASE Converted
  <2>1. Settings' = Settings
    BY <1>11 DEF Converted, Settings
  <2> QED BY <1>11, <2>1 DEF Converted, library, history
<1>12. ASSUME NEW t \in ChipTime, Tick(t)
       PROVE  Asked'
  <2> DEFINE matching == {a \in Alarm : Matches(registers[a], t)}
  <2>1. /\ UNCHANGED <<pc, edit, control, wanted>>
        /\ status' = status \cup {Flag(a) : a \in matching}
    BY <1>12 DEF Tick, library
  <2>2. matching \subseteq Alarm
    OBVIOUS
  <2> HIDE DEF matching
  <2>3. Settings' = Settings
    BY <2>1, <2>2, FlagSo DEF Settings
  <2> QED BY <2>1, <2>3
<1>13. CASE UNCHANGED <<pc, edit, control, status, wanted>>
  BY <1>13 DEF Settings
<1> QED BY <1>1, <1>2, <1>4, <1>5, <1>6, <1>7, <1>8, <1>9, <1>10, <1>11, <1>12, <1>13
        DEF Next, Library, SetDateTime, library, chip, history, vars

-----------------------------------------------------------------------------
(* The theorems.                                                           *)

LEMMA InvCorrect == Spec => []IInv
<1>1. Init => IInv
  <2> SUFFICES ASSUME Init PROVE IInv
    OBVIOUS
  <2>1. TypeOK
    <3>1. /\ registers \in [Alarm -> [Field -> 0 .. 255]]
          /\ setting \in [Alarm -> Setting \cup {NoSetting}]
      BY DEF Init, ZeroBytes
    <3>2. edit = [register |-> "control", on |-> {}, off |-> {}, then |-> "idle"]
      BY DEF Init, NoChange, Change
    <3>3. /\ control \subseteq ControlBit /\ status \subseteq StatusBit
          /\ wanted \subseteq ControlBit \cup StatusBit
      BY DEF Init, PowerOnControl, PowerOnStatus, ControlBit, StatusBit
    <3>4. /\ pc = "idle" /\ target = 0 /\ value = {} /\ report \in BOOLEAN
          /\ owed = {} /\ fresh = {}
      BY DEF Init
    <3> QED BY <3>1, <3>2, <3>3, <3>4 DEF TypeOK
  <2>2. Changes /\ Copies /\ Written
    BY DEF Init, Changes, Copies, Written, IsSet, NoChange, Change, Busy
  <2>3. FlagsOwed
    BY FlagSo DEF Init, FlagsOwed, PowerOnStatus, Alarm
  <2>4. Asked
    BY FlagSo DEF Init, Asked, Settled, Settings, Busy, PowerOnControl, PowerOnStatus
  <2> QED BY <2>1, <2>2, <2>3, <2>4 DEF IInv
<1>2. IInv /\ [Next]_vars => IInv'
  BY TypeStep, ChangesStep, CopiesStep, FlagsStep, AskedStep, WrittenStep DEF IInv
<1> QED BY <1>1, <1>2, PTL DEF Spec

(* Every variable keeps its type; every byte written to the chip is one.   *)
THEOREM TypeCorrect == Spec => []TypeOK
<1>1. IInv => TypeOK
  BY DEF IInv
<1> QED BY <1>1, InvCorrect, PTL

(* The chip rings at the times that setAlarm1 or setAlarm2 was asked for,  *)
(* at no others, for every mode and every time of day and of the month.    *)
THEOREM MatchCorrect == Spec => []MatchesWhatWasSet
<1>1. IInv => MatchesWhatWasSet
  BY EncodedMatches DEF IInv, Written, MatchesWhatWasSet
<1> QED BY <1>1, InvCorrect, PTL

(* Setting an alarm leaves no flag of the one before it.                   *)
THEOREM FlagsCorrect == Spec => []NoFalseAlarm
<1>1. IInv => NoFalseAlarm
  BY DEF IInv, FlagsOwed, NoFalseAlarm, Busy
<1> QED BY <1>1, InvCorrect, PTL

(* A match of the other alarm is lost to a change of the status register   *)
(* only between its two transfers.                                         *)
THEOREM KeptCorrect == Spec => OtherAlarmKept
<1>1. IInv /\ [Next]_vars
        => [\A a \in Alarm : Flag(a) \in status \ status' => a = target \/ a \in fresh]_vars
  <2> SUFFICES ASSUME Changes, Copies, Next, NEW a \in Alarm, Flag(a) \in status \ status'
               PROVE  a = target \/ a \in fresh
    BY DEF IInv
  <2>1. CASE WriteStatus
    BY <2>1, StatusWritten
  <2>2. CASE \E t \in ChipTime : Tick(t)
    BY <2>2 DEF Tick
  <2>3. CASE armAlarm \/ setBattery \/ enableOutput \/ setOutput \/ enable32kHz
               \/ forceConversion \/ Restart
    BY <2>3, Starts DEF chip
  <2> QED BY <2>1, <2>2, <2>3
          DEF Next, Library, SetDateTime, SetAlarm, ClearAlarm, IsAlarm, Read, WriteControl,
              AwaitConversion, Return, Converted, library, history, chip
<1> QED BY <1>1, InvCorrect, PTL DEF Spec, OtherAlarmKept

(* Between calls every setting is as asked, but for INTCN.                 *)
THEOREM AskedCorrect == Spec => []AsAsked
<1>1. IInv => AsAsked
  BY DEF IInv, Asked, Settled, Settings, AsAsked, Busy
<1> QED BY <1>1, InvCorrect, PTL

-----------------------------------------------------------------------------
(* Reading back.                                                           *)

(* Decoding a byte with its mask bit adds 80 to the value, and with the    *)
(* day bit 40; where the bits are looked for then depends on the value.    *)
LEMMA Decoded ==
  ASSUME NEW x \in 0 .. 59
  PROVE  /\ ClearBit(dec2bcd(x) + 128, MaskBit) = dec2bcd(x)
         /\ bcd2dec(dec2bcd(x) + 128) = x + 80
         /\ ~Bit(x, 64) /\ (Bit(x + 80, 64) <=> x < 48)
         /\ x < 32 => /\ ~Bit(x, 32) /\ (Bit(x + 80, 32) <=> x >= 16)
                      /\ bcd2dec(SetBit(dec2bcd(x), DayBit)) = x + 40
                      /\ Bit(x + 40, 64) <=> x >= 24
                      /\ Bit(x + 40, 32) <=> x < 24
<1> DEFINE d == dec2bcd(x)
<1>1. /\ d \in 0 .. 89 /\ bcd2dec(d) = x /\ Bit(d + 128, MaskBit)
      /\ x < 32 => d \in 0 .. 49 /\ ~Bit(d, DayBit)
  BY Digits
<1> HIDE DEF d
<1>2. (d + 128) \div 16 = d \div 16 + 8 /\ (d + 128) % 16 = d % 16
  BY <1>1
<1>3. (d + 64) \div 16 = d \div 16 + 4 /\ (d + 64) % 16 = d % 16
  BY <1>1
<1>4. d \div 16 \in Int /\ d % 16 \in Int
  BY <1>1
<1>5. bcd2dec(d + 128) = x + 80 /\ bcd2dec(d + 64) = x + 40
  BY <1>1, <1>2, <1>3, <1>4 DEF bcd2dec
<1>6. ClearBit(d + 128, MaskBit) = d
  <2>1. ClearBit(d + 128, MaskBit) = (d + 128) - MaskBit
    BY <1>1 DEF ClearBit
  <2> QED BY <1>1, <2>1 DEF MaskBit
<1>7. x < 32 => SetBit(d, DayBit) = d + 64
  BY <1>1 DEF SetBit, DayBit
<1>8. ~Bit(x, 64) /\ (Bit(x + 80, 64) <=> x < 48)
  BY DEF Bit
<1>9. x < 32 => ~Bit(x, 32) /\ (Bit(x + 80, 32) <=> x >= 16)
  BY DEF Bit
<1>10. x < 32 => (Bit(x + 40, 64) <=> x >= 24) /\ (Bit(x + 40, 32) <=> x < 24)
  BY DEF Bit
<1> QED BY <1>5, <1>6, <1>7, <1>8, <1>9, <1>10 DEF d

(* What getAlarm1 and getAlarm2 read of a field.                           *)
LEMMA FieldReadsBack ==
  ASSUME NEW s \in Setting, NEW f \in Field, f # "dydw" \/ s.mode # "MATCH_DY"
  PROVE  GetAlarm(Encode(s))[f] = s[f]
<1> DEFINE d == dec2bcd(s[f])
           e == Encode(s)[f]
<1>1. s[f] \in 0 .. 59
  BY SettingAssumption DEF Field
<1>2. e = d \/ e = d + 128
  BY Encoded
<1>3. bcd2dec(d) = s[f] /\ ClearBit(d, MaskBit) = d /\ ClearBit(d + 128, MaskBit) = d
  <2>1. bcd2dec(dec2bcd(s[f])) = s[f] /\ ClearBit(dec2bcd(s[f]), MaskBit) = dec2bcd(s[f])
    BY <1>1, Digits, Zenon
  <2>2. ClearBit(dec2bcd(s[f]) + 128, MaskBit) = dec2bcd(s[f])
    BY <1>1, Decoded, Zenon
  <2> QED BY <2>1, <2>2
<1>4. GetAlarm(Encode(s))[f] = bcd2dec(ClearBit(e, MaskBit))
  BY DEF GetAlarm
<1> HIDE DEF d, e
<1> QED BY <1>2, <1>3, <1>4, Zenon

(* Where getAlarmType1 and getAlarmType2 see a mask bit, and where the day *)
(* bit.                                                                    *)
SeesMask(s, f) == Bit(bcd2dec(Encode(s)[f]), 64)
SeesWeekday(s) == Bit(bcd2dec(Encode(s)["dydw"]), 32)

LEMMA Seen ==
  ASSUME NEW s \in Setting
  PROVE  /\ \A f \in Field : s.mode # "MATCH_DY" =>
              (SeesMask(s, f) <=> f \in Ignored(s.mode) /\ s[f] < 48)
         /\ s.mode # "MATCH_DY" => (SeesWeekday(s) <=> "dydw" \in Ignored(s.mode) /\ s.dydw >= 16)
         /\ s.mode = "MATCH_DY" =>
              /\ \A f \in Field : SeesMask(s, f) <=> f = "dydw" /\ s.dydw >= 24
              /\ SeesWeekday(s) <=> s.dydw < 24
<1>1. /\ \A f \in Field : s[f] \in 0 .. 59
      /\ s.dydw \in 0 .. 59 /\ s.dydw < 32 /\ "dydw" \in Field
  BY SettingAssumption DEF Field
<1>2. s.mode = "MATCH_DY" => Ignored(s.mode) = {}
  BY DEF Ignored
<1>3. ASSUME NEW f \in Field, f # "dydw" \/ s.mode # "MATCH_DY"
      PROVE  bcd2dec(Encode(s)[f]) = IF f \in Ignored(s.mode) THEN s[f] + 80 ELSE s[f]
  <2>1. Encode(s)[f] = IF f \in Ignored(s.mode) THEN dec2bcd(s[f]) + 128 ELSE dec2bcd(s[f])
    BY <1>3, Encoded
  <2>2. bcd2dec(dec2bcd(s[f]) + 128) = s[f] + 80 /\ bcd2dec(dec2bcd(s[f])) = s[f]
    BY <1>1, Digits, Decoded, ZenonT(60)
  <2> QED BY <2>1, <2>2, Zenon
<1>4. ASSUME NEW f \in Field, f # "dydw" \/ s.mode # "MATCH_DY"
      PROVE  SeesMask(s, f) <=> f \in Ignored(s.mode) /\ s[f] < 48
  <2>1. ~Bit(s[f], 64) /\ (Bit(s[f] + 80, 64) <=> s[f] < 48)
    BY <1>1, Decoded
  <2> QED BY <1>3, <1>4, <2>1, Zenon DEF SeesMask
<1>5. ASSUME s.mode # "MATCH_DY"
      PROVE  SeesWeekday(s) <=> "dydw" \in Ignored(s.mode) /\ s.dydw >= 16
  <2>1. ~Bit(s.dydw, 32) /\ (Bit(s.dydw + 80, 32) <=> s.dydw >= 16)
    BY <1>1, Decoded
  <2>2. bcd2dec(Encode(s)["dydw"]) = IF "dydw" \in Ignored(s.mode) THEN s.dydw + 80 ELSE s.dydw
    BY <1>1, <1>3, <1>5
  <2> QED BY <2>1, <2>2, Zenon DEF SeesWeekday
<1>6. ASSUME s.mode = "MATCH_DY"
      PROVE  (SeesMask(s, "dydw") <=> s.dydw >= 24) /\ (SeesWeekday(s) <=> s.dydw < 24)
  <2>1. bcd2dec(Encode(s)["dydw"]) = s.dydw + 40
    <3>1. Encode(s)["dydw"] = SetBit(dec2bcd(s.dydw), DayBit)
      BY <1>1, <1>2, <1>6, Encoded
    <3>2. bcd2dec(SetBit(dec2bcd(s.dydw), DayBit)) = s.dydw + 40
      BY <1>1, Decoded
    <3> QED BY <3>1, <3>2, Zenon
  <2>2. (Bit(s.dydw + 40, 64) <=> s.dydw >= 24) /\ (Bit(s.dydw + 40, 32) <=> s.dydw < 24)
    BY <1>1, Decoded
  <2> QED BY <2>1, <2>2, Zenon DEF SeesMask, SeesWeekday
<1>7. ASSUME s.mode = "MATCH_DY", NEW f \in Field
      PROVE  SeesMask(s, f) <=> f = "dydw" /\ s.dydw >= 24
  BY <1>2, <1>4, <1>6, <1>7
<1> QED BY <1>4, <1>5, <1>6, <1>7

(* The modes leave different fields out, a date and a weekday excepted.    *)
LEMMA ModesDiffer ==
  ASSUME NEW m \in Mode, NEW n \in Mode, (m = "MATCH_DY") <=> (n = "MATCH_DY")
  PROVE  /\ Ignored(m) = Ignored(n) => m = n
         /\ m # "EVERY" /\ n # "EVERY" /\ Ignored(m) \ {"second"} = Ignored(n) \ {"second"} => m = n
<1>1. /\ "second" \in Ignored(m) <=> m \in {"EVERY"}
      /\ "minute" \in Ignored(m) <=> m \in {"EVERY", "MATCH_S"}
      /\ "hour" \in Ignored(m) <=> m \in {"EVERY", "MATCH_S", "MATCH_M"}
      /\ "dydw" \in Ignored(m) <=> m \in {"EVERY", "MATCH_S", "MATCH_M", "MATCH_H_M"}
  BY DEF Mode, Ignored, Field
<1>2. /\ "second" \in Ignored(n) <=> n \in {"EVERY"}
      /\ "minute" \in Ignored(n) <=> n \in {"EVERY", "MATCH_S"}
      /\ "hour" \in Ignored(n) <=> n \in {"EVERY", "MATCH_S", "MATCH_M"}
      /\ "dydw" \in Ignored(n) <=> n \in {"EVERY", "MATCH_S", "MATCH_M", "MATCH_H_M"}
  BY DEF Mode, Ignored, Field
<1>3. m \in {"EVERY", "MATCH_S", "MATCH_M", "MATCH_H_M", "MATCH_DT", "MATCH_DY"}
      /\ n \in {"EVERY", "MATCH_S", "MATCH_M", "MATCH_H_M", "MATCH_DT", "MATCH_DY"}
  BY DEF Mode
<1>4. ASSUME Ignored(m) = Ignored(n) PROVE m = n
  BY <1>1, <1>2, <1>3, <1>4
<1>5. ASSUME m # "EVERY", n # "EVERY", Ignored(m) \ {"second"} = Ignored(n) \ {"second"}
      PROVE  m = n
  <2>1. /\ "minute" \in Ignored(m) <=> "minute" \in Ignored(n)
        /\ "hour" \in Ignored(m) <=> "hour" \in Ignored(n)
        /\ "dydw" \in Ignored(m) <=> "dydw" \in Ignored(n)
    BY <1>5
  <2> QED BY <1>1, <1>2, <1>3, <1>5, <2>1
<1> QED BY <1>4, <1>5

(* The mode reads back exactly if each bit is found.                       *)
LEMMA ModeReadsBack ==
  ASSUME NEW s \in Setting
  PROVE  GetAlarmType(s.alarm, Encode(s)) = {s.mode} <=> BitsFound(s)
<1> DEFINE a == s.alarm
           fields == IF a = 1 THEN Field ELSE Field \ {"second"}
           seen == {f \in fields : SeesMask(s, f)}
           left == Ignored(s.mode) \cap fields
           Answer(m) == /\ Ignored(m) \cap fields = seen /\ (m = "MATCH_DY") = SeesWeekday(s)
                        /\ (a = 2 => m # "EVERY")
<1>1. /\ a \in Alarm /\ s.mode \in Mode /\ (a = 2 => s.mode # "EVERY")
      /\ s.hour < 24 /\ s.dydw \in 0 .. 31
      /\ \A f \in Field : s[f] \in 0 .. 59
  BY SettingAssumption DEF Field
<1>2. GetAlarmType(a, Encode(s)) = {m \in Mode : Answer(m)}
  BY DEF GetAlarmType, SeesMask, SeesWeekday
<1>3. \A m \in Mode : Ignored(m) \subseteq Field
  BY DEF Mode, Ignored, Field
<1>4. SeesWeekday(s) \in BOOLEAN
  BY DEF SeesWeekday, Bit
<1>5. ASSUME NEW m \in Mode, Answer(m), Answer(s.mode) PROVE m = s.mode
  <2>1. (m = "MATCH_DY") <=> (s.mode = "MATCH_DY")
    BY <1>5
  <2>2. Ignored(m) \cap fields = Ignored(s.mode) \cap fields
    BY <1>5
  <2>3. CASE a = 1
    <3>1. Ignored(m) = Ignored(s.mode)
      BY <1>1, <1>3, <2>2, <2>3
    <3> QED BY <1>1, <2>1, <3>1, ModesDiffer
  <2>4. CASE a = 2
    <3>1. Ignored(m) \ {"second"} = Ignored(s.mode) \ {"second"}
      BY <1>1, <1>3, <2>2, <2>4
    <3>2. m # "EVERY" /\ s.mode # "EVERY"
      BY <1>5, <2>4
    <3> QED BY <1>1, <2>1, <3>1, <3>2, ModesDiffer
  <2> QED BY <1>1, <2>3, <2>4 DEF Alarm
<1>6. GetAlarmType(a, Encode(s)) = {s.mode} <=> Answer(s.mode)
  <2> HIDE DEF Answer
  <2> QED BY <1>1, <1>2, <1>5
<1>7. Answer(s.mode) <=> left = seen /\ (s.mode = "MATCH_DY" <=> SeesWeekday(s))
  BY <1>1, <1>4
<1> DEFINE Found == \A f \in left : s[f] < (IF f = "dydw" THEN 16 ELSE 48)
<1>8. BitsFound(s) <=> Found /\ (s.mode = "MATCH_DY" => s.dydw < 24)
  <2>1. left = Ignored(s.mode) \ (IF a = 1 THEN {} ELSE {"second"})
    BY <1>1, <1>3
  <2> QED BY <2>1 DEF BitsFound
<1> HIDE DEF a, fields, Answer
<1>9. "dydw" \in fields /\ fields \subseteq Field
  BY DEF fields, Field
<1>10. CASE s.mode = "MATCH_DY"
  <2>1. left = {}
    BY <1>10 DEF Ignored
  <2>2. /\ \A f \in Field : SeesMask(s, f) <=> f = "dydw" /\ s.dydw >= 24
        /\ SeesWeekday(s) <=> s.dydw < 24
    BY <1>10, Seen
  <2>3. Answer(s.mode) <=> s.dydw < 24
    <3>1. s.dydw < 24 => seen = {}
      BY <1>1, <1>9, <2>2
    <3> QED BY <1>7, <1>10, <2>1, <2>2, <3>1
  <2>4. BitsFound(s) <=> s.dydw < 24
    BY <1>8, <1>10, <2>1
  <2> QED BY <1>6, <2>3, <2>4 DEF a
<1>11. CASE s.mode # "MATCH_DY"
  <2>1. /\ \A f \in Field : SeesMask(s, f) <=> f \in Ignored(s.mode) /\ s[f] < 48
        /\ SeesWeekday(s) <=> "dydw" \in Ignored(s.mode) /\ s.dydw >= 16
    BY <1>11, Seen
  <2>2. left = seen <=> \A f \in left : s[f] < 48
    BY <1>9, <2>1
  <2>3. ~SeesWeekday(s) <=> ("dydw" \in left => s.dydw < 16)
    BY <1>1, <1>9, <2>1
  <2>4. Found <=> (\A f \in left : s[f] < 48) /\ ("dydw" \in left => s.dydw < 16)
    <3>1. left \subseteq Field
      BY <1>9
    <3> HIDE DEF left
    <3> QED BY <1>1, <3>1 DEF Field
  <2> QED BY <1>6, <1>7, <1>8, <1>11, <2>2, <2>3, <2>4 DEF a
<1> QED BY <1>10, <1>11

(* Zero degrees and more read back; below, the sign is lost.               *)
LEMMA TemperatureSo == TemperatureReadsBack
<1> SUFFICES ASSUME NEW q \in Quarter
             PROVE  ReadTemperature(TemperatureBytes(q)) = IF q < 0 THEN q + 1024 ELSE q
  BY DEF TemperatureReadsBack
<1> DEFINE w == (q * 64) % 65536
<1>1. q \in -512 .. 511
  BY DEF Quarter
<1>2. w = IF q < 0 THEN q * 64 + 65536 ELSE q * 64
  BY <1>1
<1>3. ReadTemperature(TemperatureBytes(q)) = (((w \div 256) * 256) + (w % 256)) \div 64
  BY DEF ReadTemperature, TemperatureBytes
<1>4. w \in Nat
  BY <1>1, <1>2
<1> HIDE DEF w
<1>5. ((w \div 256) * 256) + (w % 256) = w
  BY <1>4
<1>6. w \div 64 = IF q < 0 THEN q + 1024 ELSE q
  BY <1>1, <1>2
<1> QED BY <1>3, <1>5, <1>6

(* What was set reads back, for every setting and whatever the calls, the  *)
(* mode exactly where its bits are found (getAlarm1, getAlarm2,            *)
(* getAlarmType1, getAlarmType2, readTemperature).                         *)
THEOREM ReadsBackCorrect == Spec => []ReadsBack
<1>1. ASSUME Written, NEW a \in Alarm, IsSet(a)
      PROVE  /\ \A f \in Field : (f # "dydw" \/ setting[a].mode # "MATCH_DY") =>
                  GetAlarm(registers[a])[f] = setting[a][f]
             /\ GetAlarmType(a, registers[a]) = {setting[a].mode} <=> BitsFound(setting[a])
  <2>1. setting[a].alarm = a /\ setting[a] \in Setting /\ registers[a] = Encode(setting[a])
    BY <1>1 DEF Written
  <2> QED BY <2>1, FieldReadsBack, ModeReadsBack
<1>2. IInv => ReadsBack
  BY <1>1, TemperatureSo DEF ReadsBack, IInv
<1> QED BY <1>2, InvCorrect, PTL

-----------------------------------------------------------------------------
(* Refinement.                                                             *)

\* What a call says, and that none has an alarm in mind when it does not
\* change a register.
Reports ==
  /\ pc \notin Busy => target = 0
  /\ pc \in Busy => /\ report <=> edit.then = "return"
                    /\ edit.register = "status" => edit.then \in {"idle", "return"}
  /\ pc = "return" => report
  /\ pc \in {"idle", "convert"} => ~report

(* What a call of isAlarm does after its look at the status register.      *)
LEMMA IsAlarmSo ==
  ASSUME NEW a \in Alarm, NEW clear \in BOOLEAN, IsAlarm(a, clear)
  PROVE  \/ /\ Flag(a) \in status /\ report' = TRUE
            /\ pc' = "read" /\ target' = a /\ edit' = ClearChange(a, "return")
         \/ /\ Flag(a) \in status /\ report' = TRUE
            /\ pc' = "return" /\ UNCHANGED <<target, edit>>
         \/ /\ Flag(a) \notin status /\ report' = FALSE
            /\ pc' = "idle" /\ UNCHANGED <<target, edit>>
<1>1. report' = (Flag(a) \in status)
  BY DEF IsAlarm
<1>2. CASE Flag(a) \in status
  <2>1. report' = TRUE
    BY <1>1, <1>2, Zenon
  <2>2. \/ pc' = "read" /\ target' = a /\ edit' = ClearChange(a, "return")
        \/ pc' = "return" /\ UNCHANGED <<target, edit>>
    BY <1>2 DEF IsAlarm
  <2> QED BY <1>2, <2>1, <2>2, Zenon
<1>3. CASE Flag(a) \notin status
  <2>1. report' = FALSE
    <3>1. (Flag(a) \in status) = FALSE
      BY <1>3
    <3> QED BY <1>1, <3>1
  <2>2. pc' = "idle" /\ UNCHANGED <<target, edit>>
    BY <1>3 DEF IsAlarm
  <2> QED BY <1>3, <2>1, <2>2, Zenon
<1> QED BY <1>2, <1>3

LEMMA ReportsInit == Init => Reports
BY DEF Init, Reports, Busy

(* A call that says yes is one that tested an alarm.                       *)
LEMMA ReportsStep == TypeOK /\ Changes /\ Reports /\ [Next]_vars => Reports'
<1> SUFFICES ASSUME TypeOK, Changes, Reports, [Next]_vars PROVE Reports'
  OBVIOUS
<1> USE DEF Reports
<1>1. ASSUME NEW s \in Setting, NEW armed \in BOOLEAN, SetAlarm(s, armed)
      PROVE  Reports'
  BY <1>1 DEF SetAlarm, Begin, ArmChange, Switch, Change, Busy
<1>2. CASE armAlarm \/ setBattery \/ enableOutput \/ setOutput \/ enable32kHz
             \/ forceConversion \/ Restart
  <2>1. /\ Setup(edit') /\ report' = FALSE /\ pc' = "read"
    BY <1>2, Starts
  <2>2. /\ edit'.then \in {"idle", "convert"}
        /\ edit'.register = "status" => edit'.then = "idle"
    BY <2>1 DEF Setup
  <2> QED BY <2>1, <2>2 DEF Busy
<1>3. ASSUME NEW a \in Alarm, ClearAlarm(a)
      PROVE  Reports'
  BY <1>3 DEF ClearAlarm, Begin, ClearChange, Change, Busy
<1>4. ASSUME NEW a \in Alarm, NEW clear \in BOOLEAN, IsAlarm(a, clear)
      PROVE  Reports'
  <2>1. /\ ClearChange(a, "return").then = "return"
        /\ ClearChange(a, "return").register = "status"
    BY DEF ClearChange, Change
  <2>2. pc = "idle" /\ target = 0
    BY <1>4 DEF IsAlarm, Busy
  <2> QED BY <1>4, <2>1, <2>2, IsAlarmSo DEF Busy
<1>5. CASE Read
  BY <1>5 DEF Read, Busy
<1>6. CASE WriteControl
  <2>1. pc = "write" /\ report' = report /\ pc \in Busy
    BY <1>6 DEF WriteControl, Busy
  <2>2. CASE edit.then = "clear"
    BY <1>6, <2>1, <2>2 DEF WriteControl, ClearChange, Change, Busy
  <2>3. CASE edit.then # "clear"
    <3>1. pc' = edit.then /\ target' = 0
      BY <1>6, <2>3 DEF WriteControl, End
    <3>2. edit.then \in {"idle", "convert", "return"}
      BY <2>3 DEF Changes
    <3> QED BY <2>1, <3>1, <3>2 DEF Busy
  <2> QED BY <2>2, <2>3
<1>7. CASE WriteStatus
  <2>1. pc \in Busy /\ report' = report /\ pc' = edit.then /\ target' = 0
        /\ edit.then \in {"idle", "return"}
    BY <1>7 DEF WriteStatus, End, Busy
  <2> QED BY <2>1 DEF Busy
<1>8. CASE AwaitConversion \/ Return
  BY <1>8 DEF AwaitConversion, Return, Busy
<1>9. CASE UNCHANGED <<pc, edit, target, report>>
  BY <1>9
<1> QED BY <1>1, <1>2, <1>3, <1>4, <1>5, <1>6, <1>7, <1>8, <1>9
        DEF Next, Library, SetDateTime, Converted, Tick, library, vars

LEMMA ReportsCorrect == Spec => []Reports
<1>1. IInv => TypeOK /\ Changes
  BY DEF IInv
<1> QED BY <1>1, ReportsInit, ReportsStep, InvCorrect, PTL DEF Spec

(* A start of the driver is a start of the promise.                        *)
LEMMA InitMaps == Init => Promise!Init
<1>1. Init => Ringing = {}
  BY FlagSo DEF Init, Ringing, PowerOnStatus, Alarm
<1> QED BY <1>1 DEF Init, Promise!Init

(* The calls that start: each is a call of the promise, and leaves the     *)
(* flags alone.                                                            *)
LEMMA CallMaps ==
  ASSUME TypeOK, Reports,
         \/ \E s \in Setting, armed \in BOOLEAN : SetAlarm(s, armed)
         \/ \E a \in Alarm : ClearAlarm(a) \/ IsAlarm(a, TRUE) \/ IsAlarm(a, FALSE)
         \/ SetDateTime
         \/ armAlarm \/ setBattery \/ enableOutput \/ setOutput \/ enable32kHz \/ forceConversion
  PROVE  Promise!Next
<1>1. ASSUME NEW s \in Setting, NEW armed \in BOOLEAN, SetAlarm(s, armed)
      PROVE  Promise!Next
  <2>1. s.alarm \in Alarm /\ s \in SettingsOf[s.alarm]
    BY SettingAssumption DEF SettingsOf
  <2>2. /\ pc = "idle" /\ pc' = "read" /\ target' = s.alarm /\ report' = FALSE
        /\ setting' = [setting EXCEPT ![s.alarm] = s] /\ UNCHANGED <<status, fresh>>
    BY <1>1 DEF SetAlarm, Begin
  <2>3. UNCHANGED Ringing
    BY <2>2 DEF Ringing
  <2>4. Promise!Start(s.alarm, FALSE)
    BY <2>2 DEF Promise!Start
  <2>5. Promise!Set(s.alarm)
    BY <2>1, <2>2, <2>3, <2>4 DEF Promise!Set
  <2> QED BY <2>1, <2>5 DEF Promise!Next
<1>2. ASSUME NEW a \in Alarm, ClearAlarm(a)
      PROVE  Promise!Next
  <2>1. /\ pc = "idle" /\ pc' = "read" /\ target' = a /\ report' = FALSE
        /\ UNCHANGED <<setting, status, fresh>>
    BY <1>2 DEF ClearAlarm, Begin, chip, history
  <2>2. UNCHANGED Ringing
    BY <2>1 DEF Ringing
  <2>3. Promise!Clear(a)
    BY <2>1, <2>2 DEF Promise!Clear, Promise!Start
  <2> QED BY <2>3 DEF Promise!Next
<1>3. ASSUME NEW a \in Alarm, NEW clear \in BOOLEAN, IsAlarm(a, clear)
      PROVE  Promise!Next
  <2>1. pc = "idle" /\ target = 0 /\ UNCHANGED <<setting, status, fresh>>
    BY <1>3 DEF IsAlarm, chip, history, Reports, Busy
  <2>2. UNCHANGED Ringing
    BY <2>1 DEF Ringing
  <2>3. CASE Flag(a) \in status
    <3>1. report' = TRUE /\ pc' \in {"read", "return"} /\ target' \in {0, a}
      BY <1>3, <2>1, <2>3, IsAlarmSo
    <3>2. a \in Ringing
      BY <2>3 DEF Ringing
    <3>3. Promise!SayYes(a)
      BY <2>1, <2>2, <3>1, <3>2 DEF Promise!SayYes, Promise!Start
    <3> QED BY <3>3 DEF Promise!Next
  <2>4. CASE Flag(a) \notin status
    <3>1. report' = FALSE /\ pc' = "idle" /\ target' = target
      BY <1>3, <2>4, IsAlarmSo
    <3>2. a \notin Ringing
      BY <2>4 DEF Ringing
    <3>3. Promise!SayNo(a)
      BY <2>1, <2>2, <3>1, <3>2 DEF Promise!SayNo
    <3> QED BY <3>3 DEF Promise!Next
  <2> QED BY <2>3, <2>4
<1>4. CASE SetDateTime
  <2>1. /\ pc = "idle" /\ setting' = [setting EXCEPT ![1] = NoSetting]
        /\ UNCHANGED <<pc, target, report, status, fresh>> /\ 1 \in Alarm
    BY <1>4 DEF SetDateTime, library, Alarm
  <2>2. UNCHANGED Ringing
    BY <2>1 DEF Ringing
  <2>3. Promise!Forget(1)
    BY <2>1, <2>2 DEF Promise!Forget
  <2> QED BY <2>1, <2>3 DEF Promise!Next
<1>5. CASE armAlarm \/ setBattery \/ enableOutput \/ setOutput \/ enable32kHz \/ forceConversion
  <2>1. target' = 0 /\ report' = FALSE /\ pc' = "read" /\ UNCHANGED <<chip, setting>>
    BY <1>5, Starts
  <2>2. pc = "idle" /\ UNCHANGED fresh
    BY <1>5 DEF armAlarm, setBattery, enableOutput, setOutput, enable32kHz, forceConversion,
                Configure
  <2>3. UNCHANGED Ringing
    BY <2>1 DEF Ringing, chip
  <2>4. Promise!Other
    BY <2>1, <2>2, <2>3 DEF Promise!Other, Promise!Start
  <2> QED BY <2>4 DEF Promise!Next
<1> QED BY <1>1, <1>2, <1>3, <1>4, <1>5

(* The transfers of a call: the write of the status register is the moment *)
(* at which a flag goes down.                                              *)
LEMMA TransferMaps ==
  ASSUME TypeOK, Changes, Copies, Reports,
         Read \/ WriteControl \/ WriteStatus \/ AwaitConversion \/ Return
  PROVE  [Promise!Next]_(Promise!vars)
<1>1. CASE Read
  <2>1. /\ (pc # "idle") = TRUE /\ (pc' # "idle") = TRUE
        /\ UNCHANGED <<setting, target, report, status, fresh>>
    BY <1>1 DEF Read, chip, history
  <2>2. UNCHANGED Ringing
    BY <2>1 DEF Ringing
  <2> QED BY <2>1, <2>2 DEF Promise!vars
<1>2. CASE WriteControl
  <2>1. /\ pc = "write" /\ edit.register = "control" /\ pc \in Busy /\ fresh' = {}
        /\ UNCHANGED <<setting, report, status>>
    BY <1>2 DEF WriteControl, End, Busy
  <2>2. UNCHANGED Ringing
    BY <2>1 DEF Ringing
  <2>3. target' = target
    <3>1. CASE edit.then = "clear"
      BY <1>2, <3>1 DEF WriteControl
    <3>2. CASE edit.then # "clear"
      <4>1. target = 0
        BY <2>1, <3>2 DEF Changes, TypeOK
      <4> QED BY <1>2, <3>2, <4>1 DEF WriteControl, End
    <3> QED BY <3>1, <3>2
  <2>4. CASE edit.then = "idle"
    <3>1. pc' = "idle" /\ target = 0 /\ report = FALSE
      <4>1. pc' = "idle" /\ target = 0
        BY <1>2, <2>1, <2>4 DEF WriteControl, Changes, TypeOK
      <4>2. report = FALSE
        BY <2>1, <2>4 DEF Reports, TypeOK
      <4> QED BY <4>1, <4>2
    <3>2. Promise!Finish
      BY <2>1, <2>2, <2>3, <3>1 DEF Promise!Finish
    <3> QED BY <3>2 DEF Promise!Next
  <2>5. CASE edit.then # "idle"
    <3>1. pc' # "idle"
      <4>1. edit.then \in {"clear", "convert", "return"}
        BY <2>5 DEF Changes
      <4> QED BY <1>2, <4>1 DEF WriteControl
    <3>2. Promise!GoOn
      BY <2>1, <2>2, <2>3, <3>1 DEF Promise!GoOn
    <3> QED BY <3>2 DEF Promise!Next
  <2> QED BY <2>4, <2>5
<1>3. CASE WriteStatus
  <2>1. /\ pc = "write" /\ edit.register = "status" /\ pc \in Busy /\ fresh' = {} /\ target' = 0
        /\ pc' = edit.then /\ UNCHANGED <<setting, report>>
    BY <1>3 DEF WriteStatus, End, Busy
  <2>2. (pc' # "idle") = report
    <3>1. (report <=> edit.then = "return") /\ edit.then \in {"idle", "return"}
      BY <2>1 DEF Reports
    <3>2. report \in BOOLEAN
      BY DEF TypeOK
    <3> QED BY <2>1, <3>1, <3>2
  <2> DEFINE lost == (Ringing \ {target}) \ Ringing'
  <2>3. /\ Ringing' \subseteq Ringing \ {target}
        /\ lost \subseteq fresh
    <3>1. \A a \in Alarm :
            /\ Flag(a) \in status' => Flag(a) \in status /\ a # target
            /\ Flag(a) \in status \ status' => a = target \/ a \in fresh
      BY <1>3, StatusWritten
    <3> QED BY <3>1 DEF Ringing
  <2>4. Ringing' = (Ringing \ {target}) \ lost
    BY <2>3
  <2> HIDE DEF lost
  <2>5. Promise!TakeDown
    BY <2>1, <2>2, <2>3, <2>4 DEF Promise!TakeDown
  <2> QED BY <2>5 DEF Promise!Next
<1>4. CASE AwaitConversion \/ Return
  <2>1. /\ pc \in {"convert", "return"} /\ pc' = "idle" /\ report' = FALSE
        /\ UNCHANGED <<target, setting, status, fresh>>
    BY <1>4 DEF AwaitConversion, Return, chip, history, Reports, TypeOK
  <2>2. target = 0
    BY <2>1 DEF Reports, Busy
  <2>3. UNCHANGED Ringing
    BY <2>1 DEF Ringing
  <2>4. Promise!Finish
    BY <2>1, <2>2, <2>3 DEF Promise!Finish
  <2> QED BY <2>4 DEF Promise!Next
<1> QED BY <1>1, <1>2, <1>3, <1>4

(* The chip: an alarm rings when its bytes match, which is at the times    *)
(* its setting stands for.                                                 *)
LEMMA TickMaps ==
  ASSUME TypeOK, Written, NEW t \in ChipTime, Tick(t)
  PROVE  Promise!Ring(t)
<1> DEFINE rings == {a \in Alarm : Matches(registers[a], t)}
<1>1. /\ status' = status \cup {Flag(a) : a \in rings}
      /\ fresh' = IF pc = "write" THEN fresh \cup rings ELSE fresh
      /\ UNCHANGED <<pc, target, report, setting>>
  BY DEF Tick, library
<1>2. ASSUME NEW a \in Alarm, setting[a] # NoSetting
      PROVE  a \in rings <=> t \in DueTimes[setting[a]]
  <2>1. setting[a] \in Setting /\ registers[a] = Encode(setting[a])
    BY <1>2 DEF Written, IsSet
  <2>2. Matches(registers[a], t) <=> Means(setting[a], t)
    BY <2>1, EncodedMatches
  <2>3. t \in DueTimes[setting[a]] <=> Means(setting[a], t)
    BY <2>1 DEF DueTimes
  <2> QED BY <2>2, <2>3
<1>3. rings \subseteq Alarm
  OBVIOUS
<1> HIDE DEF rings
<1>4. Ringing' = Ringing \cup rings
  <2>1. \A a \in Alarm : Flag(a) \in status' <=> Flag(a) \in status \/ a \in rings
    BY <1>1, <1>3, FlagSo DEF Alarm
  <2> QED BY <1>3, <2>1 DEF Ringing
<1>5. fresh' = fresh \/ ((pc # "idle") /\ fresh' = fresh \cup rings)
  BY <1>1
<1>6. UNCHANGED <<setting, pc # "idle", target, report>>
  BY <1>1
<1> QED BY <1>2, <1>3, <1>4, <1>5, <1>6 DEF Promise!Ring

(* A step of the driver, the chip or a reset is a step of the promise, or  *)
(* changes nothing that the promise speaks of.                             *)
LEMMA StepMaps ==
  ASSUME IInv, Reports, [Next]_vars
  PROVE  [Promise!Next]_(Promise!vars)
<1>1. TypeOK /\ Changes /\ Copies /\ Written
  BY DEF IInv
<1>2. CASE Library
  BY <1>1, <1>2, CallMaps, TransferMaps DEF Library
<1>3. CASE Converted
  <2>1. UNCHANGED <<setting, pc, target, report, status, fresh>>
    BY <1>3 DEF Converted, library, history
  <2> QED BY <2>1 DEF Ringing, Promise!vars
<1>4. CASE Restart
  <2>1. target' = 0 /\ report' = FALSE /\ pc' = "read" /\ UNCHANGED <<chip, setting>>
    BY <1>4, Starts
  <2>2. fresh' = {}
    BY <1>4 DEF Restart
  <2>3. UNCHANGED Ringing
    BY <2>1 DEF Ringing, chip
  <2>4. Promise!Restart
    BY <2>1, <2>2, <2>3 DEF Promise!Restart
  <2> QED BY <2>4 DEF Promise!Next
<1>5. ASSUME NEW t \in ChipTime, Tick(t) PROVE [Promise!Next]_(Promise!vars)
  <2>1. Promise!Ring(t)
    BY <1>1, <1>5, TickMaps
  <2> QED BY <2>1 DEF Promise!Next
<1>6. CASE UNCHANGED vars
  BY <1>6 DEF vars, library, chip, history, Ringing, Promise!vars
<1> QED BY <1>2, <1>3, <1>4, <1>5, <1>6 DEF Next

(* The driver and the chip keep the promise, for any alarms and times:     *)
(* each call takes effect in one moment, and the bytes, masks and the      *)
(* transfers between reading and writing a register do not show, but for   *)
(* the window.                                                             *)
THEOREM Refinement == Spec => KeepsPromise
<1>1. IInv /\ Reports /\ [Next]_vars => [Promise!Next]_(Promise!vars)
  BY StepMaps
<1> QED BY <1>1, InitMaps, InvCorrect, ReportsCorrect, PTL
        DEF Spec, KeepsPromise, Promise!Spec

=============================================================================

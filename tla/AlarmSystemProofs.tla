------------------------- MODULE AlarmSystemProofs --------------------------
(***************************************************************************)
(* Proofs about AlarmSystem, for any number of timers and channels: the    *)
(* sketch runs in it as in AlarmClock, and what the pins put out is what   *)
(* the sketch asked for.  The library's invariant is the one of            *)
(* ServoProofs, for one tone pin, one analogWrite() pin and no Servo.      *)
(***************************************************************************)
EXTENDS AlarmSystem, AlarmClockProofs, FiniteSetTheorems, TLAPS

S == INSTANCE ServoProofs WITH
       TonePin <- {Buzz}, WritePin <- {Relay}, ServoPin <- {},
       ServoUse <- [p \in {} |-> {}],
       ToneFreq <- [p \in {Buzz} |-> {BuzzFreq}], Level <- {RelayDrive},
       servo <- [p \in {} |-> {}], reattach <- "none",
       told <- [p \in {} |-> {}]

-----------------------------------------------------------------------------
(* The pins of the sketch satisfy what the library's proofs assume.        *)

LEMMA PinsDiffer == Buzz # Relay
BY DEF Buzz, Relay

(* Two pins, at most one of each kind, on the timers and channels assumed. *)
LEMMA Hardware == S!HardwareAssumption
<1>1. S!IsFiniteSet(S!Pin)
  <2>1. S!IsFiniteSet({Buzz, Relay})
    <3>1. IsFiniteSet({Buzz} \cup {Relay})
      BY FS_Singleton, FS_AddElement
    <3>2. {Buzz, Relay} = {Buzz} \cup {Relay}
      OBVIOUS
    <3> QED BY <3>1, <3>2 DEF S!IsFiniteSet, IsFiniteSet
  <2>2. S!Pin = {Buzz, Relay}
    BY DEF S!Pin
  <2> QED BY <2>1, <2>2
<1>2. [p \in {} |-> {}] \in [{} -> SUBSET [freq : Nat \ {0}, bits : 16 .. 20]]
  OBVIOUS
<1>3. [p \in {Buzz} |-> {BuzzFreq}] \in [{Buzz} -> SUBSET (Nat \ {0})]
  BY DEF BuzzFreq
<1> QED BY <1>1, <1>2, <1>3, PinsDiffer, SystemAssumption DEF S!HardwareAssumption, RelayDrive

(* No Servo, so nothing is asked of the Servo pins' use of the timers.     *)
LEMMA Servos == S!DefaultAssumption
BY DEF S!DefaultAssumption

(* The sketch has one frequency for its one tone pin.                      *)
LEMMA Fixed == S!FixedTones
BY DEF S!FixedTones

-----------------------------------------------------------------------------
(* The two instances of the library are one.                               *)

LEMMA SameTone ==
  Pwm!Tone(Buzz, BuzzFreq) => S!Tone(Buzz, BuzzFreq)
BY DEF S!Timer, Pwm!Timer, S!Slot, Pwm!Slot, S!Pin, Pwm!Pin, S!Use, Pwm!Use,
       S!Freq, Pwm!Freq, S!Bits, Pwm!Bits, S!Channel, Pwm!Channel, S!LedcTimer,
       Pwm!LedcTimer, S!LedcOf, Pwm!LedcOf, S!Half, Pwm!Half, S!Stale,
       Pwm!Stale, S!NoObject, Pwm!NoObject, S!Low, Pwm!Low, S!High, Pwm!High,
       S!Sound, Pwm!Sound, S!Wave, Pwm!Wave, S!ToneBits, Pwm!ToneBits,
       S!WriteBits, Pwm!WriteBits, S!WriteFreq, Pwm!WriteFreq, S!Used,
       Pwm!Used, S!UsedChannel, Pwm!UsedChannel, S!ChannelsOf, Pwm!ChannelsOf,
       S!Attached, Pwm!Attached, S!ChannelOf, Pwm!ChannelOf, S!Fits, Pwm!Fits,
       S!Halt, Pwm!Halt, S!Allocate, Pwm!Allocate, S!Deallocate,
       Pwm!Deallocate, S!Asks, Pwm!Asks, S!books, Pwm!books, S!Min, Pwm!Min,
       S!Tone, Pwm!Tone, S!ToneStart, Pwm!ToneStart, S!ToneChange,
       Pwm!ToneChange, S!Max, Pwm!Max

(* noTone() of the buzzer.                                                 *)
LEMMA SameNoTone ==
  Pwm!NoTone(Buzz) => S!NoTone(Buzz)
BY DEF S!Timer, Pwm!Timer, S!Slot, Pwm!Slot, S!Pin, Pwm!Pin, S!Use, Pwm!Use,
       S!Freq, Pwm!Freq, S!Bits, Pwm!Bits, S!Channel, Pwm!Channel, S!LedcTimer,
       Pwm!LedcTimer, S!LedcOf, Pwm!LedcOf, S!Half, Pwm!Half, S!Stale,
       Pwm!Stale, S!NoObject, Pwm!NoObject, S!Low, Pwm!Low, S!High, Pwm!High,
       S!Sound, Pwm!Sound, S!Wave, Pwm!Wave, S!ToneBits, Pwm!ToneBits,
       S!WriteBits, Pwm!WriteBits, S!WriteFreq, Pwm!WriteFreq, S!Used,
       Pwm!Used, S!UsedChannel, Pwm!UsedChannel, S!ChannelsOf, Pwm!ChannelsOf,
       S!Attached, Pwm!Attached, S!ChannelOf, Pwm!ChannelOf, S!Fits, Pwm!Fits,
       S!Halt, Pwm!Halt, S!Allocate, Pwm!Allocate, S!Deallocate,
       Pwm!Deallocate, S!Asks, Pwm!Asks, S!books, Pwm!books, S!Min, Pwm!Min,
       S!NoTone, Pwm!NoTone

(* analogWrite() of the relay's drive, and of zero.                        *)
LEMMA SameWave ==
  Pwm!WriteWave(Relay, RelayDrive) => S!WriteWave(Relay, RelayDrive)
BY DEF S!Timer, Pwm!Timer, S!Slot, Pwm!Slot, S!Pin, Pwm!Pin, S!Use, Pwm!Use,
       S!Freq, Pwm!Freq, S!Bits, Pwm!Bits, S!Channel, Pwm!Channel, S!LedcTimer,
       Pwm!LedcTimer, S!LedcOf, Pwm!LedcOf, S!Half, Pwm!Half, S!Stale,
       Pwm!Stale, S!NoObject, Pwm!NoObject, S!Low, Pwm!Low, S!High, Pwm!High,
       S!Sound, Pwm!Sound, S!Wave, Pwm!Wave, S!ToneBits, Pwm!ToneBits,
       S!WriteBits, Pwm!WriteBits, S!WriteFreq, Pwm!WriteFreq, S!Used,
       Pwm!Used, S!UsedChannel, Pwm!UsedChannel, S!ChannelsOf, Pwm!ChannelsOf,
       S!Attached, Pwm!Attached, S!ChannelOf, Pwm!ChannelOf, S!Fits, Pwm!Fits,
       S!Halt, Pwm!Halt, S!Allocate, Pwm!Allocate, S!Deallocate,
       Pwm!Deallocate, S!Asks, Pwm!Asks, S!books, Pwm!books, S!Min, Pwm!Min,
       S!WriteWave, Pwm!WriteWave

LEMMA SameLow ==
  Pwm!WriteDigital(Relay, Pwm!Low) => S!WriteDigital(Relay, S!Low)
BY DEF S!Timer, Pwm!Timer, S!Slot, Pwm!Slot, S!Pin, Pwm!Pin, S!Use, Pwm!Use,
       S!Freq, Pwm!Freq, S!Bits, Pwm!Bits, S!Channel, Pwm!Channel, S!LedcTimer,
       Pwm!LedcTimer, S!LedcOf, Pwm!LedcOf, S!Half, Pwm!Half, S!Stale,
       Pwm!Stale, S!NoObject, Pwm!NoObject, S!Low, Pwm!Low, S!High, Pwm!High,
       S!Sound, Pwm!Sound, S!Wave, Pwm!Wave, S!ToneBits, Pwm!ToneBits,
       S!WriteBits, Pwm!WriteBits, S!WriteFreq, Pwm!WriteFreq, S!Used,
       Pwm!Used, S!UsedChannel, Pwm!UsedChannel, S!ChannelsOf, Pwm!ChannelsOf,
       S!Attached, Pwm!Attached, S!ChannelOf, Pwm!ChannelOf, S!Fits, Pwm!Fits,
       S!Halt, Pwm!Halt, S!Allocate, Pwm!Allocate, S!Deallocate,
       Pwm!Deallocate, S!Asks, Pwm!Asks, S!books, Pwm!books, S!Min, Pwm!Min,
       S!WriteDigital, Pwm!WriteDigital

(* A reset, and the first start.                                           *)
LEMMA SameRestart == Pwm!Restart => S!Restart
BY DEF S!Timer, Pwm!Timer, S!Slot, Pwm!Slot, S!Pin, Pwm!Pin, S!Channel,
       Pwm!Channel, S!LedcTimer, Pwm!LedcTimer, S!NoObject, Pwm!NoObject,
       S!Low, Pwm!Low, S!Restart, Pwm!Restart

LEMMA SameInit == Pwm!Init => S!ServoInit
<1>1. Pwm!Init => S!Init
  BY DEF S!Timer, Pwm!Timer, S!Slot, Pwm!Slot, S!Pin, Pwm!Pin, S!Channel,
       Pwm!Channel, S!LedcTimer, Pwm!LedcTimer, S!NoObject, Pwm!NoObject,
       S!Low, Pwm!Low, S!Init, Pwm!Init
<1> QED BY <1>1 DEF S!ServoInit, S!None

-----------------------------------------------------------------------------
(* The library's steps.                                                    *)

(* The first of one call or of two, and what is left after it.             *)
LEMMA HeadsAndTails ==
  /\ \A x : Head(<<x>>) = x /\ Tail(<<x>>) = <<>> /\ <<x>> # <<>>
  /\ \A x, y : Head(<<x, y>>) = x /\ Tail(<<x, y>>) = <<y>> /\ <<x, y>> # <<>>
OBVIOUS

(* A call of the sketch is a step of the library's specification.          *)
LEMMA CallStep ==
  ASSUME halted = 0,
         \/ Pwm!Tone(Buzz, BuzzFreq) \/ Pwm!NoTone(Buzz)
         \/ Pwm!WriteWave(Relay, RelayDrive) \/ Pwm!WriteDigital(Relay, Pwm!Low)
  PROVE  S!ServoNext
<1>1. \/ S!Tone(Buzz, BuzzFreq) \/ S!NoTone(Buzz)
      \/ S!WriteWave(Relay, RelayDrive) \/ S!WriteDigital(Relay, S!Low)
  BY SameTone, SameNoTone, SameWave, SameLow
<1>2. BuzzFreq \in [p \in {Buzz} |-> {BuzzFreq}][Buzz]
  OBVIOUS
<1>3. S!Call
  BY <1>1, <1>2 DEF S!Call, S!AnalogWrite
<1> QED BY <1>3 DEF S!ServoNext, S!None

(* A reset of the system is one of the library; a step that leaves its     *)
(* state alone is a stutter.                                               *)
LEMMA ResetStep == SysReset => S!ServoNext
BY SameRestart DEF SysReset, S!ServoNext, S!ServoRestart, S!None

LEMMA NoCallStep == UNCHANGED library => UNCHANGED S!servoVars
BY DEF library, S!servoVars, S!vars, S!books

(* As long as no timer is closed, a pin without a channel finds a timer:   *)
(* the other pin has one channel at most.                                  *)
LEMMA AlwaysFits ==
  ASSUME S!FixedInv, explicateAllocationMode = FALSE, NEW p \in {Buzz, Relay}, ~S!Attached(p),
         NEW f
  PROVE  S!Fits(f) # {}
<1>1. PICK q \in {Buzz, Relay} : q # p /\ {Buzz, Relay} = {p, q}
  BY PinsDiffer
<1>2. S!IInv /\ S!TypeOK /\ S!Tables
  BY DEF S!FixedInv, S!IInv
<1>3. \A c \in S!UsedChannel : ChannelUsed[c] \in S!Object /\ c[1] \in S!Timer
  BY <1>2, Hardware, Servos, S!UsedSo
<1>4. \A c \in S!UsedChannel : ChannelUsed[c].pin = q
  <2>1. \A c \in S!UsedChannel : ChannelUsed[c].pin \in {p, q}
    BY <1>1, <1>3 DEF S!Object, S!Pin
  <2>2. \A c \in S!UsedChannel : ChannelUsed[c].pin # p
    BY DEF S!Attached, S!ChannelsOf
  <2> QED BY <2>1, <2>2
<1>5. \A c, d \in S!UsedChannel : c = d
  BY <1>2, <1>4 DEF S!Tables, S!OneEach
<1>6. 0 \in S!Timer /\ 1 \in S!Timer /\ 0 \in S!Slot
  BY SystemAssumption DEF S!Timer, S!Slot
<1>7. PICK t \in S!Timer : \A c \in S!UsedChannel : c[1] # t
  BY <1>5, <1>6
<1>8. S!Used(t) = {}
  <2>1. \A s \in S!Slot : s \in S!Used(t) => <<t, s>> \in S!UsedChannel
    BY <1>2, Hardware, Servos, S!UsedSo
  <2> QED BY <1>7, <2>1 DEF S!Used
<1>9. timerFreqSet[t] = -1
  BY <1>2, <1>8 DEF S!Tables, S!Tuned
<1>10. timerCount[t] = 0
  <2>1. S!Cardinality({}) = 0
    BY Hardware, Servos, S!FS_EmptySet
  <2> QED BY <1>2, <1>8, <2>1 DEF S!Tables, S!Counted, S!Closed
<1>11. t \in S!Fits(f)
  BY <1>6, <1>8, <1>9, <1>10, SystemAssumption DEF S!Fits
<1> QED BY <1>11

-----------------------------------------------------------------------------
(* The invariant: the pins were told what the sketch's variables say, or   *)
(* the calls that will tell them are still to be made.                     *)

BuzzTold == asked[Buzz] = IF buzzer THEN S!Sound(BuzzFreq) ELSE S!Low
RelayTold == asked[Relay] = IF relay THEN S!Wave(RelayDrive) ELSE S!Low

Follows ==
  \/ calls = <<>> /\ BuzzTold /\ RelayTold
  \/ calls = <<"tone">> /\ buzzer /\ RelayTold
  \/ calls = <<"drive">> /\ relay /\ BuzzTold
  \/ calls = <<"low">> /\ ~relay /\ BuzzTold
  \/ calls = <<"noTone", "low">> /\ ~buzzer /\ ~relay

SysInv ==
  /\ S!FixedInv
  /\ halted = 0 /\ explicateAllocationMode = FALSE
  /\ buzzer \in BOOLEAN /\ relay \in BOOLEAN
  /\ Follows

(* The pins are told by the calls, if these are made at all.               *)
LEMMA CallTells ==
  ASSUME S!FixedInv, halted = 0, explicateAllocationMode = FALSE
  PROVE  /\ Pwm!Tone(Buzz, BuzzFreq) =>
              /\ asked'[Buzz] = S!Sound(BuzzFreq) /\ asked'[Relay] = asked[Relay]
              /\ halted' = 0 /\ explicateAllocationMode' = FALSE
         /\ Pwm!NoTone(Buzz) =>
              /\ asked'[Buzz] = S!Low /\ asked'[Relay] = asked[Relay]
              /\ halted' = 0 /\ explicateAllocationMode' = FALSE
         /\ Pwm!WriteWave(Relay, RelayDrive) =>
              /\ asked'[Relay] = S!Wave(RelayDrive) /\ asked'[Buzz] = asked[Buzz]
              /\ halted' = 0 /\ explicateAllocationMode' = FALSE
         /\ Pwm!WriteDigital(Relay, Pwm!Low) =>
              /\ asked'[Relay] = S!Low /\ asked'[Buzz] = asked[Buzz]
              /\ halted' = 0 /\ explicateAllocationMode' = FALSE
<1>1. \A f : /\ ~S!Attached(Buzz) => S!Fits(f) # {}
             /\ ~S!Attached(Relay) => S!Fits(f) # {}
  BY AlwaysFits
<1>2. ASSUME NEW p \in {Buzz, Relay}, NEW q \in {Buzz, Relay}, p # q, NEW w, S!Asks(p, w)
      PROVE  asked'[p] = w /\ asked'[q] = asked[q]
  <2>1. asked \in [{Buzz, Relay} -> S!Order]
    <3>1. asked \in [S!Pin -> S!Order]
      BY Hardware, Servos, S!TypeFromTables DEF S!FixedInv, S!IInv
    <3> QED BY <3>1 DEF S!Pin
  <2> QED BY <1>2, <2>1 DEF S!Asks
<1>3. ASSUME Pwm!Tone(Buzz, BuzzFreq)
      PROVE  /\ asked'[Buzz] = S!Sound(BuzzFreq) /\ asked'[Relay] = asked[Relay]
             /\ halted' = 0 /\ explicateAllocationMode' = FALSE
  <2>1. S!Tone(Buzz, BuzzFreq)
    BY <1>3, SameTone
  <2>2. /\ S!Asks(Buzz, S!Sound(BuzzFreq)) /\ halted' = halted
        /\ explicateAllocationMode' = explicateAllocationMode
    BY <1>1, <2>1 DEF S!Tone, S!ToneStart, S!ToneChange, S!Allocate
  <2> QED BY <1>2, <2>2, PinsDiffer
<1>4. ASSUME Pwm!NoTone(Buzz)
      PROVE  /\ asked'[Buzz] = S!Low /\ asked'[Relay] = asked[Relay]
             /\ halted' = 0 /\ explicateAllocationMode' = FALSE
  <2>1. S!NoTone(Buzz)
    BY <1>4, SameNoTone
  <2>2. /\ S!Asks(Buzz, S!Low) /\ halted' = halted
        /\ explicateAllocationMode' = explicateAllocationMode
    BY <2>1 DEF S!NoTone, S!Deallocate, S!books
  <2> QED BY <1>2, <2>2, PinsDiffer
<1>5. ASSUME Pwm!WriteWave(Relay, RelayDrive)
      PROVE  /\ asked'[Relay] = S!Wave(RelayDrive) /\ asked'[Buzz] = asked[Buzz]
             /\ halted' = 0 /\ explicateAllocationMode' = FALSE
  <2>1. S!WriteWave(Relay, RelayDrive)
    BY <1>5, SameWave
  <2>2. /\ S!Asks(Relay, S!Wave(RelayDrive)) /\ halted' = halted
        /\ explicateAllocationMode' = explicateAllocationMode
    BY <1>1, <2>1 DEF S!WriteWave, S!Allocate
  <2> QED BY <1>2, <2>2, PinsDiffer
<1>6. ASSUME Pwm!WriteDigital(Relay, Pwm!Low)
      PROVE  /\ asked'[Relay] = S!Low /\ asked'[Buzz] = asked[Buzz]
             /\ halted' = 0 /\ explicateAllocationMode' = FALSE
  <2>1. S!WriteDigital(Relay, S!Low)
    BY <1>6, SameLow
  <2>2. /\ S!Asks(Relay, S!Low) /\ halted' = halted
        /\ explicateAllocationMode' = explicateAllocationMode
    BY <2>1 DEF S!WriteDigital, S!Deallocate, S!books
  <2> QED BY <1>2, <2>2, PinsDiffer
<1> QED BY <1>3, <1>4, <1>5, <1>6

(* The library's call at the head of the list keeps the invariant.         *)
LEMMA LibraryStep == SysInv /\ LibraryCall => SysInv'
<1> SUFFICES ASSUME SysInv, LibraryCall PROVE SysInv'
  OBVIOUS
<1>1. S!FixedInv /\ halted = 0 /\ explicateAllocationMode = FALSE
      /\ UNCHANGED vars /\ calls' = Tail(calls) /\ calls # <<>>
  BY DEF SysInv, LibraryCall
<1>2. UNCHANGED <<buzzer, relay>>
  BY <1>1 DEF vars, program, outputs
<1>3. ASSUME S!ServoNext PROVE S!FixedInv'
  BY <1>1, <1>3, Hardware, Servos, Fixed, S!FixedStep
<1>4. CASE calls = <<"tone">> /\ buzzer /\ RelayTold
  <2>1. calls' = <<>> /\ Pwm!Tone(Buzz, BuzzFreq)
    BY <1>1, <1>4, HeadsAndTails DEF LibraryCall
  <2>2. S!FixedInv'
    BY <1>1, <1>3, <2>1, CallStep
  <2> QED BY <1>1, <1>2, <1>4, <2>1, <2>2, CallTells
          DEF SysInv, Follows, BuzzTold, RelayTold
<1>5. CASE calls = <<"drive">> /\ relay /\ BuzzTold
  <2>1. calls' = <<>> /\ Pwm!WriteWave(Relay, RelayDrive)
    BY <1>1, <1>5, HeadsAndTails DEF LibraryCall
  <2>2. S!FixedInv'
    BY <1>1, <1>3, <2>1, CallStep
  <2> QED BY <1>1, <1>2, <1>5, <2>1, <2>2, CallTells
          DEF SysInv, Follows, BuzzTold, RelayTold
<1>6. CASE calls = <<"low">> /\ ~relay /\ BuzzTold
  <2>1. calls' = <<>> /\ Pwm!WriteDigital(Relay, Pwm!Low)
    BY <1>1, <1>6, HeadsAndTails DEF LibraryCall
  <2>2. S!FixedInv'
    BY <1>1, <1>3, <2>1, CallStep
  <2> QED BY <1>1, <1>2, <1>6, <2>1, <2>2, CallTells
          DEF SysInv, Follows, BuzzTold, RelayTold
<1>7. CASE calls = <<"noTone", "low">> /\ ~buzzer /\ ~relay
  <2>1. calls' = <<"low">> /\ Pwm!NoTone(Buzz)
    BY <1>1, <1>7, HeadsAndTails DEF LibraryCall
  <2>2. S!FixedInv'
    BY <1>1, <1>3, <2>1, CallStep
  <2> QED BY <1>1, <1>2, <1>7, <2>1, <2>2, CallTells
          DEF SysInv, Follows, BuzzTold, RelayTold
<1> QED BY <1>1, <1>4, <1>5, <1>6, <1>7 DEF SysInv, Follows

-----------------------------------------------------------------------------
(* The sketch's steps.                                                     *)

\* The calls of a step of the sketch are those that its outputs ask for.
AsksFor ==
  \/ CallsOf(pc, pc') = <<>> /\ UNCHANGED <<buzzer, relay>>
  \/ CallsOf(pc, pc') = <<"tone">> /\ buzzer' = TRUE /\ UNCHANGED relay
  \/ CallsOf(pc, pc') = <<"drive">> /\ relay' = TRUE /\ UNCHANGED buzzer
  \/ CallsOf(pc, pc') = <<"low">> /\ relay' = FALSE /\ UNCHANGED buzzer
  \/ CallsOf(pc, pc') = <<"noTone", "low">> /\ buzzer' = FALSE /\ relay' = FALSE

(* Every step of the sketch makes the calls that its outputs ask for.      *)
LEMMA ProgramAsks == Program => AsksFor
<1>1. ASSUME NEW x, NEW y,
             ~(x = "sprPoll" /\ y = "ring"), ~(x \in WaterPcs /\ y \in {"water", "pause"}),
             ~(x \in PausePcs /\ y \in {"pause", "notifyCheck"}), x # "ringEnd"
      PROVE  CallsOf(x, y) = <<>>
  BY <1>1 DEF CallsOf
<1>2. /\ CallsOf("sprPoll", "ring") = <<"tone">>
      /\ \A y : CallsOf("ringEnd", y) = <<"noTone", "low">>
      /\ \A x \in WaterPcs, y \in {"water", "pause"} : CallsOf(x, y) = <<"drive">>
      /\ \A x \in PausePcs, y \in {"pause", "notifyCheck"} : CallsOf(x, y) = <<"low">>
  BY DEF CallsOf, WaterPcs, PausePcs
<1> USE DEF WaterPcs, PausePcs
<1>3. CASE Setup
  BY <1>1, <1>3 DEF Setup, AsksFor
<1>4. CASE UIThread
  BY <1>1, <1>4 DEF UIThread, UIRefresh, UIWait, Goto, outputs, AsksFor
<1>5. CASE IOThread
  BY <1>1, <1>5 DEF IOThread, IOPoll, EditOpen, EditScan, EditAdd, EditWrite, EditClear, EditLeave,
                    Goto, outputs, AsksFor
<1>6. CASE SprRing
  BY <1>2, <1>6 DEF SprRing, AsksFor
<1>7. CASE SprYield \/ RingScan \/ RingRelease \/ NotifyCheck \/ Notify
  BY <1>1, <1>7 DEF SprYield, RingScan, RingRelease, NotifyCheck, Notify, Goto, outputs, AsksFor
<1>8. CASE RingCheck
  BY <1>1, <1>8 DEF RingCheck, RingHead, AsksFor
<1>9. CASE WaterScan
  <2>1. CASE ScanHolds
    BY <1>1, <1>9, <2>1 DEF WaterScan, AsksFor
  <2>2. CASE ~ScanHolds
    BY <1>2, <1>9, <2>2 DEF WaterScan, WaterIteration, AsksFor
  <2> QED BY <2>1, <2>2
<1>10. CASE WaterRelease
  BY <1>2, <1>10 DEF WaterRelease, WaterIteration, AsksFor
<1>11. CASE PauseScan
  <2>1. CASE ScanHolds
    BY <1>1, <1>11, <2>1 DEF PauseScan, AsksFor
  <2>2. CASE ~ScanHolds
    BY <1>2, <1>11, <2>2 DEF PauseScan, PauseIteration, AsksFor
  <2> QED BY <2>1, <2>2
<1>12. CASE PauseRelease
  BY <1>2, <1>12 DEF PauseRelease, PauseIteration, AsksFor
<1>13. CASE RingEnd
  BY <1>2, <1>13 DEF RingEnd, AsksFor
<1> QED BY <1>3, <1>4, <1>5, <1>6, <1>7, <1>8, <1>9, <1>10, <1>11, <1>12, <1>13
        DEF Program, SprinklersThread

(* A step that leaves the library alone leaves its invariant alone.        *)
LEMMA QuietLibrary ==
  ASSUME SysInv, UNCHANGED library
  PROVE  S!FixedInv' /\ halted' = 0 /\ explicateAllocationMode' = FALSE /\ asked' = asked
<1>1. UNCHANGED S!servoVars
  BY NoCallStep
<1>2. S!FixedInv'
  BY <1>1, Hardware, Servos, Fixed, S!FixedStep DEF SysInv
<1> QED BY <1>2 DEF SysInv, library

(* So does a step of the sketch, which finds no call left to make.         *)
LEMMA SketchStep == SysInv /\ Step => SysInv'
<1> SUFFICES ASSUME SysInv, Step PROVE SysInv'
  OBVIOUS
<1>1. /\ calls = <<>> /\ BuzzTold /\ RelayTold
      /\ calls' = CallsOf(pc, pc') /\ AsksFor
      /\ UNCHANGED library
  BY ProgramAsks, HeadsAndTails DEF SysInv, Follows, Step, Run
<1>2. S!FixedInv' /\ halted' = 0 /\ explicateAllocationMode' = FALSE /\ asked' = asked
  BY <1>1, QuietLibrary
<1>3. buzzer' \in BOOLEAN /\ relay' \in BOOLEAN
  BY <1>1 DEF AsksFor, SysInv
<1>4. Follows'
  BY <1>1, <1>2 DEF AsksFor, Follows, BuzzTold, RelayTold
<1> QED BY <1>2, <1>3, <1>4 DEF SysInv

(* The invariant holds at power-up, is kept by every step, and so is       *)
(* always true.                                                            *)
LEMMA SysInvInit == SysInit => SysInv
<1> SUFFICES ASSUME SysInit PROVE SysInv
  OBVIOUS
<1>1. S!FixedInv
  BY SameInit, Hardware, Servos, S!FixedInit DEF SysInit
<1>2. calls = <<>> /\ buzzer = FALSE /\ relay = FALSE
  BY DEF SysInit, Init
<1>3. halted = 0 /\ explicateAllocationMode = FALSE /\ asked = [p \in {Buzz, Relay} |-> S!Low]
  <2>1. S!Init
    BY SameInit DEF SysInit, S!ServoInit
  <2> QED BY <2>1 DEF S!Init, S!Pin
<1> QED BY <1>1, <1>2, <1>3 DEF SysInv, Follows, BuzzTold, RelayTold

LEMMA SysInvStep == SysInv /\ [SysNext]_sysVars => SysInv'
<1> SUFFICES ASSUME SysInv, [SysNext]_sysVars PROVE SysInv'
  OBVIOUS
<1>1. CASE Step
  BY <1>1, SketchStep
<1>2. CASE LibraryCall
  BY <1>2, LibraryStep
<1>3. ASSUME UNCHANGED <<calls, library, buzzer, relay>> PROVE SysInv'
  BY <1>3, QuietLibrary DEF SysInv, Follows, BuzzTold, RelayTold
<1>4. CASE World
  BY <1>3, <1>4 DEF World, Outside, Tick, RtcMinute, Press, Release, program, outputs
<1>5. CASE SysReset
  <2>1. S!FixedInv'
    BY <1>5, ResetStep, Hardware, Servos, Fixed, S!FixedStep DEF SysInv
  <2>2. calls' = <<>> /\ buzzer' = FALSE /\ relay' = FALSE
    BY <1>5 DEF SysReset, Reset
  <2>3. /\ halted' = 0 /\ explicateAllocationMode' = FALSE
        /\ asked' = [p \in {Buzz, Relay} |-> S!Low]
    <3>1. S!Restart
      BY <1>5, SameRestart DEF SysReset
    <3> QED BY <3>1 DEF S!Restart, S!Pin
  <2> QED BY <2>1, <2>2, <2>3 DEF SysInv, Follows, BuzzTold, RelayTold
<1>6. CASE UNCHANGED sysVars
  BY <1>3, <1>6 DEF sysVars, vars, program, outputs
<1> QED BY <1>1, <1>2, <1>4, <1>5, <1>6 DEF SysNext

LEMMA SysInvCorrect == SysSpec => []SysInv
BY SysInvInit, SysInvStep, PTL DEF SysSpec

-----------------------------------------------------------------------------
(* The theorems.                                                           *)

(* The invariant gives the property: the library honours what it was told, *)
(* and was told what the variables say.                                    *)
LEMMA FollowsNow == SysInv => OutputsFollow
<1> SUFFICES ASSUME SysInv PROVE OutputsFollow
  OBVIOUS
<1>1. S!PinsHonoured
  BY Hardware, Servos, S!PinsNow DEF SysInv
<1>2. \A p : Pwm!ChannelsOf(p) = S!ChannelsOf(p)
  BY DEF Pwm!ChannelsOf, S!ChannelsOf, Pwm!UsedChannel, S!UsedChannel, Pwm!Channel, S!Channel,
         Pwm!Timer, S!Timer, Pwm!Slot, S!Slot, Pwm!NoObject, S!NoObject
<1>3. {Buzz, Relay} = {Buzz} \cup {Relay}
  OBVIOUS
<1> SUFFICES ASSUME calls = <<>>
             PROVE  /\ Heard <=> buzzer
                    /\ Driven <=> relay
                    /\ Pwm!Attached(Buzz) <=> buzzer
                    /\ Pwm!Attached(Relay) <=> relay
  BY DEF SysInv, OutputsFollow
<1>4. BuzzTold /\ RelayTold
  BY HeadsAndTails DEF SysInv, Follows
<1>5. (Heard <=> buzzer) /\ (Pwm!Attached(Buzz) <=> buzzer)
  <2>1. CASE buzzer
    <3>1. asked[Buzz] = S!Sound(BuzzFreq)
      BY <1>4, <2>1 DEF BuzzTold
    <3>2. asked[Buzz].kind = "tone" /\ asked[Buzz].freq = BuzzFreq
          /\ asked[Buzz] \notin {S!Low, S!High}
      BY <3>1 DEF S!Sound, S!Low, S!High
    <3>3. PICK c \in S!ChannelsOf(Buzz) : S!Sounds(c, BuzzFreq)
      BY <1>1, <1>3, <3>2 DEF S!PinsHonoured
    <3>4. Pwm!Sounds(c, BuzzFreq)
      BY <3>3 DEF S!Sounds, Pwm!Sounds, S!PutsOut, Pwm!PutsOut, S!Alone, Pwm!Alone,
             S!Use, Pwm!Use, S!Pin, Pwm!Pin, S!LedcOf, Pwm!LedcOf, S!Half,
             Pwm!Half, S!ToneBits, Pwm!ToneBits, S!WriteBits, Pwm!WriteBits,
             S!WriteFreq, Pwm!WriteFreq
    <3> QED BY <1>2, <2>1, <3>3, <3>4 DEF Heard, Pwm!Attached
  <2>2. CASE ~buzzer
    <3>1. asked[Buzz] = S!Low
      BY <1>4, <2>2 DEF BuzzTold
    <3>2. asked[Buzz] \in {S!Low, S!High} /\ asked[Buzz].kind = "low"
      BY <3>1 DEF S!Low
    <3>3. ~S!Attached(Buzz)
      BY <1>1, <1>3, <3>2 DEF S!PinsHonoured
    <3> QED BY <1>2, <2>2, <3>3 DEF Heard, Pwm!Attached, S!Attached
  <2> QED BY <2>1, <2>2 DEF SysInv
<1>6. (Driven <=> relay) /\ (Pwm!Attached(Relay) <=> relay)
  <2>1. CASE relay
    <3>1. asked[Relay] = S!Wave(RelayDrive)
      BY <1>4, <2>1 DEF RelayTold
    <3>2. asked[Relay].kind = "wave" /\ asked[Relay].level = RelayDrive
          /\ asked[Relay] \notin {S!Low, S!High}
      BY <3>1 DEF S!Wave, S!Low, S!High
    <3>3. PICK c \in S!ChannelsOf(Relay) : S!Waves(c, RelayDrive)
      BY <1>1, <1>3, <3>2 DEF S!PinsHonoured
    <3>4. Pwm!Waves(c, RelayDrive)
      BY <3>3 DEF S!Waves, Pwm!Waves, S!PutsOut, Pwm!PutsOut, S!Alone, Pwm!Alone,
             S!Use, Pwm!Use, S!Pin, Pwm!Pin, S!LedcOf, Pwm!LedcOf, S!ToneBits,
             Pwm!ToneBits, S!WriteBits, Pwm!WriteBits, S!WriteFreq,
             Pwm!WriteFreq
    <3> QED BY <1>2, <2>1, <3>3, <3>4 DEF Driven, Pwm!Attached
  <2>2. CASE ~relay
    <3>1. asked[Relay] = S!Low
      BY <1>4, <2>2 DEF RelayTold
    <3>2. asked[Relay] \in {S!Low, S!High} /\ asked[Relay].kind = "low"
      BY <3>1 DEF S!Low
    <3>3. ~S!Attached(Relay)
      BY <1>1, <1>3, <3>2 DEF S!PinsHonoured
    <3> QED BY <1>2, <2>2, <3>3 DEF Driven, Pwm!Attached, S!Attached
  <2> QED BY <2>1, <2>2 DEF SysInv
<1> QED BY <1>5, <1>6

(* On any number of timers and channels, the buzzer sounds exactly in a    *)
(* ring and the relay is driven exactly in its turns, and the library      *)
(* never halts the program: what the sketch's variables say of its pins    *)
(* comes through the library's tables.                                     *)
THEOREM OutputsCorrect == SysSpec => []OutputsFollow
BY FollowsNow, SysInvCorrect, PTL

(* The sketch with the library runs as the sketch alone: waiting for the   *)
(* calls to return adds no behaviour, so what AlarmClockProofs shows of it *)
(* holds of the system.                                                    *)
THEOREM SystemIsSketch == SysSpec => Spec
<1>1. SysInit => Init
  BY DEF SysInit
<1>2. [SysNext]_sysVars => [Next]_vars
  <2>1. Step => Next
    BY DEF Step, Run, Next
  <2>2. LibraryCall => UNCHANGED vars
    BY DEF LibraryCall
  <2>3. World => Next
    BY DEF World, Outside, Next, Environment
  <2>4. SysReset => Next
    BY DEF SysReset, Next, Environment
  <2>5. UNCHANGED sysVars => UNCHANGED vars
    BY DEF sysVars
  <2> QED BY <2>1, <2>2, <2>3, <2>4, <2>5 DEF SysNext
<1> QED BY <1>1, <1>2, PTL DEF SysSpec, Spec

(* Between the calls, the pump is driven only in a ring that has sounded   *)
(* for WaterAfter, and outside a ring no pin puts anything out.            *)
THEOREM PinsSafe ==
  SysSpec => [](calls = <<>> => /\ Driven => Ringing /\ rung >= WaterAfter
                                /\ ~Ringing => ~Heard /\ ~Driven)
<1>1. OutputsFollow /\ WaterAfterGrace /\ QuietOutsideRing =>
        (calls = <<>> => /\ Driven => Ringing /\ rung >= WaterAfter
                         /\ ~Ringing => ~Heard /\ ~Driven)
  BY DEF OutputsFollow, WaterAfterGrace, QuietOutsideRing
<1> QED BY <1>1, OutputsCorrect, SystemIsSketch, WaterCorrect, QuietCorrect, PTL

=============================================================================

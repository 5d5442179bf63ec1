----------------------------- MODULE PwmTimers ------------------------------
(***************************************************************************)
(* The PWM channels behind tone(), noTone(), analogWrite() and Servo:      *)
(* ESP32PWM of the servo library, which shares few hardware timers among   *)
(* many pins.  Module Servo adds the calls of the class Servo.             *)
(*                                                                         *)
(* A timer serves a handful of channels and gives all of them one          *)
(* frequency.  The library keeps its books in static tables that every     *)
(* call reads and writes; the sketch starts and stops the relay's channel  *)
(* several hundred times in each ring while the buzzer holds another.      *)
(***************************************************************************)
EXTENDS Integers, FiniteSets, FiniteSetsExt

CONSTANTS
  NumTimers,      \* 4
  SlotsPerTimer,  \* channels the library gives to a timer: 4
  SlotsPerGroup,  \* of these, the ones that share one hardware timer: 2
  TonePin,        \* the pins used with tone(), all able of PWM
  WritePin,       \* the pins used with analogWrite(), able of PWM, not the DACs
  ServoPin,       \* the pins of Servo objects
  ToneFreq,       \* the frequencies each tone pin is used with
  ServoUse,       \* the frequencies and resolutions each Servo is used with
  Level           \* the values between 0 and 255 written with analogWrite(),
                  \* which also stand for the pulses of a Servo

Timer == 0 .. NumTimers - 1
Slot == 0 .. SlotsPerTimer - 1
Pin == TonePin \cup WritePin \cup ServoPin

ASSUME HardwareAssumption ==
  /\ NumTimers \in Nat \ {0} /\ SlotsPerTimer \in Nat \ {0} /\ SlotsPerGroup \in Nat \ {0}
  /\ TonePin \cap WritePin = {} /\ (TonePin \cup WritePin) \cap ServoPin = {}
  /\ IsFiniteSet(Pin)
  /\ ToneFreq \in [TonePin -> SUBSET (Nat \ {0})]
  /\ ServoUse \in [ServoPin -> SUBSET [freq : Nat \ {0}, bits : 16 .. 20]]
  /\ Level \subseteq 1 .. 254

WriteFreq == 1000
ToneBits == 10
WriteBits == 8

\* The frequencies and resolutions a pin may be used with.
Use(p) ==
  CASE p \in TonePin -> [freq : ToneFreq[p], bits : {ToneBits}]
    [] p \in WritePin -> [freq : {WriteFreq}, bits : {WriteBits}]
    [] OTHER -> ServoUse[p]

Freq == (UNION {{u.freq : u \in Use(p)} : p \in Pin}) \cup {WriteFreq}
Bits == {ToneBits, WriteBits} \cup 16 .. 20

\* timerAndIndexToChannel: a channel is a timer and an index within it.
Channel == Timer \X Slot

\* The hardware timer of a channel is found from its timer and its group.
LedcTimer == Timer \X (0 .. (SlotsPerTimer - 1) \div SlotsPerGroup)
LedcOf(c) == <<c[1], c[2] \div SlotsPerGroup>>

\* An ESP32PWM object on a channel.  Half stands for 1 << (resolutionBits - 1),
\* and Stale for what the channel's last user left.
Half == 0
Stale == -1
Object == [pin : Pin, myFreq : Freq, bits : Bits, duty : Level \cup {Half, Stale}]
NoObject == [pin |-> "none"]

\* What a pin was last told to do; for a Servo's pin, by the class Servo.
Low == [kind |-> "low"]
High == [kind |-> "high"]
Sound(f) == [kind |-> "tone", freq |-> f]
Wave(v) == [kind |-> "wave", level |-> v]
Attach(u) == [kind |-> "attach", use |-> u]
Pulse(u, v) == [kind |-> "pulse", use |-> u, level |-> v]

VARIABLES
  ChannelUsed,   \* the object on each channel
  timerFreqSet,  \* the frequency of each timer, -1 when it has none
  timerCount,    \* the channels each timer has given away
  PWMCount,      \* the channels in use, -1 before the first object
  explicateAllocationMode,
  ledc,          \* the hardware timers: frequency and resolution
  halted,        \* the frequency for which no channel was left, or 0
  asked          \* history: what each pin was last told to do

books == <<ChannelUsed, timerFreqSet, timerCount, PWMCount, explicateAllocationMode>>
vars == <<books, ledc, halted, asked>>

Used(t) == {s \in Slot : ChannelUsed[<<t, s>>] # NoObject}
UsedChannel == {c \in Channel : ChannelUsed[c] # NoObject}

Init ==
  /\ ChannelUsed = [c \in Channel |-> NoObject]
  /\ timerFreqSet = [t \in Timer |-> -1]
  /\ timerCount = [t \in Timer |-> 0]
  /\ PWMCount = -1
  /\ explicateAllocationMode = FALSE
  /\ ledc = [l \in LedcTimer |-> [freq |-> 0, bits |-> 0]]
  /\ halted = 0
  /\ asked = [p \in Pin |-> Low]

-----------------------------------------------------------------------------
(* Allocation.                                                             *)

\* allocateTimer(t), as the setup() of the examples calls it: before any
\* channel is in use.  The first call closes all timers but the one named.
AllocateTimer(t) ==
  /\ UsedChannel = {}
  /\ timerCount' = [u \in Timer |->
       CASE u = t -> 0
         [] u # t /\ explicateAllocationMode -> timerCount[u]
         [] OTHER -> SlotsPerTimer]
  /\ explicateAllocationMode' = TRUE
  /\ UNCHANGED <<ChannelUsed, timerFreqSet, PWMCount, ledc, halted, asked>>

\* The channels of a pin: pwmFactory finds the object on one of them.
ChannelsOf(p) == {c \in UsedChannel : ChannelUsed[c].pin = p}
Attached(p) == ChannelsOf(p) # {}
ChannelOf(p) == CHOOSE c \in ChannelsOf(p) : TRUE

\* Slip: a timer is taken for full one channel too early.
FitsBarely(f) ==
  {t \in Timer : /\ timerFreqSet[t] \in {f, -1}
                 /\ timerCount[t] < SlotsPerTimer - 1
                 /\ Used(t) # Slot}

\* Slip: a timer with a free channel is taken at whatever frequency it runs.
FitsAnyFreq(f) == {t \in Timer : timerCount[t] < SlotsPerTimer /\ Used(t) # Slot}

\* The timers allocatenext(f) may take.
Fits(f) ==
  {t \in Timer : /\ timerFreqSet[t] \in {f, -1}
                 /\ timerCount[t] < SlotsPerTimer
                 /\ Used(t) # Slot}

Halt(f) == halted' = f /\ UNCHANGED <<books, ledc, asked>>

\* A new object: attachPin -> setup -> checkFrequencyForSideEffects ->
\* allocatenext, which takes the first channel of the first timer that fits;
\* then setup gives the hardware timer frequency and resolution.
Allocate(p, f, bits, duty) ==
  LET t == Min(Fits(f))
      c == <<t, Min(Slot \ Used(t))>>
  IN  /\ timerFreqSet' = [timerFreqSet EXCEPT ![t] = f]
      /\ timerCount' = [timerCount EXCEPT ![t] = @ + 1]
      /\ PWMCount' = (IF PWMCount = -1 THEN 0 ELSE PWMCount) + 1
      /\ ChannelUsed' = [d \in Channel |->
           IF d = c
             THEN [pin |-> p, myFreq |-> f, bits |-> bits, duty |-> duty]
             ELSE IF d \in UsedChannel /\ d[1] = t /\ d[2] < timerCount'[t]
                    THEN [ChannelUsed[d] EXCEPT !.myFreq = f]
                    ELSE ChannelUsed[d]]
      /\ ledc' = [ledc EXCEPT ![LedcOf(c)] = [freq |-> f, bits |-> bits]]
      /\ UNCHANGED <<explicateAllocationMode, halted>>

\* Slip: the channel goes, and its timer still counts it.
ReleaseUncounted(c) ==
  /\ ChannelUsed' = [ChannelUsed EXCEPT ![c] = NoObject]
  /\ PWMCount' = PWMCount - 1
  /\ UNCHANGED <<timerFreqSet, timerCount, explicateAllocationMode, ledc, halted>>

\* Slip: the timer keeps its frequency when its last channel goes.
ReleaseKeepingFreq(c) ==
  /\ timerCount' = [timerCount EXCEPT ![c[1]] = @ - 1]
  /\ ChannelUsed' = [ChannelUsed EXCEPT ![c] = NoObject]
  /\ PWMCount' = PWMCount - 1
  /\ UNCHANGED <<timerFreqSet, explicateAllocationMode, ledc, halted>>

\* detachPin -> deallocate, and the object is deleted.
Deallocate(c) ==
  /\ timerCount' = [timerCount EXCEPT ![c[1]] = @ - 1]
  /\ timerFreqSet' = IF timerCount'[c[1]] = 0
                       THEN [timerFreqSet EXCEPT ![c[1]] = -1] ELSE timerFreqSet
  /\ ChannelUsed' = [ChannelUsed EXCEPT ![c] = NoObject]
  /\ PWMCount' = PWMCount - 1
  /\ UNCHANGED <<explicateAllocationMode, ledc, halted>>

-----------------------------------------------------------------------------
(* The calls.                                                              *)

Asks(p, what) == asked' = [asked EXCEPT ![p] = what]

\* tone() on a pin without a channel.  writeTone then finds the new channel
\* among the first timerCount ones, all of them at f, and sets its duty.
ToneStart(p, f) ==
  /\ ~Attached(p)
  /\ IF Fits(f) = {}
       THEN Halt(f)
       ELSE Allocate(p, f, ToneBits, Half) /\ Asks(p, Sound(f))

\* tone() on a pin that sounds: writeTone looks at as many of the timer's
\* channels as are in use, and retunes those it finds.
ToneChange(p, f) ==
  /\ Attached(p)
  /\ LET c == ChannelOf(p)
         t == c[1]
         found == {s \in Used(t) : s < timerCount[t]}
         retuned == {<<t, s>> : s \in {r \in found : ChannelUsed[<<t, r>>].myFreq # f}}
         Last(l) == <<t, Max({d[2] : d \in {e \in retuned : LedcOf(e) = l}})>>
     IN  /\ timerFreqSet' = IF retuned # {} THEN [timerFreqSet EXCEPT ![t] = f] ELSE timerFreqSet
         /\ ChannelUsed' = [d \in Channel |->
              IF d \in UsedChannel
                THEN [ChannelUsed[d] EXCEPT
                        !.myFreq = IF d \in retuned THEN f ELSE @,
                        !.duty = IF d = c /\ found # {} THEN Half ELSE @]
                ELSE NoObject]
         /\ ledc' = [l \in LedcTimer |->
              IF \E d \in retuned : LedcOf(d) = l
                THEN [freq |-> f, bits |-> ChannelUsed[Last(l)].bits] ELSE ledc[l]]
  /\ Asks(p, Sound(f))
  /\ UNCHANGED <<timerCount, PWMCount, explicateAllocationMode, halted>>

\* Slip: a pin that has no channel is deallocated too.
NoToneTwice(p) ==
  /\ IF Attached(p) THEN Deallocate(ChannelOf(p))
                    ELSE PWMCount' = PWMCount - 1 /\ UNCHANGED <<ChannelUsed, timerFreqSet,
                            timerCount, explicateAllocationMode, ledc, halted>>
  /\ Asks(p, Low)

NoTone(p) ==
  /\ IF Attached(p) THEN Deallocate(ChannelOf(p)) ELSE UNCHANGED <<books, ledc, halted>>
  /\ Asks(p, Low)

\* analogWrite() of 0 and of 255 or more: the pin is driven without PWM.
WriteDigital(p, level) ==
  /\ IF Attached(p) THEN Deallocate(ChannelOf(p)) ELSE UNCHANGED <<books, ledc, halted>>
  /\ Asks(p, level)

\* analogWrite() in between, on a new channel or on the one the pin has.
WriteWave(p, v) ==
  IF Attached(p)
    THEN /\ ChannelUsed' = [ChannelUsed EXCEPT ![ChannelOf(p)].duty = v]
         /\ Asks(p, Wave(v))
         /\ UNCHANGED <<timerFreqSet, timerCount, PWMCount, explicateAllocationMode, ledc, halted>>
    ELSE IF Fits(WriteFreq) = {}
           THEN Halt(WriteFreq)
           ELSE Allocate(p, WriteFreq, WriteBits, v) /\ Asks(p, Wave(v))

Tone(p, f) == ToneStart(p, f) \/ ToneChange(p, f)

AnalogWrite(p) ==
  \/ WriteDigital(p, Low)
  \/ WriteDigital(p, High)
  \/ \E v \in Level : WriteWave(p, v)

\* A reset of the microcontroller empties the tables and lets the pins go.
Restart ==
  /\ ChannelUsed' = [c \in Channel |-> NoObject]
  /\ timerFreqSet' = [t \in Timer |-> -1]
  /\ timerCount' = [t \in Timer |-> 0]
  /\ PWMCount' = -1
  /\ explicateAllocationMode' = FALSE
  /\ ledc' = [l \in LedcTimer |-> [freq |-> 0, bits |-> 0]]
  /\ halted' = 0
  /\ asked' = [p \in Pin |-> Low]

\* After the message of allocatenext the processor spins for ever.
Halted == halted # 0 /\ UNCHANGED vars

Call ==
  \/ \E t \in Timer : AllocateTimer(t)
  \/ \E p \in TonePin : NoTone(p) \/ \E f \in ToneFreq[p] : Tone(p, f)
  \/ \E p \in WritePin : AnalogWrite(p)

Next == (halted = 0 /\ Call) \/ Halted \/ Restart

Spec == Init /\ [][Next]_vars

-----------------------------------------------------------------------------
(* Properties.                                                             *)

TypeOK ==
  /\ ChannelUsed \in [Channel -> Object \cup {NoObject}]
  /\ timerFreqSet \in [Timer -> Freq \cup {-1}]
  /\ timerCount \in [Timer -> 0 .. SlotsPerTimer]
  /\ PWMCount \in -1 .. NumTimers * SlotsPerTimer
  /\ explicateAllocationMode \in BOOLEAN
  /\ ledc \in [LedcTimer -> [freq : Freq \cup {0}, bits : Bits \cup {0}]]
  /\ halted \in Freq \cup {0}
  /\ asked \in [Pin -> {Low, High} \cup {Sound(f) : f \in Freq} \cup {Wave(v) : v \in Level}
                  \cup {Attach(u) : u \in [freq : Freq, bits : 16 .. 20]}
                  \cup {Pulse(u, v) : u \in [freq : Freq, bits : 16 .. 20], v \in Level}]

Closed(t) == explicateAllocationMode /\ Used(t) = {} /\ timerCount[t] = SlotsPerTimer

(* The static tables agree: a timer's count is the number of its channels  *)
(* in use, unless it was closed by allocateTimer; it has a frequency as    *)
(* long as it has a channel; no pin has two objects, of which pwmFactory   *)
(* would find the same one for ever.  allocatenext and deallocate keep     *)
(* them apart from each other, hundreds of times in a ring.                *)
Books ==
  /\ \A t \in Timer : timerCount[t] = Cardinality(Used(t)) \/ Closed(t)
  /\ \A t \in Timer : timerFreqSet[t] = -1 <=> Used(t) = {}
  /\ \A p \in Pin : Cardinality(ChannelsOf(p)) <= 1
  /\ PWMCount = Cardinality(UsedChannel) \/ (PWMCount = -1 /\ UsedChannel = {})

(* The processor is halted for want of a channel only when there is none:  *)
(* each timer is closed, has no slot left, or serves another frequency.    *)
HaltsOnlyWhenFull ==
  halted # 0 =>
    \A t \in Timer :
      \/ Closed(t)
      \/ Used(t) = Slot
      \/ \E s \in Used(t) : ChannelUsed[<<t, s>>].myFreq # halted

\* No other pin is used with frequency f at another resolution.
Alone(p, f, bits) ==
  \A q \in Pin \ {p} : \A u \in Use(q) : u.freq = f => u.bits = bits

\* What the hardware puts out on channel c: the frequency is right, and the
\* resolution, which gives the duty its meaning, where pins do not clash.
PutsOut(c, f, bits) ==
  /\ ledc[LedcOf(c)].freq = f
  /\ Alone(ChannelUsed[c].pin, f, bits) => ledc[LedcOf(c)].bits = bits
Sounds(c, f) == PutsOut(c, f, ToneBits) /\ ChannelUsed[c].duty = Half
Waves(c, v) == PutsOut(c, WriteFreq, WriteBits) /\ ChannelUsed[c].duty = v

\* The pins of tone() and analogWrite() put out what they were last told.
PinsHonoured ==
  \A p \in TonePin \cup WritePin :
    LET what == asked[p]
    IN  /\ what \in {Low, High} => ~Attached(p)
        /\ what.kind = "tone" => \E c \in ChannelsOf(p) : Sounds(c, what.freq)
        /\ what.kind = "wave" => \E c \in ChannelsOf(p) : Waves(c, what.level)

(* ESP32Tone.cpp:20, "update the time base of the PWM": a call of tone()   *)
(* leaves the pin at the frequency it asked for.                           *)
ToneHeard ==
  [][\A p \in TonePin : \A f \in ToneFreq[p] :
       asked' # asked /\ asked'[p] = Sound(f) /\ asked[p] # Sound(f) =>
         \E c \in ChannelsOf(p)' : ledc'[LedcOf(c)].freq = f]_vars

=============================================================================

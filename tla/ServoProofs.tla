---------------------------- MODULE ServoProofs ----------------------------
(***************************************************************************)
(* Proofs about Servo and PwmTimers, for any numbers of timers, channels   *)
(* and pins: the library's tables agree with each other, and, with tones   *)
(* that do not change, every pin puts out what it was told and the         *)
(* processor is halted only for want of a channel.                         *)
(***************************************************************************)
EXTENDS Servo, FiniteSetTheorems, WellFoundedInduction, TLAPS

-----------------------------------------------------------------------------
(* Numbers.                                                                *)

(* A set of numbers has a least one, which is what Min chooses.            *)
LEMMA LeastOf ==
  ASSUME NEW S, S \subseteq Nat, S # {}
  PROVE  Min(S) \in S /\ \A y \in S : Min(S) <= y
<1> DEFINE R == {ss \in Nat \X Nat : ss[1] < ss[2]}
<1>1. IsWellFoundedOn(R, Nat)
  BY NatLessThanWellFounded, Zenon DEF OpToRel
<1>2. \E x \in S : \A y \in S : ~(<<y, x>> \in R)
  <2> HIDE DEF R
  <2> QED BY <1>1, WFMin
<1>3. PICK x \in S : \A y \in S : ~(<<y, x>> \in R)
  BY <1>2
<1>4. ASSUME NEW y \in S PROVE x <= y
  <2>1. x \in Nat /\ y \in Nat /\ <<y, x>> \notin R
    BY <1>3
  <2> QED BY <2>1
<1> QED BY <1>4 DEF Min

(* And one below a bound has a greatest.                                   *)
LEMMA GreatestOf ==
  ASSUME NEW n \in Nat, NEW S, S \subseteq 0 .. n, S # {}
  PROVE  Max(S) \in S
<1> DEFINE T == {n - x : x \in S}
<1>1. T \subseteq Nat /\ T # {}
  <2>1. \A x \in S : x \in Nat /\ n - x \in Nat
    OBVIOUS
  <2> QED BY <2>1
<1>2. Min(T) \in T /\ \A y \in T : Min(T) <= y
  <2> HIDE DEF T
  <2> QED BY <1>1, LeastOf
<1>3. PICK x \in S : Min(T) = n - x
  BY <1>2
<1>4. \A y \in S : x >= y
  BY <1>2, <1>3
<1> QED BY <1>4 DEF Max

(* Of two numbers, the smaller has the smaller quotient.                   *)
LEMMA Quotients ==
  ASSUME NEW g \in Nat, NEW q \in Nat, NEW r \in Nat, NEW x \in 0 .. g - 1, NEW y \in 0 .. g - 1,
         q * g + x <= r * g + y
  PROVE  q <= r
<1>1. ASSUME NEW k \in Nat PROVE (r + 1 + k) * g = r * g + g + k * g /\ k * g \in Nat /\ r * g \in Nat
  OBVIOUS
<1>2. ASSUME NEW k \in Nat, q = r + 1 + k PROVE FALSE
  <2>1. q * g = r * g + g + k * g /\ k * g \in Nat /\ r * g \in Nat
    BY <1>1, <1>2
  <2> QED BY <2>1
<1>3. ASSUME q > r PROVE FALSE
  <2>1. q - r - 1 \in Nat /\ q = r + 1 + (q - r - 1)
    BY <1>3
  <2> QED BY <2>1, <1>2
<1> QED BY <1>3

(* Every channel has its hardware timer.                                   *)
LEMMA LedcType ==
  ASSUME NEW c \in Channel
  PROVE  LedcOf(c) \in LedcTimer
<1> USE HardwareAssumption
<1>1. c[1] \in Timer /\ c[2] \in 0 .. SlotsPerTimer - 1
  BY DEF Channel, Slot
<1>2. ASSUME NEW a \in Nat, NEW b \in Nat, a <= b, NEW g \in Nat \ {0}
      PROVE  a \div g \in 0 .. b \div g
  <2>1. /\ a = (a \div g) * g + (a % g) /\ a % g \in 0 .. g - 1
        /\ b = (b \div g) * g + (b % g) /\ b % g \in 0 .. g - 1
    OBVIOUS
  <2>2. a \div g \in Nat /\ b \div g \in Nat
    OBVIOUS
  <2>3. a \div g <= b \div g
    BY <1>2, <2>1, <2>2, Quotients
  <2> QED BY <2>2, <2>3
<1> QED BY <1>1, <1>2 DEF LedcOf, LedcTimer

-----------------------------------------------------------------------------
(* The invariant.                                                          *)

\* What a Servo keeps, and its pin while it is between two channels.
ServoType ==
  /\ servo \in [ServoPin -> [freq : Nat \ {0}, bits : 16 .. 20]]
  /\ \A p \in ServoPin : servo[p] \in ServoUse[p]
  /\ reattach \in ServoPin \cup {None}

\* The four parts of Books.
Counted == \A t \in Timer : timerCount[t] = Cardinality(Used(t)) \/ Closed(t)
Tuned == \A t \in Timer : timerFreqSet[t] = -1 <=> Used(t) = {}
OneEach ==
  \A c, d \in UsedChannel : ChannelUsed[c].pin = ChannelUsed[d].pin => c = d
Total == PWMCount = Cardinality(UsedChannel) \/ (PWMCount = -1 /\ UsedChannel = {})

Tables == Counted /\ Tuned /\ OneEach /\ Total

-----------------------------------------------------------------------------
(* Uses and channels.                                                      *)

(* The two kinds of records in a table are told apart by their fields.     *)
LEMMA Objects == \A o \in Object : o # NoObject
BY DEF Object, NoObject

(* A pin is used with frequencies and resolutions of the model's types.    *)
LEMMA UseType ==
  ASSUME NEW p \in Pin, NEW u \in Use(p)
  PROVE  /\ u = [freq |-> u.freq, bits |-> u.bits]
         /\ u.freq \in Freq /\ u.freq \in Nat \ {0}
         /\ u.bits \in Bits
<1>1. u.freq \in Freq
  BY DEF Freq
<1> USE HardwareAssumption DEF ToneBits, WriteBits, WriteFreq
<1>2. CASE p \in TonePin
  <2>1. u \in [freq : ToneFreq[p], bits : {10}] /\ ToneFreq[p] \in SUBSET (Nat \ {0})
    BY <1>2 DEF Use
  <2> QED BY <1>1, <2>1 DEF Bits
<1>3. CASE p \notin TonePin /\ p \in WritePin
  <2>1. u \in [freq : {1000}, bits : {8}]
    BY <1>3 DEF Use
  <2> QED BY <1>1, <2>1 DEF Bits
<1>4. CASE p \notin TonePin /\ p \notin WritePin
  <2>1. p \in ServoPin /\ Use(p) = ServoUse[p]
    BY <1>4 DEF Use, Pin
  <2>2. u \in [freq : Nat \ {0}, bits : 16 .. 20]
    BY <2>1
  <2> QED BY <1>1, <2>2 DEF Bits
<1> QED BY <1>2, <1>3, <1>4

(* Every frequency of the model is a positive number.                      *)
LEMMA FreqType == Freq \subseteq Nat \ {0}
<1>1. ASSUME NEW p \in Pin, NEW u \in Use(p) PROVE u.freq \in Nat \ {0}
  BY UseType
<1>2. WriteFreq \in Nat \ {0}
  BY DEF WriteFreq
<1>3. ASSUME NEW f \in Freq PROVE f = WriteFreq \/ \E p \in Pin : \E u \in Use(p) : f = u.freq
  BY Zenon DEF Freq
<1> QED BY <1>1, <1>2, <1>3

(* The sets of slots and channels in use are finite.                       *)
LEMMA UsedFinite ==
  /\ IsFiniteSet(Slot) /\ Cardinality(Slot) = SlotsPerTimer
  /\ IsFiniteSet(Channel) /\ Cardinality(Channel) = NumTimers * SlotsPerTimer
  /\ \A t \in Timer : IsFiniteSet(Used(t)) /\ Used(t) \subseteq Slot
                       /\ Cardinality(Used(t)) \in 0 .. SlotsPerTimer
                       /\ (Cardinality(Used(t)) = SlotsPerTimer => Used(t) = Slot)
  /\ IsFiniteSet(UsedChannel) /\ Cardinality(UsedChannel) \in 0 .. NumTimers * SlotsPerTimer
<1> USE HardwareAssumption
<1>1. IsFiniteSet(Slot) /\ Cardinality(Slot) = SlotsPerTimer
  BY FS_Interval DEF Slot
<1>2. IsFiniteSet(Timer) /\ Cardinality(Timer) = NumTimers
  BY FS_Interval DEF Timer
<1>3. IsFiniteSet(Channel) /\ Cardinality(Channel) = NumTimers * SlotsPerTimer
  BY <1>1, <1>2, FS_Product, Zenon DEF Channel
<1>4. ASSUME NEW t \in Timer
      PROVE  /\ IsFiniteSet(Used(t)) /\ Used(t) \subseteq Slot
             /\ Cardinality(Used(t)) \in 0 .. SlotsPerTimer
             /\ (Cardinality(Used(t)) = SlotsPerTimer => Used(t) = Slot)
  <2>1. Used(t) \in SUBSET Slot
    BY DEF Used
  <2>2. IsFiniteSet(Used(t)) /\ Cardinality(Used(t)) <= SlotsPerTimer
        /\ (SlotsPerTimer = Cardinality(Used(t)) => Slot = Used(t))
    BY <1>1, <2>1, FS_Subset
  <2>3. Cardinality(Used(t)) \in Nat
    BY <2>2, FS_CardinalityType
  <2> QED BY <2>1, <2>2, <2>3
<1>5. IsFiniteSet(UsedChannel) /\ Cardinality(UsedChannel) \in 0 .. NumTimers * SlotsPerTimer
  <2>1. UsedChannel \in SUBSET Channel
    BY DEF UsedChannel
  <2>2. IsFiniteSet(UsedChannel) /\ Cardinality(UsedChannel) <= NumTimers * SlotsPerTimer
    BY <1>3, <2>1, FS_Subset
  <2>3. Cardinality(UsedChannel) \in Nat
    BY <2>2, FS_CardinalityType
  <2>4. NumTimers * SlotsPerTimer \in Nat
    OBVIOUS
  <2> QED BY <2>2, <2>3, <2>4
<1> QED BY <1>1, <1>3, <1>4, <1>5

(* What is in a channel in use.                                            *)
LEMMA UsedSo ==
  ASSUME TypeOK
  PROVE  /\ \A c \in UsedChannel : c \in Channel /\ ChannelUsed[c] \in Object
         /\ \A t \in Timer, s \in Slot : s \in Used(t) <=> <<t, s>> \in UsedChannel
         /\ \A c \in UsedChannel : c[1] \in Timer /\ c[2] \in Used(c[1]) /\ c = <<c[1], c[2]>>
         /\ \A c \in Channel : c \notin UsedChannel => ChannelUsed[c] = NoObject
<1>1. \A c \in UsedChannel : c \in Channel /\ ChannelUsed[c] \in Object
  BY DEF TypeOK, UsedChannel
<1>2. \A t \in Timer, s \in Slot : s \in Used(t) <=> <<t, s>> \in UsedChannel
  BY DEF Used, UsedChannel, Channel
<1>3. \A c \in Channel : c[1] \in Timer /\ c[2] \in Slot /\ c = <<c[1], c[2]>>
  BY DEF Channel
<1> QED BY <1>1, <1>2, <1>3 DEF UsedChannel

(* The one channel of a pin.                                               *)
LEMMA TheChannel ==
  ASSUME OneEach, NEW p \in Pin, Attached(p)
  PROVE  /\ ChannelOf(p) \in UsedChannel /\ ChannelUsed[ChannelOf(p)].pin = p
         /\ ChannelsOf(p) = {ChannelOf(p)}
<1>1. ChannelOf(p) \in ChannelsOf(p)
  BY DEF Attached, ChannelOf
<1> QED BY <1>1 DEF ChannelsOf, OneEach

-----------------------------------------------------------------------------
(* What the library's calls do to the tables.                              *)

TablesType ==
  /\ ChannelUsed \in [Channel -> Object \cup {NoObject}]
  /\ timerFreqSet \in [Timer -> Freq \cup {-1}]
  /\ timerCount \in [Timer -> 0 .. SlotsPerTimer]
  /\ explicateAllocationMode \in BOOLEAN
  /\ ledc \in [LedcTimer -> [freq : Freq \cup {0}, bits : Bits \cup {0}]]

(* The types of the tables alone.                                          *)
LEMMA TypeOfTables == TypeOK => TablesType
BY DEF TypeOK, TablesType

\* The timer and the slot that allocatenext takes.
TimerFor(f) == Min(Fits(f))
SlotFor(f) == Min(Slot \ Used(TimerFor(f)))
NewChannel(f) == <<TimerFor(f), SlotFor(f)>>

(* It takes a free slot of a timer that has none or the right frequency.   *)
LEMMA Taken ==
  ASSUME NEW f \in Freq, Fits(f) # {}
  PROVE  /\ TimerFor(f) \in Timer /\ timerFreqSet[TimerFor(f)] \in {f, -1}
         /\ timerCount[TimerFor(f)] < SlotsPerTimer
         /\ SlotFor(f) \in Slot /\ SlotFor(f) \notin Used(TimerFor(f))
         /\ NewChannel(f) \in Channel /\ NewChannel(f) \notin UsedChannel
<1> USE HardwareAssumption
<1>1. Fits(f) \subseteq Timer /\ Timer \subseteq Nat /\ Slot \subseteq Nat
  BY DEF Fits, Timer, Slot
<1>2. TimerFor(f) \in Fits(f)
  BY <1>1, LeastOf DEF TimerFor
<1>3. Slot \ Used(TimerFor(f)) # {}
  BY <1>2 DEF Fits, Used
<1>4. SlotFor(f) \in Slot \ Used(TimerFor(f))
  <2> DEFINE S == Slot \ Used(TimerFor(f))
  <2>1. S \subseteq Nat /\ S # {}
    BY <1>1, <1>3
  <2>2. Min(S) \in S
    <3> HIDE DEF S
    <3> QED BY <2>1, LeastOf
  <2> QED BY <2>2 DEF SlotFor
<1>5. /\ TimerFor(f) \in Timer /\ timerFreqSet[TimerFor(f)] \in {f, -1}
      /\ timerCount[TimerFor(f)] < SlotsPerTimer
  BY <1>2 DEF Fits
<1>6. NewChannel(f) \in Channel /\ NewChannel(f) \notin UsedChannel
  <2> DEFINE t == TimerFor(f)  s == SlotFor(f)
  <2>1. t \in Timer /\ s \in Slot /\ s \notin Used(t)
    BY <1>4, <1>5
  <2> HIDE DEF t, s
  <2>2. <<t, s>> \in Channel /\ <<t, s>> \notin UsedChannel
    BY <2>1 DEF Channel, Used, UsedChannel
  <2> QED BY <2>2 DEF t, s, NewChannel
<1> QED BY <1>4, <1>5, <1>6

\* The channels in use, and what is in them but for one field, stay.
SamePins ==
  /\ UsedChannel' = UsedChannel
  /\ \A c \in UsedChannel : ChannelUsed'[c].pin = ChannelUsed[c].pin

(* What an allocation leaves: one more channel in use, the others with their *)
(* pin, resolution and duty, and those it finds below the count at frequency f. *)
LEMMA AllocateSo ==
  ASSUME TypeOK, NEW p \in Pin, NEW u \in Use(p), NEW duty \in Level \cup {Half, Stale},
         Fits(u.freq) # {}, Allocate(p, u.freq, u.bits, duty)
  PROVE  LET t == TimerFor(u.freq)
             c == NewChannel(u.freq)
         IN  /\ ChannelUsed' \in [Channel -> Object \cup {NoObject}]
             /\ UsedChannel' = UsedChannel \cup {c}
             /\ \A v \in Timer : Used(v)' = IF v = t THEN Used(t) \cup {SlotFor(u.freq)} ELSE Used(v)
             /\ ChannelUsed'[c] = [pin |-> p, myFreq |-> u.freq, bits |-> u.bits, duty |-> duty]
             /\ \A d \in UsedChannel :
                  /\ ChannelUsed'[d].pin = ChannelUsed[d].pin
                  /\ ChannelUsed'[d].bits = ChannelUsed[d].bits
                  /\ ChannelUsed'[d].duty = ChannelUsed[d].duty
                  /\ ChannelUsed'[d].myFreq = IF d[1] = t /\ d[2] < timerCount[t] + 1
                                                THEN u.freq ELSE ChannelUsed[d].myFreq
<1> DEFINE f == u.freq  t == TimerFor(f)  s == SlotFor(f)  c == NewChannel(f)
           o == [pin |-> p, myFreq |-> f, bits |-> u.bits, duty |-> duty]
<1>1. f \in Freq /\ u.bits \in Bits /\ f \in Nat
  BY UseType
<1>2. /\ t \in Timer /\ s \in Slot /\ s \notin Used(t) /\ c \in Channel /\ c \notin UsedChannel
      /\ c = <<t, s>>
  BY <1>1, Taken DEF NewChannel
<1>3. o \in Object /\ o # NoObject
  <2>1. o \in Object
    BY <1>1 DEF Object
  <2> QED BY <2>1, Objects
<1>4. timerCount'[t] = timerCount[t] + 1
  BY <1>2 DEF TypeOK, Allocate, TimerFor
<1>5. ChannelUsed' = [d \in Channel |->
           IF d = c THEN o
             ELSE IF d \in UsedChannel /\ d[1] = t /\ d[2] < timerCount'[t]
                    THEN [ChannelUsed[d] EXCEPT !.myFreq = f]
                    ELSE ChannelUsed[d]]
  BY DEF Allocate, TimerFor, SlotFor, NewChannel
<1> HIDE DEF t, s, c, o, f
<1>6. \A d \in UsedChannel : d \in Channel /\ d # c /\ ChannelUsed[d] \in Object
  BY <1>2, UsedSo
<1>7. ASSUME NEW d \in UsedChannel
      PROVE  /\ ChannelUsed'[d] \in Object
             /\ ChannelUsed'[d].pin = ChannelUsed[d].pin
             /\ ChannelUsed'[d].bits = ChannelUsed[d].bits
             /\ ChannelUsed'[d].duty = ChannelUsed[d].duty
             /\ ChannelUsed'[d].myFreq = IF d[1] = t /\ d[2] < timerCount[t] + 1
                                           THEN f ELSE ChannelUsed[d].myFreq
  <2>1. ChannelUsed'[d] = IF d[1] = t /\ d[2] < timerCount[t] + 1
                            THEN [ChannelUsed[d] EXCEPT !.myFreq = f] ELSE ChannelUsed[d]
    BY <1>4, <1>5, <1>6
  <2>2. ChannelUsed[d] \in Object
    BY <1>6
  <2> QED BY <1>1, <2>1, <2>2 DEF Object, f
<1>8. ChannelUsed'[c] = o
  BY <1>2, <1>5
<1>9. ASSUME NEW d \in Channel, d # c, d \notin UsedChannel
      PROVE  ChannelUsed'[d] = NoObject
  BY <1>5, <1>9, UsedSo
<1>10. \A d \in Channel : ChannelUsed'[d] # NoObject <=> d \in UsedChannel \cup {c}
  BY <1>2, <1>3, <1>7, <1>8, <1>9, Objects
<1>11. UsedChannel' = UsedChannel \cup {c}
  BY <1>2, <1>6, <1>10 DEF UsedChannel
<1>12. ChannelUsed' \in [Channel -> Object \cup {NoObject}]
  <2>1. \A d \in Channel : ChannelUsed'[d] \in Object \cup {NoObject}
    BY <1>3, <1>7, <1>8, <1>9
  <2>2. ChannelUsed' = [d \in Channel |-> ChannelUsed'[d]]
    BY <1>5
  <2> QED BY <2>1, <2>2
<1>13. ASSUME NEW v \in Timer
       PROVE  Used(v)' = IF v = t THEN Used(t) \cup {s} ELSE Used(v)
  <2>1. \A r \in Slot : <<v, r>> \in Channel /\ (<<v, r>> = c <=> v = t /\ r = s)
    BY <1>2 DEF Channel
  <2>2. \A r \in Slot : ChannelUsed'[<<v, r>>] # NoObject <=> r \in Used(v) \/ (v = t /\ r = s)
    BY <1>10, <2>1, UsedSo
  <2>3. Used(v) \subseteq Slot /\ Used(v)' = {r \in Slot : ChannelUsed'[<<v, r>>] # NoObject}
    BY DEF Used
  <2> QED BY <1>2, <2>2, <2>3
<1> QED BY <1>7, <1>8, <1>11, <1>12, <1>13 DEF t, s, c, o, f

(* An allocation for a pin without a channel leaves the tables right.      *)
LEMMA AllocateKeeps ==
  ASSUME TypeOK, Tables, NEW p \in Pin, NEW u \in Use(p), NEW duty \in Level \cup {Half, Stale},
         ~Attached(p), Fits(u.freq) # {}, Allocate(p, u.freq, u.bits, duty)
  PROVE  TablesType' /\ Tables'
<1> DEFINE f == u.freq  t == TimerFor(f)  s == SlotFor(f)  c == NewChannel(f)
<1>1. f \in Freq /\ u.bits \in Bits /\ f \in Nat \ {0}
  BY UseType
<1>2. /\ t \in Timer /\ s \in Slot /\ s \notin Used(t) /\ c \in Channel /\ c \notin UsedChannel
      /\ timerCount[t] < SlotsPerTimer /\ timerCount[t] \in 0 .. SlotsPerTimer
  BY <1>1, Taken DEF TypeOK
<1>3. /\ timerFreqSet' = [timerFreqSet EXCEPT ![t] = f]
      /\ timerCount' = [timerCount EXCEPT ![t] = @ + 1]
      /\ PWMCount' = (IF PWMCount = -1 THEN 0 ELSE PWMCount) + 1
      /\ ledc' = [ledc EXCEPT ![LedcOf(c)] = [freq |-> f, bits |-> u.bits]]
      /\ explicateAllocationMode' = explicateAllocationMode
  BY DEF Allocate, TimerFor, SlotFor, NewChannel
<1>4. /\ ChannelUsed' \in [Channel -> Object \cup {NoObject}]
      /\ UsedChannel' = UsedChannel \cup {c}
      /\ \A v \in Timer : Used(v)' = IF v = t THEN Used(t) \cup {s} ELSE Used(v)
      /\ ChannelUsed'[c].pin = p
      /\ \A d \in UsedChannel : ChannelUsed'[d].pin = ChannelUsed[d].pin
  <2>1. /\ ChannelUsed' \in [Channel -> Object \cup {NoObject}]
        /\ UsedChannel' = UsedChannel \cup {c}
        /\ \A v \in Timer : Used(v)' = IF v = t THEN Used(t) \cup {s} ELSE Used(v)
        /\ ChannelUsed'[c] = [pin |-> p, myFreq |-> f, bits |-> u.bits, duty |-> duty]
        /\ \A d \in UsedChannel : ChannelUsed'[d].pin = ChannelUsed[d].pin
    BY AllocateSo, Zenon
  <2> QED BY <2>1
<1> HIDE DEF t, s, c, f
<1>5. TablesType'
  <2>1. LedcOf(c) \in LedcTimer
    BY <1>2, LedcType
  <2>2. ledc' \in [LedcTimer -> [freq : Freq \cup {0}, bits : Bits \cup {0}]]
    BY <1>1, <1>3, <2>1 DEF TypeOK
  <2>3. timerFreqSet' \in [Timer -> Freq \cup {-1}]
    BY <1>1, <1>2, <1>3 DEF TypeOK
  <2>4. timerCount' \in [Timer -> 0 .. SlotsPerTimer]
    BY <1>2, <1>3, HardwareAssumption DEF TypeOK
  <2> QED BY <1>3, <1>4, <2>2, <2>3, <2>4 DEF TablesType, TypeOK
<1>6. Counted'
  <2> SUFFICES ASSUME NEW v \in Timer PROVE (timerCount[v] = Cardinality(Used(v)) \/ Closed(v))'
    BY DEF Counted
  <2>1. CASE v = t
    <3>1. timerCount[t] = Cardinality(Used(t))
      BY <1>2 DEF Tables, Counted, Closed
    <3>2. Cardinality(Used(t) \cup {s}) = Cardinality(Used(t)) + 1
      BY <1>2, UsedFinite, FS_AddElement
    <3>3. timerCount'[v] = timerCount[v] + 1
      BY <1>2, <1>3, <2>1 DEF TypeOK
    <3>4. Used(v)' = Used(v) \cup {s}
      BY <1>4, <2>1
    <3> QED BY <2>1, <3>1, <3>2, <3>3, <3>4
  <2>2. CASE v # t
    BY <1>2, <1>3, <1>4, <2>2 DEF TypeOK, Tables, Counted, Closed
  <2> QED BY <2>1, <2>2
<1>7. Tuned'
  <2>1. \A v \in Timer : timerFreqSet'[v] = IF v = t THEN f ELSE timerFreqSet[v]
    BY <1>2, <1>3 DEF TypeOK
  <2>2. f # -1
    BY <1>1
  <2> QED BY <1>2, <1>4, <2>1, <2>2 DEF Tables, Tuned
<1>8. OneEach'
  <2>1. \A d \in UsedChannel : ChannelUsed[d].pin # p
    BY DEF Attached, ChannelsOf
  <2> QED BY <1>4, <2>1 DEF Tables, OneEach
<1>9. Total'
  <2>1. Cardinality(UsedChannel') = Cardinality(UsedChannel) + 1
    BY <1>2, <1>4, UsedFinite, FS_AddElement
  <2>2. Cardinality({}) = 0
    BY FS_EmptySet
  <2>3. Cardinality(UsedChannel) \in Nat
    BY UsedFinite, FS_CardinalityType
  <2>4. CASE PWMCount = Cardinality(UsedChannel)
    BY <1>3, <2>1, <2>3, <2>4 DEF Total
  <2>5. CASE PWMCount = -1 /\ UsedChannel = {}
    BY <1>3, <2>1, <2>2, <2>5 DEF Total
  <2> QED BY <2>4, <2>5 DEF Tables, Total
<1> QED BY <1>5, <1>6, <1>7, <1>8, <1>9 DEF Tables

(* What a deallocation leaves: one channel less, the others as they were.  *)
LEMMA DeallocateSo ==
  ASSUME TypeOK, NEW c \in UsedChannel, Deallocate(c)
  PROVE  /\ ChannelUsed' \in [Channel -> Object \cup {NoObject}]
         /\ UsedChannel' = UsedChannel \ {c}
         /\ \A v \in Timer : Used(v)' = IF v = c[1] THEN Used(v) \ {c[2]} ELSE Used(v)
         /\ \A d \in UsedChannel \ {c} : ChannelUsed'[d] = ChannelUsed[d]
<1>1. c \in Channel /\ c[1] \in Timer /\ c[2] \in Slot /\ c = <<c[1], c[2]>>
  BY UsedSo DEF Used
<1>2. ChannelUsed' = [ChannelUsed EXCEPT ![c] = NoObject]
  BY DEF Deallocate
<1>3. ChannelUsed \in [Channel -> Object \cup {NoObject}]
  BY DEF TypeOK
<1>4. \A d \in Channel : ChannelUsed'[d] = IF d = c THEN NoObject ELSE ChannelUsed[d]
  BY <1>2, <1>3
<1>5. ChannelUsed' \in [Channel -> Object \cup {NoObject}]
  BY <1>2, <1>3
<1>6. UsedChannel' = UsedChannel \ {c}
  BY <1>1, <1>4 DEF UsedChannel
<1>7. ASSUME NEW v \in Timer
      PROVE  Used(v)' = IF v = c[1] THEN Used(v) \ {c[2]} ELSE Used(v)
  <2>1. \A r \in Slot : <<v, r>> \in Channel /\ (<<v, r>> = c <=> v = c[1] /\ r = c[2])
    BY <1>1 DEF Channel
  <2> QED BY <1>4, <2>1 DEF Used
<1>8. \A d \in UsedChannel \ {c} : ChannelUsed'[d] = ChannelUsed[d]
  BY <1>4 DEF UsedChannel
<1> QED BY <1>5, <1>6, <1>7, <1>8

(* It leaves the tables right: count and frequency go with the channel.    *)
LEMMA DeallocateKeeps ==
  ASSUME TypeOK, Tables, NEW c \in UsedChannel, Deallocate(c)
  PROVE  TablesType' /\ Tables'
<1>1. c \in Channel /\ c[1] \in Timer /\ c[2] \in Used(c[1])
  BY UsedSo
<1>2. /\ ChannelUsed' \in [Channel -> Object \cup {NoObject}]
      /\ UsedChannel' = UsedChannel \ {c}
      /\ \A v \in Timer : Used(v)' = IF v = c[1] THEN Used(v) \ {c[2]} ELSE Used(v)
      /\ \A d \in UsedChannel \ {c} : ChannelUsed'[d] = ChannelUsed[d]
  BY DeallocateSo, Zenon
<1>3. /\ timerCount' = [timerCount EXCEPT ![c[1]] = @ - 1]
      /\ timerFreqSet' = IF timerCount'[c[1]] = 0
                           THEN [timerFreqSet EXCEPT ![c[1]] = -1] ELSE timerFreqSet
      /\ PWMCount' = PWMCount - 1
      /\ explicateAllocationMode' = explicateAllocationMode /\ ledc' = ledc
  BY DEF Deallocate
<1>4. timerCount[c[1]] = Cardinality(Used(c[1])) /\ timerCount[c[1]] \in 1 .. SlotsPerTimer
  <2>1. timerCount[c[1]] = Cardinality(Used(c[1]))
    BY <1>1 DEF Tables, Counted, Closed
  <2>2. Cardinality(Used(c[1])) # 0
    BY <1>1, UsedFinite, FS_EmptySet
  <2>3. timerCount[c[1]] \in 0 .. SlotsPerTimer
    BY <1>1 DEF TypeOK
  <2> QED BY <2>1, <2>2, <2>3, HardwareAssumption
<1>5. \A v \in Timer : timerCount'[v] = IF v = c[1] THEN timerCount[v] - 1 ELSE timerCount[v]
  BY <1>1, <1>3 DEF TypeOK
<1>6. /\ IsFiniteSet(Used(c[1]) \ {c[2]})
      /\ Cardinality(Used(c[1]) \ {c[2]}) = timerCount[c[1]] - 1
  <2>1. IsFiniteSet(Used(c[1]))
    BY <1>1, UsedFinite
  <2>2. /\ IsFiniteSet(Used(c[1]) \ {c[2]})
        /\ Cardinality(Used(c[1]) \ {c[2]}) = Cardinality(Used(c[1])) - 1
    BY <1>1, <2>1, FS_RemoveElement
  <2> QED BY <1>4, <2>2
<1>7. TablesType'
  <2>1. timerCount' \in [Timer -> 0 .. SlotsPerTimer]
    BY <1>1, <1>3, <1>4, HardwareAssumption DEF TypeOK
  <2>2. timerFreqSet' \in [Timer -> Freq \cup {-1}]
    BY <1>1, <1>3 DEF TypeOK
  <2> QED BY <1>2, <1>3, <2>1, <2>2 DEF TablesType, TypeOK
<1>8. Counted'
  <2> SUFFICES ASSUME NEW v \in Timer PROVE (timerCount[v] = Cardinality(Used(v)) \/ Closed(v))'
    BY DEF Counted
  <2>1. CASE v = c[1]
    BY <1>2, <1>5, <1>6, <2>1
  <2>2. CASE v # c[1]
    BY <1>2, <1>3, <1>5, <2>2 DEF Tables, Counted, Closed
  <2> QED BY <2>1, <2>2
<1>9. Tuned'
  <2> SUFFICES ASSUME NEW v \in Timer PROVE timerFreqSet'[v] = -1 <=> Used(v)' = {}
    BY DEF Tuned
  <2>1. CASE v = c[1]
    <3>1. timerCount'[v] = 0 <=> Used(v)' = {}
      <4>1. Used(v)' = Used(c[1]) \ {c[2]}
        BY <1>2, <2>1
      <4>2. Cardinality(Used(v)') = 0 <=> Used(v)' = {}
        BY <1>6, <4>1, FS_EmptySet
      <4> QED BY <1>5, <1>6, <2>1, <4>1, <4>2
    <3>2. timerFreqSet[v] # -1
      BY <1>1, <2>1 DEF Tables, Tuned
    <3>3. timerFreqSet'[v] = -1 <=> timerCount'[v] = 0
      BY <1>1, <1>3, <2>1, <3>2 DEF TypeOK
    <3> QED BY <3>1, <3>3
  <2>2. CASE v # c[1]
    <3>1. timerFreqSet'[v] = timerFreqSet[v]
      BY <1>1, <1>3, <2>2 DEF TypeOK
    <3> QED BY <1>2, <2>2, <3>1 DEF Tables, Tuned
  <2> QED BY <2>1, <2>2
<1>10. OneEach'
  BY <1>2 DEF Tables, OneEach
<1>11. Total'
  <2>1. Cardinality(UsedChannel') = Cardinality(UsedChannel) - 1
    BY <1>2, UsedFinite, FS_RemoveElement
  <2>2. PWMCount = Cardinality(UsedChannel)
    BY DEF Tables, Total
  <2> QED BY <1>3, <2>1, <2>2, UsedFinite DEF Total
<1> QED BY <1>7, <1>8, <1>9, <1>10, <1>11 DEF Tables

(* A call that leaves the channels with their pins leaves the tables right. *)
LEMMA SameKeeps ==
  ASSUME TypeOK, Tables,
         \A d \in Channel : ChannelUsed'[d] = NoObject <=> ChannelUsed[d] = NoObject,
         \A d \in UsedChannel : ChannelUsed'[d].pin = ChannelUsed[d].pin,
         \A v \in Timer : timerFreqSet'[v] = -1 <=> timerFreqSet[v] = -1,
         UNCHANGED <<timerCount, PWMCount, explicateAllocationMode>>
  PROVE  /\ UsedChannel' = UsedChannel /\ (\A v \in Timer : Used(v)' = Used(v))
         /\ Tables'
<1>1. UsedChannel' = UsedChannel
  BY DEF UsedChannel
<1>2. ASSUME NEW v \in Timer PROVE Used(v)' = Used(v)
  BY DEF Used, Channel
<1>3. Counted'
  BY <1>2 DEF Tables, Counted, Closed
<1>4. Tuned'
  BY <1>2 DEF Tables, Tuned
<1>5. OneEach'
  BY <1>1 DEF Tables, OneEach
<1>6. Total'
  BY <1>1 DEF Tables, Total
<1> QED BY <1>1, <1>2, <1>3, <1>4, <1>5, <1>6 DEF Tables

(* The duty of a channel is written.                                       *)
LEMMA WriteSo ==
  ASSUME TypeOK, NEW c \in UsedChannel, NEW v \in Level \cup {Half, Stale},
         ChannelUsed' = [ChannelUsed EXCEPT ![c].duty = v]
  PROVE  /\ ChannelUsed' \in [Channel -> Object \cup {NoObject}]
         /\ \A d \in Channel : ChannelUsed'[d] = NoObject <=> ChannelUsed[d] = NoObject
         /\ \A d \in UsedChannel :
              /\ ChannelUsed'[d].pin = ChannelUsed[d].pin
              /\ ChannelUsed'[d].myFreq = ChannelUsed[d].myFreq
              /\ ChannelUsed'[d].bits = ChannelUsed[d].bits
              /\ ChannelUsed'[d].duty = IF d = c THEN v ELSE ChannelUsed[d].duty
<1>1. ChannelUsed \in [Channel -> Object \cup {NoObject}]
  BY DEF TypeOK
<1>2. c \in Channel /\ ChannelUsed[c] \in Object
  BY UsedSo
<1>3. \A d \in Channel : ChannelUsed'[d] =
        IF d = c THEN [ChannelUsed[c] EXCEPT !.duty = v] ELSE ChannelUsed[d]
  BY <1>1, <1>2
<1> DEFINE o == [ChannelUsed[c] EXCEPT !.duty = v]
<1>4. /\ o \in Object /\ o.pin = ChannelUsed[c].pin /\ o.myFreq = ChannelUsed[c].myFreq
      /\ o.bits = ChannelUsed[c].bits /\ o.duty = v
  BY <1>2 DEF Object
<1> HIDE DEF o
<1>5. o # NoObject /\ ChannelUsed[c] # NoObject
  BY <1>2, <1>4, Objects
<1>6. \A d \in Channel : ChannelUsed'[d] = IF d = c THEN o ELSE ChannelUsed[d]
  BY <1>3 DEF o
<1>7. ChannelUsed' \in [Channel -> Object \cup {NoObject}]
  <2>1. ChannelUsed' = [d \in Channel |-> ChannelUsed'[d]]
    BY <1>1
  <2>2. \A d \in Channel : ChannelUsed'[d] \in Object \cup {NoObject}
    BY <1>1, <1>4, <1>6
  <2> QED BY <2>1, <2>2
<1>8. UsedChannel \subseteq Channel
  BY DEF UsedChannel
<1> QED BY <1>4, <1>5, <1>6, <1>7, <1>8

(* A tone's frequency is one of its pin.                                   *)
LEMMA ToneUse ==
  ASSUME NEW p \in TonePin, NEW f \in ToneFreq[p]
  PROVE  p \in Pin /\ [freq |-> f, bits |-> ToneBits] \in Use(p) /\ f \in Freq /\ f \in Nat \ {0}
<1>1. p \in Pin /\ [freq |-> f, bits |-> ToneBits] \in Use(p)
  <2>1. Use(p) = [freq : ToneFreq[p], bits : {ToneBits}]
    BY HardwareAssumption DEF Use
  <2> QED BY <2>1 DEF Pin
<1> QED BY <1>1, UseType

(* analogWrite() uses a pin at its own frequency and resolution.           *)
LEMMA WriteUse ==
  ASSUME NEW p \in WritePin
  PROVE  p \in Pin /\ [freq |-> WriteFreq, bits |-> WriteBits] \in Use(p) /\ WriteFreq \in Freq
<1>1. p \in Pin /\ p \notin TonePin
  BY HardwareAssumption DEF Pin
<1>2. [freq |-> WriteFreq, bits |-> WriteBits] \in Use(p)
  BY <1>1 DEF Use
<1> QED BY <1>1, <1>2, UseType

(* A Servo's uses are those of its object.                                 *)
LEMMA ServoUses ==
  ASSUME NEW p \in ServoPin
  PROVE  p \in Pin /\ Use(p) = ServoUse[p]
<1>1. p \in Pin /\ p \notin TonePin /\ p \notin WritePin
  BY HardwareAssumption DEF Pin
<1> QED BY <1>1 DEF Use

(* A change of a tone changes frequencies only, of channels in use, and    *)
(* the timer's own if it changes one.                                      *)
LEMMA ToneChangeKeeps ==
  ASSUME TypeOK, Tables, NEW p \in TonePin, NEW f \in ToneFreq[p], ToneChange(p, f)
  PROVE  TablesType' /\ Tables'
<1> DEFINE c == ChannelOf(p)
           t == c[1]
           found == {s \in Used(t) : s < timerCount[t]}
           retuned == {<<t, s>> : s \in {r \in found : ChannelUsed[<<t, r>>].myFreq # f}}
           SlotsAt(l) == {d[2] : d \in {e \in retuned : LedcOf(e) = l}}
           Last(l) == <<t, Max(SlotsAt(l))>>
<1>1. p \in Pin /\ f \in Freq /\ f \in Nat \ {0}
  BY ToneUse
<1>2. c \in UsedChannel /\ t \in Timer
  <2>1. Attached(p)
    BY DEF ToneChange
  <2> QED BY <1>1, <2>1, TheChannel, UsedSo DEF Tables
<1>3. /\ timerFreqSet' = IF retuned # {} THEN [timerFreqSet EXCEPT ![t] = f] ELSE timerFreqSet
      /\ ChannelUsed' = [d \in Channel |->
           IF d \in UsedChannel
             THEN [ChannelUsed[d] EXCEPT
                     !.myFreq = IF d \in retuned THEN f ELSE @,
                     !.duty = IF d = c /\ found # {} THEN Half ELSE @]
             ELSE NoObject]
      /\ ledc' = [l \in LedcTimer |->
           IF \E d \in retuned : LedcOf(d) = l
             THEN [freq |-> f, bits |-> ChannelUsed[Last(l)].bits] ELSE ledc[l]]
      /\ UNCHANGED <<timerCount, PWMCount, explicateAllocationMode>>
  BY DEF ToneChange
<1>4. ASSUME NEW d \in UsedChannel
      PROVE  /\ ChannelUsed'[d] \in Object
             /\ ChannelUsed'[d].pin = ChannelUsed[d].pin
  <2>1. d \in Channel /\ ChannelUsed[d] \in Object
    BY UsedSo
  <2> DEFINE g == IF d \in retuned THEN f ELSE ChannelUsed[d].myFreq
             w == IF d = c /\ found # {} THEN Half ELSE ChannelUsed[d].duty
  <2>2. g \in Freq /\ w \in Level \cup {Half, Stale}
    BY <1>1, <2>1 DEF Object
  <2>3. ChannelUsed'[d] = [ChannelUsed[d] EXCEPT !.myFreq = g, !.duty = w]
    BY <1>3, <2>1, Zenon
  <2> HIDE DEF g, w
  <2> QED BY <2>1, <2>2, <2>3 DEF Object
<1>5. \A d \in Channel : d \notin UsedChannel => ChannelUsed'[d] = NoObject
  BY <1>3
<1>6. ChannelUsed' \in [Channel -> Object \cup {NoObject}]
  <2>1. ChannelUsed' = [d \in Channel |-> ChannelUsed'[d]]
    BY <1>3
  <2> QED BY <1>4, <1>5, <2>1
<1>7. retuned \subseteq UsedChannel /\ \A d \in retuned : d[1] = t /\ d[2] \in Slot
  <2>1. found \subseteq Used(t) /\ Used(t) \subseteq Slot
    BY <1>2, UsedFinite
  <2>2. \A d \in retuned : \E s \in found : d = <<t, s>>
    OBVIOUS
  <2> HIDE DEF found, retuned
  <2> QED BY <1>2, <2>1, <2>2, UsedSo
<1>8. ASSUME NEW l \in LedcTimer, \E d \in retuned : LedcOf(d) = l
      PROVE  ChannelUsed[Last(l)].bits \in Bits
  <2>1. SlotsAt(l) \subseteq 0 .. SlotsPerTimer - 1 /\ SlotsAt(l) # {}
    BY <1>7, <1>8 DEF Slot
  <2>2. Max(SlotsAt(l)) \in SlotsAt(l)
    <3> HIDE DEF SlotsAt
    <3> QED BY <2>1, GreatestOf, HardwareAssumption
  <2>3. PICK e \in retuned : Max(SlotsAt(l)) = e[2]
    BY <2>2
  <2>4. Last(l) = e
    BY <1>7, <2>3, UsedSo
  <2> HIDE DEF Last, retuned
  <2> QED BY <1>7, <2>3, <2>4, UsedSo DEF Object
<1> HIDE DEF Last, retuned, found, c
<1>t. TablesType
  BY TypeOfTables
<1>9. ledc' \in [LedcTimer -> [freq : Freq \cup {0}, bits : Bits \cup {0}]]
  <2>1. ASSUME NEW l \in LedcTimer
        PROVE  ledc'[l] \in [freq : Freq \cup {0}, bits : Bits \cup {0}]
    <3>1. CASE \E d \in retuned : LedcOf(d) = l
      <4>1. ledc'[l] = [freq |-> f, bits |-> ChannelUsed[Last(l)].bits]
        BY <1>3, <3>1
      <4> QED BY <1>1, <1>8, <3>1, <4>1
    <3>2. CASE ~\E d \in retuned : LedcOf(d) = l
      <4>1. ledc'[l] = ledc[l]
        BY <1>3, <3>2
      <4> QED BY <1>t, <4>1 DEF TablesType
    <3> QED BY <3>1, <3>2
  <2>2. ledc' = [l \in LedcTimer |-> ledc'[l]]
    BY <1>3
  <2> QED BY <2>1, <2>2
<1>10. timerFreqSet' \in [Timer -> Freq \cup {-1}]
  BY <1>1, <1>2, <1>3, <1>t DEF TablesType
<1>11. TablesType'
  BY <1>3, <1>6, <1>9, <1>10, <1>t DEF TablesType
<1>12. \A v \in Timer : timerFreqSet'[v] = -1 <=> timerFreqSet[v] = -1
  <2>1. \A v \in Timer : timerFreqSet'[v] = timerFreqSet[v] \/ (v = t /\ timerFreqSet'[v] = f)
    BY <1>2, <1>3, <1>t DEF TablesType
  <2>2. timerFreqSet[t] # -1
    BY <1>2, UsedSo DEF Tables, Tuned
  <2> QED BY <1>1, <2>1, <2>2
<1>13. \A d \in Channel : ChannelUsed'[d] = NoObject <=> ChannelUsed[d] = NoObject
  BY <1>4, <1>5, UsedSo, Objects
<1>14. Tables'
  BY <1>3, <1>4, <1>12, <1>13, SameKeeps
<1> QED BY <1>11, <1>14

(* allocateTimer closes timers that have no channel in use.                *)
LEMMA AllocateTimerKeeps ==
  ASSUME TypeOK, Tables, NEW t \in Timer, AllocateTimer(t)
  PROVE  TablesType' /\ Tables'
<1>1. ChannelUsed' = ChannelUsed /\ UsedChannel = {} /\ explicateAllocationMode'
  BY DEF AllocateTimer
<1>2. UsedChannel' = UsedChannel /\ \A v \in Timer : Used(v)' = Used(v) /\ Used(v) = {}
  <2>1. UsedChannel' = UsedChannel
    BY <1>1 DEF UsedChannel
  <2>2. ASSUME NEW v \in Timer PROVE Used(v)' = Used(v) /\ Used(v) = {}
    BY <1>1, UsedSo, UsedFinite DEF Used
  <2> QED BY <2>1, <2>2
<1>3. timerCount' = [u \in Timer |->
        CASE u = t -> 0
          [] u # t /\ explicateAllocationMode -> timerCount[u]
          [] OTHER -> SlotsPerTimer]
  BY DEF AllocateTimer
<1>4. \A v \in Timer : \/ timerCount'[v] = 0
                       \/ timerCount'[v] = SlotsPerTimer
                       \/ timerCount'[v] = timerCount[v] /\ explicateAllocationMode
  BY <1>3
<1>5. TablesType'
  <2>1. timerCount' \in [Timer -> 0 .. SlotsPerTimer]
    BY <1>3, HardwareAssumption DEF TypeOK
  <2> QED BY <2>1 DEF AllocateTimer, TablesType, TypeOK
<1>6. Counted'
  BY <1>1, <1>2, <1>4, FS_EmptySet DEF Counted, Closed, Tables
<1>7. Tuned' /\ OneEach' /\ Total'
  BY <1>1, <1>2 DEF AllocateTimer, Tables, Tuned, OneEach, Total
<1> QED BY <1>5, <1>6, <1>7 DEF Tables

(* The tables are empty at the start and after a reset.                    *)
LEMMA Emptied ==
  ASSUME ChannelUsed = [c \in Channel |-> NoObject],
         timerFreqSet = [t \in Timer |-> -1], timerCount = [t \in Timer |-> 0],
         PWMCount = -1, explicateAllocationMode = FALSE,
         ledc = [l \in LedcTimer |-> [freq |-> 0, bits |-> 0]]
  PROVE  TablesType /\ Tables /\ UsedChannel = {}
<1>1. UsedChannel = {} /\ \A t \in Timer : Used(t) = {}
  BY DEF UsedChannel, Used, Channel
<1>2. TablesType
  <2>1. [freq |-> 0, bits |-> 0] \in [freq : Freq \cup {0}, bits : Bits \cup {0}]
    OBVIOUS
  <2>2. 0 \in 0 .. SlotsPerTimer
    BY HardwareAssumption
  <2> QED BY <2>1, <2>2 DEF TablesType
<1>3. Counted
  BY <1>1, FS_EmptySet DEF Counted
<1> QED BY <1>1, <1>2, <1>3 DEF Tables, Tuned, OneEach, Total

-----------------------------------------------------------------------------
(* Every call comes down to one of these effects on the tables.            *)

Duty == Level \cup {Half, Stale}

Takes(p, u, duty) ==
  /\ ~Attached(p) /\ Fits(u.freq) # {} /\ Allocate(p, u.freq, u.bits, duty) /\ halted' = 0
  /\ p \in TonePin => duty = Half
  /\ p \in ServoPin => servo'[p] = u
Writes(c, v) ==
  /\ ChannelUsed[c].pin \notin TonePin
  /\ ChannelUsed' = [ChannelUsed EXCEPT ![c].duty = v]
  /\ UNCHANGED <<timerFreqSet, timerCount, PWMCount, explicateAllocationMode, ledc, halted>>
Rigs(p) ==
  /\ Attached(p)
  /\ ledc' = [ledc EXCEPT ![LedcOf(ChannelOf(p))] = servo'[p]]
  /\ UNCHANGED <<books, halted>>
Halts(f) ==
  halted = 0 /\ halted' = f /\ Fits(f) = {} /\ UNCHANGED <<books, ledc>>

Effect ==
  \/ \E p \in Pin : \E u \in Use(p) : \E duty \in Duty : Takes(p, u, duty)
  \/ \E c \in UsedChannel : Deallocate(c)
  \/ \E t \in Timer : AllocateTimer(t)
  \/ \E p \in TonePin : \E f \in ToneFreq[p] : ToneChange(p, f)
  \/ \E c \in UsedChannel : \E v \in Duty : Writes(c, v)
  \/ \E p \in ServoPin : Rigs(p)
  \/ \E f \in Freq : Halts(f)
  \/ Restart
  \/ UNCHANGED <<books, ledc, halted>>

\* The steps of a run, one by one.
Steps ==
  \/ \E t \in Timer : AllocateTimer(t) /\ UNCHANGED <<servo, reattach, told>>
  \/ \E p \in TonePin : NoTone(p) /\ UNCHANGED <<servo, reattach, told>>
  \/ \E p \in TonePin, f \in Freq : f \in ToneFreq[p] /\ ToneStart(p, f) /\ UNCHANGED <<servo, reattach, told>>
  \/ \E p \in TonePin, f \in Freq : f \in ToneFreq[p] /\ ToneChange(p, f) /\ UNCHANGED <<servo, reattach, told>>
  \/ \E p \in WritePin, level \in {Low, High} : WriteDigital(p, level) /\ UNCHANGED <<servo, reattach, told>>
  \/ \E p \in WritePin, v \in Level : WriteWave(p, v) /\ UNCHANGED <<servo, reattach, told>>
  \/ \E p \in ServoPin : ServoAttach(p) /\ reattach = None
  \/ \E p \in ServoPin : ServoDetach(p)
  \/ \E p \in ServoPin, v \in Level : ServoWrite(p, v)
  \/ \E p \in ServoPin : \E u \in ServoUse[p] :
       (SetTimerWidth(p, u) \/ SetPeriodHertz(p, u)) /\ reattach = None
  \/ Reattach

(* Every step is a call, a step of reattaching, a reset or no step.        *)
LEMMA StepCases ==
  [ServoNext]_servoVars =>
    \/ halted = 0 /\ (reattach = None \/ Reattach) /\ Steps
    \/ ServoRestart \/ UNCHANGED servoVars
<1> SUFFICES ASSUME [ServoNext]_servoVars
             PROVE  \/ halted = 0 /\ (reattach = None \/ Reattach) /\ Steps
                    \/ ServoRestart \/ UNCHANGED servoVars
  OBVIOUS
<1>1. CASE halted = 0 /\ reattach = None /\ Call /\ UNCHANGED <<servo, reattach, told>>
  <2>1. \A p \in TonePin : \A f \in ToneFreq[p] : f \in Freq
    BY ToneUse
  <2>2. Steps
    BY <1>1, <2>1, Zenon DEF Steps, Call, Tone, AnalogWrite
  <2> QED BY <1>1, <2>2
<1>2. CASE halted = 0 /\ reattach = None /\ ServoCall
  <2>1. Steps
    BY <1>2, Zenon DEF Steps, ServoCall
  <2> QED BY <1>2, <2>1
<1>3. CASE halted = 0 /\ Reattach
  BY <1>3 DEF Steps
<1>4. CASE Halted /\ UNCHANGED <<servo, reattach, told>>
  BY <1>4 DEF Halted, servoVars
<1> QED BY <1>1, <1>2, <1>3, <1>4, Zenon DEF ServoNext

(* attachPin of a Servo.                                                   *)
LEMMA AttachEffect ==
  ASSUME TypeOK, Tables, halted = 0, NEW p \in ServoPin, NEW u \in ServoUse[p],
         AttachPin(p, u), servo'[p] = u
  PROVE  Effect
<1>1. p \in Pin /\ u \in Use(p)
  BY ServoUses
<1>2. u.freq \in Freq
  BY <1>1, UseType
<1>3. CASE Attached(p)
  BY <1>3 DEF AttachPin, Effect, Rigs
<1>4. CASE ~Attached(p) /\ Fits(u.freq) = {}
  BY <1>2, <1>4 DEF AttachPin, Effect, Halts, Halt
<1>5. CASE ~Attached(p) /\ Fits(u.freq) # {}
  <2>1. p \notin TonePin
    BY HardwareAssumption
  <2>2. Takes(p, u, Stale)
    BY <1>5, <2>1 DEF AttachPin, Takes, Allocate
  <2> QED BY <1>1, <2>2 DEF Effect, Duty
<1> QED BY <1>3, <1>4, <1>5

(* Letting a pin's channel go, where it has one.                           *)
LEMMA ReleaseEffect ==
  ASSUME TypeOK, Tables, NEW p \in Pin,
         IF Attached(p) THEN Deallocate(ChannelOf(p)) ELSE UNCHANGED <<books, ledc, halted>>
  PROVE  Effect
<1>1. CASE Attached(p)
  <2>1. ChannelOf(p) \in UsedChannel
    BY <1>1, TheChannel DEF Tables
  <2> QED BY <1>1, <2>1 DEF Effect
<1>2. CASE ~Attached(p)
  BY <1>2 DEF Effect
<1> QED BY <1>1, <1>2

(* Every step has one of the effects.                                      *)
LEMMA Effects == TypeOK /\ ServoType /\ Tables /\ [ServoNext]_servoVars => Effect
<1> SUFFICES ASSUME TypeOK, ServoType, Tables, [ServoNext]_servoVars PROVE Effect
  OBVIOUS
<1>1. CASE \E t \in Timer : AllocateTimer(t)
  BY <1>1 DEF Effect
<1>2. CASE \E p \in TonePin : NoTone(p)
  BY <1>2, ReleaseEffect DEF NoTone, Pin
<1>3. ASSUME halted = 0, NEW p \in TonePin, NEW f \in ToneFreq[p], ToneStart(p, f) PROVE Effect
  <2> DEFINE u == [freq |-> f, bits |-> ToneBits]
  <2>1. p \in Pin /\ u \in Use(p) /\ u.freq = f /\ u.bits = ToneBits /\ f \in Freq
    BY ToneUse
  <2> HIDE DEF u
  <2>2. CASE Fits(f) = {}
    BY <1>3, <2>1, <2>2 DEF ToneStart, Effect, Halts, Halt
  <2>3. CASE Fits(f) # {}
    <3>1. Takes(p, u, Half)
      BY <1>3, <2>1, <2>3, HardwareAssumption, ZenonT(60) DEF ToneStart, Takes, Allocate
    <3> QED BY <2>1, <3>1 DEF Effect, Duty
  <2> QED BY <2>2, <2>3
<1>4. CASE \E p \in TonePin, f \in Freq : f \in ToneFreq[p] /\ ToneChange(p, f)
  BY <1>4 DEF Effect
<1>5. CASE \E p \in WritePin, level \in {Low, High} : WriteDigital(p, level)
  BY <1>5, ReleaseEffect DEF WriteDigital, Pin
<1>6. ASSUME halted = 0, NEW p \in WritePin, NEW v \in Level, WriteWave(p, v) PROVE Effect
  <2> DEFINE u == [freq |-> WriteFreq, bits |-> WriteBits]
  <2>1. p \in Pin /\ u \in Use(p) /\ u.freq = WriteFreq /\ u.bits = WriteBits /\ WriteFreq \in Freq
    BY WriteUse
  <2> HIDE DEF u
  <2>0. p \notin TonePin /\ p \notin ServoPin
    BY HardwareAssumption
  <2>2. CASE Attached(p)
    <3>1. ChannelOf(p) \in UsedChannel /\ ChannelUsed[ChannelOf(p)].pin = p
      BY <2>1, <2>2, TheChannel DEF Tables
    <3>2. Writes(ChannelOf(p), v)
      BY <1>6, <2>0, <2>2, <3>1 DEF WriteWave, Writes
    <3> QED BY <3>1, <3>2 DEF Effect, Duty
  <2>3. CASE ~Attached(p) /\ Fits(WriteFreq) = {}
    BY <1>6, <2>1, <2>3 DEF WriteWave, Effect, Halts, Halt
  <2>4. CASE ~Attached(p) /\ Fits(WriteFreq) # {}
    <3>1. Takes(p, u, v)
      BY <1>6, <2>0, <2>1, <2>4 DEF WriteWave, Takes, Allocate
    <3> QED BY <2>1, <3>1 DEF Effect, Duty
  <2> QED BY <2>2, <2>3, <2>4
<1>7. ASSUME halted = 0, NEW p \in ServoPin, ServoAttach(p) PROVE Effect
  <2> DEFINE u == IF Attached(p) THEN servo[p] ELSE [servo[p] EXCEPT !.bits = DefaultBits]
  <2>1. u \in ServoUse[p]
    BY DefaultAssumption DEF ServoType
  <2>2. AttachPin(p, u) /\ servo' = [servo EXCEPT ![p] = u]
    BY <1>7 DEF ServoAttach
  <2> HIDE DEF u
  <2>3. servo'[p] = u
    BY <2>2 DEF ServoType
  <2> QED BY <1>7, <2>1, <2>2, <2>3, AttachEffect
<1>8. CASE \E p \in ServoPin : ServoDetach(p)
  BY <1>8, ReleaseEffect DEF ServoDetach, Pin
<1>9. ASSUME NEW p \in ServoPin, NEW v \in Level, ServoWrite(p, v) PROVE Effect
  <2>1. CASE Attached(p)
    <3>1. ChannelOf(p) \in UsedChannel /\ ChannelUsed[ChannelOf(p)].pin = p
      BY <2>1, TheChannel DEF Tables, Pin
    <3>2. Writes(ChannelOf(p), v)
      BY <1>9, <2>1, <3>1, HardwareAssumption DEF ServoWrite, Writes
    <3> QED BY <3>1, <3>2 DEF Effect, Duty
  <2>2. CASE ~Attached(p)
    BY <1>9, <2>2 DEF ServoWrite, Effect, books
  <2> QED BY <2>1, <2>2
<1>10. ASSUME NEW p \in ServoPin, NEW u \in ServoUse[p], SetTimerWidth(p, u) \/ SetPeriodHertz(p, u)
       PROVE  Effect
  <2>1. IF Attached(p) THEN Deallocate(ChannelOf(p)) ELSE UNCHANGED <<books, ledc, halted>>
    BY <1>10 DEF SetTimerWidth, SetPeriodHertz, SetTimer, vars
  <2> QED BY <2>1, ReleaseEffect DEF Pin
<1>11. ASSUME halted = 0, Reattach PROVE Effect
  <2>1. reattach \in ServoPin /\ AttachPin(reattach, servo[reattach]) /\ servo' = servo
    BY <1>11 DEF Reattach, ServoType
  <2>2. PICK p \in ServoPin : p = reattach
    BY <2>1
  <2>3. servo[p] \in ServoUse[p] /\ AttachPin(p, servo[p]) /\ servo'[p] = servo[p]
    BY <2>1, <2>2 DEF ServoType
  <2> QED BY <1>11, <2>3, AttachEffect
<1>12. CASE halted = 0 /\ Steps
  BY <1>1, <1>2, <1>3, <1>4, <1>5, <1>6, <1>7, <1>8, <1>9, <1>10, <1>11, <1>12, Zenon DEF Steps
<1>13. CASE ServoRestart
  BY <1>13 DEF ServoRestart, Effect
<1>14. CASE UNCHANGED servoVars
  BY <1>14 DEF servoVars, vars, Effect
<1> QED BY <1>12, <1>13, <1>14, StepCases

-----------------------------------------------------------------------------
(* Types and tables from step to step.                                     *)

(* The tables stay right.                                                  *)
LEMMA TablesStep ==
  TypeOK /\ ServoType /\ ServoType' /\ Tables /\ [ServoNext]_servoVars =>
    TablesType' /\ Tables' /\ halted' \in Freq \cup {0}
<1> SUFFICES ASSUME TypeOK, ServoType, ServoType', Tables, [ServoNext]_servoVars
             PROVE  TablesType' /\ Tables' /\ halted' \in Freq \cup {0}
  OBVIOUS
<1>t. TablesType /\ halted \in Freq \cup {0}
  BY TypeOfTables DEF TypeOK
<1>1. ASSUME NEW p \in Pin, NEW u \in Use(p), NEW duty \in Duty, Takes(p, u, duty)
      PROVE  TablesType' /\ Tables' /\ halted' \in Freq \cup {0}
  BY <1>1, AllocateKeeps DEF Takes, Duty
<1>2. ASSUME NEW c \in UsedChannel, Deallocate(c)
      PROVE  TablesType' /\ Tables' /\ halted' \in Freq \cup {0}
  <2>1. halted' = halted
    BY <1>2 DEF Deallocate
  <2> QED BY <1>2, <1>t, <2>1, DeallocateKeeps
<1>3. ASSUME NEW t \in Timer, AllocateTimer(t)
      PROVE  TablesType' /\ Tables' /\ halted' \in Freq \cup {0}
  <2>1. halted' = halted
    BY <1>3 DEF AllocateTimer
  <2> QED BY <1>3, <1>t, <2>1, AllocateTimerKeeps
<1>4. ASSUME NEW p \in TonePin, NEW f \in ToneFreq[p], ToneChange(p, f)
      PROVE  TablesType' /\ Tables' /\ halted' \in Freq \cup {0}
  <2>1. halted' = halted
    BY <1>4 DEF ToneChange
  <2> QED BY <1>4, <1>t, <2>1, ToneChangeKeeps
<1>5. ASSUME NEW c \in UsedChannel, NEW v \in Duty, Writes(c, v)
      PROVE  TablesType' /\ Tables' /\ halted' \in Freq \cup {0}
  <2>1. /\ ChannelUsed' = [ChannelUsed EXCEPT ![c].duty = v]
        /\ UNCHANGED <<timerFreqSet, timerCount, PWMCount, explicateAllocationMode, ledc, halted>>
    BY <1>5 DEF Writes
  <2>2. /\ ChannelUsed' \in [Channel -> Object \cup {NoObject}]
        /\ \A d \in Channel : ChannelUsed'[d] = NoObject <=> ChannelUsed[d] = NoObject
        /\ \A d \in UsedChannel : ChannelUsed'[d].pin = ChannelUsed[d].pin
    BY <2>1, WriteSo DEF Duty
  <2>3. Tables'
    BY <2>1, <2>2, SameKeeps
  <2> QED BY <1>t, <2>1, <2>2, <2>3 DEF TablesType
<1>6. ASSUME NEW p \in ServoPin, Rigs(p)
      PROVE  TablesType' /\ Tables' /\ halted' \in Freq \cup {0}
  <2>1. UNCHANGED <<books, halted>> /\ ledc' = [ledc EXCEPT ![LedcOf(ChannelOf(p))] = servo'[p]]
    BY <1>6 DEF Rigs
  <2>2. LedcOf(ChannelOf(p)) \in LedcTimer
    BY <1>6, TheChannel, UsedSo, LedcType DEF Rigs, Tables, Pin
  <2>3. servo'[p] \in [freq : Freq \cup {0}, bits : Bits \cup {0}]
    <3>1. servo'[p] \in ServoUse[p]
      BY DEF ServoType
    <3>2. servo'[p] \in Use(p) /\ p \in Pin
      BY <3>1, ServoUses
    <3> QED BY <3>2, UseType
  <2>4. ledc' \in [LedcTimer -> [freq : Freq \cup {0}, bits : Bits \cup {0}]]
    BY <1>t, <2>1, <2>2, <2>3 DEF TablesType
  <2>5. Tables'
    BY <2>1, SameKeeps DEF books
  <2> QED BY <1>t, <2>1, <2>4, <2>5 DEF TablesType, books
<1>7. ASSUME NEW f \in Freq, Halts(f)
      PROVE  TablesType' /\ Tables' /\ halted' \in Freq \cup {0}
  <2>1. UNCHANGED <<books, ledc>> /\ halted' = f
    BY <1>7 DEF Halts
  <2>2. Tables'
    BY <2>1, SameKeeps DEF books
  <2> QED BY <1>t, <2>1, <2>2 DEF TablesType, books
<1>8. CASE Restart
  <2>1. halted' = 0
    BY <1>8 DEF Restart
  <2>2. UsedChannel' = {} /\ \A t \in Timer : Used(t)' = {}
    BY <1>8 DEF Restart, UsedChannel, Used, Channel
  <2>3. TablesType'
    <3>1. [freq |-> 0, bits |-> 0] \in [freq : Freq \cup {0}, bits : Bits \cup {0}]
      OBVIOUS
    <3>2. 0 \in 0 .. SlotsPerTimer
      BY HardwareAssumption
    <3> QED BY <1>8, <3>1, <3>2 DEF Restart, TablesType
  <2>4. Counted'
    BY <1>8, <2>2, FS_EmptySet DEF Restart, Counted
  <2>5. Tuned' /\ OneEach' /\ Total'
    BY <1>8, <2>2 DEF Restart, Tuned, OneEach, Total
  <2> QED BY <2>1, <2>3, <2>4, <2>5 DEF Tables
<1>9. CASE UNCHANGED <<books, ledc, halted>>
  <2>1. Tables'
    BY <1>9, SameKeeps DEF books
  <2> QED BY <1>9, <1>t, <2>1 DEF TablesType, books
<1> QED BY <1>1, <1>2, <1>3, <1>4, <1>5, <1>6, <1>7, <1>8, <1>9, Effects DEF Effect

(* A Servo keeps frequencies and widths it is used with.                   *)
LEMMA ServoTypeStep == ServoType /\ [ServoNext]_servoVars => ServoType'
<1> SUFFICES ASSUME ServoType, [ServoNext]_servoVars PROVE ServoType'
  OBVIOUS
<1>1. ASSUME UNCHANGED <<servo, reattach>> PROVE ServoType'
  BY <1>1 DEF ServoType
<1>2. ASSUME NEW p \in ServoPin, NEW u \in ServoUse[p],
             servo' = [servo EXCEPT ![p] = u], reattach' \in {reattach, p}
      PROVE  ServoType'
  <2>1. u \in [freq : Nat \ {0}, bits : 16 .. 20]
    BY HardwareAssumption
  <2> QED BY <1>2, <2>1 DEF ServoType
<1>3. ASSUME NEW p \in ServoPin, ServoAttach(p) PROVE ServoType'
  <2>1. [servo[p] EXCEPT !.bits = DefaultBits] \in ServoUse[p] /\ servo[p] \in ServoUse[p]
    BY DefaultAssumption DEF ServoType
  <2> QED BY <1>2, <1>3, <2>1 DEF ServoAttach
<1>4. ASSUME NEW p \in ServoPin, NEW u \in ServoUse[p], SetTimerWidth(p, u) \/ SetPeriodHertz(p, u)
      PROVE  ServoType'
  BY <1>2, <1>4 DEF SetTimerWidth, SetPeriodHertz, SetTimer
<1>5. CASE Reattach
  BY <1>5 DEF Reattach, ServoType
<1>6. CASE ServoRestart
  <2>1. Default \in [freq : Nat \ {0}, bits : 16 .. 20]
    BY DEF Default, DefaultBits
  <2> QED BY <1>6, <2>1, DefaultAssumption DEF ServoRestart, ServoType
<1>7. CASE Steps
  BY <1>1, <1>3, <1>4, <1>5, <1>7, Zenon DEF Steps, ServoDetach, ServoWrite
<1> QED BY <1>1, <1>6, <1>7, StepCases DEF servoVars

\* What a pin can be told.
Order ==
  {Low, High} \cup {Sound(f) : f \in Freq} \cup {Wave(v) : v \in Level}
    \cup {Attach(u) : u \in [freq : Freq, bits : 16 .. 20]}
    \cup {Pulse(u, v) : u \in [freq : Freq, bits : 16 .. 20], v \in Level}

(* What calls tell pins has its type.                                      *)
LEMMA OrderType ==
  ASSUME ServoType
  PROVE  /\ Low \in Order /\ High \in Order
         /\ \A f \in Freq : Sound(f) \in Order
         /\ \A v \in Level : Wave(v) \in Order
         /\ \A p \in ServoPin : \A u \in ServoUse[p] : Attach(u) \in Order
         /\ \A p \in ServoPin : \A u \in ServoUse[p] : \A v \in Level : Pulse(u, v) \in Order
<1>1. ASSUME NEW p \in ServoPin, NEW u \in ServoUse[p]
      PROVE  u \in [freq : Freq, bits : 16 .. 20]
  <2>1. u.freq \in Freq
    BY ServoUses, UseType
  <2>2. u \in [freq : Nat \ {0}, bits : 16 .. 20]
    BY HardwareAssumption
  <2> QED BY <2>1, <2>2
<1>2. \A u \in [freq : Freq, bits : 16 .. 20] : Attach(u) \in Order
  BY DEF Order
<1>3. \A u \in [freq : Freq, bits : 16 .. 20] : \A v \in Level : Pulse(u, v) \in Order
  BY DEF Order
<1>4. Low \in Order /\ High \in Order
  BY DEF Order
<1>5. \A f \in Freq : Sound(f) \in Order
  BY DEF Order
<1>6. \A v \in Level : Wave(v) \in Order
  BY DEF Order
<1> QED BY <1>1, <1>2, <1>3, <1>4, <1>5, <1>6

(* And so has the history of what pins were told.                          *)
LEMMA AskedStep ==
  ServoType /\ asked \in [Pin -> Order] /\ [ServoNext]_servoVars => asked' \in [Pin -> Order]
<1> SUFFICES ASSUME ServoType, asked \in [Pin -> Order], [ServoNext]_servoVars
             PROVE  asked' \in [Pin -> Order]
  OBVIOUS
<1>1. ASSUME NEW p \in Pin, NEW w \in Order, Asks(p, w) PROVE asked' \in [Pin -> Order]
  BY <1>1 DEF Asks
<1>2. TonePin \subseteq Pin /\ WritePin \subseteq Pin /\ ServoPin \subseteq Pin
  BY DEF Pin
<1>3. ASSUME NEW p \in ServoPin, NEW u \in ServoUse[p], AttachPin(p, u)
      PROVE  asked' \in [Pin -> Order]
  BY <1>1, <1>2, <1>3, OrderType DEF AttachPin, Halt
<1>4. ASSUME NEW p \in TonePin, NEW f \in Freq, ToneStart(p, f) \/ ToneChange(p, f)
      PROVE  asked' \in [Pin -> Order]
  BY <1>1, <1>2, <1>4, OrderType DEF ToneStart, ToneChange, Halt
<1>5. ASSUME NEW p \in WritePin, NEW v \in Level, WriteWave(p, v)
      PROVE  asked' \in [Pin -> Order]
  BY <1>1, <1>2, <1>5, OrderType DEF WriteWave, Halt
<1>6. ASSUME NEW p \in ServoPin, ServoAttach(p) PROVE asked' \in [Pin -> Order]
  <2>1. [servo[p] EXCEPT !.bits = DefaultBits] \in ServoUse[p] /\ servo[p] \in ServoUse[p]
    BY DefaultAssumption DEF ServoType
  <2> QED BY <1>3, <1>6, <2>1 DEF ServoAttach
<1>7. ASSUME NEW p \in ServoPin, NEW v \in Level, ServoWrite(p, v) PROVE asked' \in [Pin -> Order]
  BY <1>1, <1>2, <1>7, OrderType DEF ServoWrite, ServoType
<1>8. ASSUME NEW p \in ServoPin, NEW u \in ServoUse[p], SetTimerWidth(p, u) \/ SetPeriodHertz(p, u)
      PROVE  asked' \in [Pin -> Order]
  BY <1>1, <1>2, <1>8, OrderType DEF SetTimerWidth, SetPeriodHertz, SetTimer, vars
<1>9. CASE Reattach
  BY <1>3, <1>9 DEF Reattach, ServoType
<1>10. CASE \E p \in TonePin : NoTone(p)
  BY <1>1, <1>2, <1>10, OrderType DEF NoTone
<1>11. CASE \E p \in WritePin, level \in {Low, High} : WriteDigital(p, level)
  BY <1>1, <1>2, <1>11, OrderType DEF WriteDigital
<1>12. CASE \E p \in ServoPin : ServoDetach(p)
  BY <1>1, <1>2, <1>12, OrderType DEF ServoDetach
<1>13. CASE \E t \in Timer : AllocateTimer(t)
  BY <1>13 DEF AllocateTimer
<1>14. CASE Steps
  BY <1>4, <1>5, <1>6, <1>7, <1>8, <1>9, <1>10, <1>11, <1>12, <1>13, <1>14, Zenon DEF Steps
<1>15. CASE ServoRestart
  BY <1>15, OrderType DEF ServoRestart, Restart
<1>16. CASE UNCHANGED servoVars
  BY <1>16 DEF servoVars, vars
<1> QED BY <1>14, <1>15, <1>16, StepCases

(* There are no more channels in use than channels.                        *)
LEMMA ChannelSet ==
  ASSUME NEW S \in SUBSET Channel
  PROVE  Cardinality(S) \in 0 .. NumTimers * SlotsPerTimer
<1>1. IsFiniteSet(S) /\ Cardinality(S) <= NumTimers * SlotsPerTimer
  BY UsedFinite, FS_Subset
<1>2. Cardinality(S) \in Nat
  BY <1>1, FS_CardinalityType
<1>3. NumTimers * SlotsPerTimer \in Nat
  BY HardwareAssumption
<1> QED BY <1>1, <1>2, <1>3

(* TypeOK, part by part.                                                   *)
LEMMA TypeFromTables ==
  TypeOK <=> /\ TablesType /\ halted \in Freq \cup {0} /\ asked \in [Pin -> Order]
             /\ PWMCount \in -1 .. NumTimers * SlotsPerTimer
BY DEF TypeOK, TablesType, Order

(* PWMCount is bounded because it counts channels.                         *)
LEMMA CountType ==
  Total => PWMCount \in -1 .. NumTimers * SlotsPerTimer
<1>1. UsedChannel \in SUBSET Channel
  BY DEF UsedChannel
<1>2. NumTimers * SlotsPerTimer \in Nat
  BY HardwareAssumption
<1>3. Cardinality(UsedChannel) \in 0 .. NumTimers * SlotsPerTimer
  BY <1>1, ChannelSet
<1> QED BY <1>2, <1>3 DEF Total

IInv == TypeOK /\ ServoType /\ Tables

(* The invariant holds at the start ...                                    *)
LEMMA InvInit == ServoInit => IInv
<1> SUFFICES ASSUME ServoInit PROVE IInv
  OBVIOUS
<1>1. TablesType /\ Tables
  BY Emptied DEF ServoInit, Init
<1>2. ServoType
  <2>1. Default \in [freq : Nat \ {0}, bits : 16 .. 20]
    BY DEF Default, DefaultBits
  <2> QED BY <2>1, DefaultAssumption DEF ServoInit, ServoType
<1>3. asked \in [Pin -> Order] /\ halted \in Freq \cup {0}
  BY <1>2, OrderType DEF ServoInit, Init
<1> QED BY <1>1, <1>2, <1>3, TypeFromTables, CountType DEF IInv, Tables

(* ... and every step keeps it ...                                         *)
LEMMA InvStep == IInv /\ [ServoNext]_servoVars => IInv'
<1> SUFFICES ASSUME IInv, [ServoNext]_servoVars PROVE IInv'
  OBVIOUS
<1>1. ServoType'
  BY ServoTypeStep DEF IInv
<1>2. TablesType' /\ Tables' /\ halted' \in Freq \cup {0}
  BY <1>1, TablesStep DEF IInv
<1>3. asked' \in [Pin -> Order]
  BY AskedStep, TypeFromTables DEF IInv
<1>4. PWMCount' \in -1 .. NumTimers * SlotsPerTimer
  <2>1. UsedChannel' \in SUBSET Channel
    BY DEF UsedChannel
  <2>2. NumTimers * SlotsPerTimer \in Nat
    BY HardwareAssumption
  <2>3. Cardinality(UsedChannel') \in 0 .. NumTimers * SlotsPerTimer
    BY <2>1, ChannelSet
  <2>4. Total'
    BY <1>2 DEF Tables
  <2> QED BY <2>2, <2>3, <2>4 DEF Total
<1>5. TypeOK'
  BY <1>2, <1>3, <1>4 DEF TypeOK, TablesType, Order
<1> QED BY <1>1, <1>2, <1>5 DEF IInv

(* ... so it holds always.                                                 *)
LEMMA InvCorrect == ServoSpec => []IInv
BY InvInit, InvStep, PTL DEF ServoSpec

(* The tables, the hardware timers and what pins are told have their       *)
(* types, whichever pins share the channels.                               *)
THEOREM TypeCorrect == ServoSpec => []TypeOK
<1>1. IInv => TypeOK
  BY DEF IInv
<1> QED BY <1>1, InvCorrect, PTL

(* The invariant's tables are the books.                                   *)
LEMMA TablesBooks == IInv => Books
<1> SUFFICES ASSUME IInv PROVE Books
  OBVIOUS
<1>1. ASSUME NEW p \in Pin PROVE Cardinality(ChannelsOf(p)) <= 1
  <2>1. CASE ChannelsOf(p) = {}
    BY <2>1, FS_EmptySet
  <2>2. CASE ChannelsOf(p) # {}
    <3>1. ChannelsOf(p) = {ChannelOf(p)}
      BY <2>2, TheChannel DEF IInv, Tables, Attached
    <3>2. Cardinality({ChannelOf(p)}) = 1
      BY FS_Singleton
    <3> QED BY <3>1, <3>2
  <2> QED BY <2>1, <2>2
<1> QED BY <1>1 DEF IInv, Tables, Counted, Tuned, Total, Books

(* The library's tables agree after any calls, of tone(), analogWrite()    *)
(* and Servo in any order, on any number of timers and pins.               *)
THEOREM BooksCorrect == ServoSpec => []Books
BY TablesBooks, InvCorrect, PTL

-----------------------------------------------------------------------------
(* Pins with tones that do not change.  The rest is about uses in which    *)
(* each tone pin has one frequency, as in the sketch; with others the      *)
(* library does not keep its word (ToneHeard).                             *)

FixedTones == \A p \in TonePin : \A f, g \in ToneFreq[p] : f = g

\* A channel in use runs at the frequency of its timer ...
OnePitch == \A c \in UsedChannel : ChannelUsed[c].myFreq = timerFreqSet[c[1]]

\* ... is used as its pin may be used ...
UseOf(c) == [freq |-> ChannelUsed[c].myFreq, bits |-> ChannelUsed[c].bits]
Own ==
  \A c \in UsedChannel :
    /\ UseOf(c) \in Use(ChannelUsed[c].pin)
    /\ ChannelUsed[c].pin \in TonePin => ChannelUsed[c].duty = Half

\* ... and its hardware timer is set up for it.
Tended == \A c \in UsedChannel : PutsOut(c, ChannelUsed[c].myFreq, ChannelUsed[c].bits)

\* An attached Servo is on the channel it asked for.
Linked ==
  /\ \A p \in ServoPin : \A c \in ChannelsOf(p) : UseOf(c) = servo[p]
  /\ reattach # None => ~Attached(reattach)

\* A channel does what its pin was told.
Does(c, what) ==
  CASE what.kind = "tone" ->
         UseOf(c) = [freq |-> what.freq, bits |-> ToneBits] /\ ChannelUsed[c].duty = Half
    [] what.kind = "wave" ->
         UseOf(c) = [freq |-> WriteFreq, bits |-> WriteBits] /\ ChannelUsed[c].duty = what.level
    [] what.kind = "attach" -> UseOf(c) = what.use
    [] OTHER -> UseOf(c) = what.use /\ ChannelUsed[c].duty = what.level
Heeds(p) ==
  IF asked[p] \in {Low, High} THEN ~Attached(p)
                              ELSE \E c \in ChannelsOf(p) : Does(c, asked[p])
Told == \A p \in Pin : Heeds(p)

Stuck == halted # 0 => Fits(halted) = {}

Kept == OnePitch /\ Own /\ Tended
FixedInv == IInv /\ Kept /\ Linked /\ Told /\ Stuck

-----------------------------------------------------------------------------
(* The effects again, pin by pin.                                          *)

Same(c) ==
  /\ ChannelUsed'[c].pin = ChannelUsed[c].pin /\ ChannelUsed'[c].myFreq = ChannelUsed[c].myFreq
  /\ ChannelUsed'[c].bits = ChannelUsed[c].bits /\ ChannelUsed'[c].duty = ChannelUsed[c].duty

(* A new channel changes nothing on the others: those of its timer run at  *)
(* its frequency already.                                                  *)
LEMMA AllocateSame ==
  ASSUME IInv, Kept, NEW p \in Pin, NEW u \in Use(p), NEW duty \in Duty, Takes(p, u, duty)
  PROVE  \E c \in Channel \ UsedChannel :
           /\ UsedChannel' = UsedChannel \cup {c}
           /\ ChannelUsed'[c] = [pin |-> p, myFreq |-> u.freq, bits |-> u.bits, duty |-> duty]
           /\ \A d \in UsedChannel : Same(d)
           /\ \A t \in Timer : timerFreqSet'[t] = IF t = c[1] THEN u.freq ELSE timerFreqSet[t]
           /\ \A d \in UsedChannel : d[1] = c[1] => ChannelUsed[d].myFreq = u.freq
           /\ ledc' = [ledc EXCEPT ![LedcOf(c)] = [freq |-> u.freq, bits |-> u.bits]]
<1>1. PICK t \in Timer : t = TimerFor(u.freq)
  BY UseType, Taken DEF Takes
<1>2. PICK c \in Channel : c = NewChannel(u.freq) /\ c \notin UsedChannel /\ c[1] = t
  <2>1. NewChannel(u.freq) \in Channel /\ NewChannel(u.freq) \notin UsedChannel
    BY UseType, Taken DEF Takes
  <2>2. NewChannel(u.freq)[1] = t
    BY <1>1 DEF NewChannel
  <2> QED BY <2>1, <2>2
<1>3. timerFreqSet[t] \in {u.freq, -1}
  BY <1>1, UseType, Taken DEF Takes
<1>4. /\ UsedChannel' = UsedChannel \cup {c}
      /\ ChannelUsed'[c] = [pin |-> p, myFreq |-> u.freq, bits |-> u.bits, duty |-> duty]
      /\ \A d \in UsedChannel :
           /\ ChannelUsed'[d].pin = ChannelUsed[d].pin
           /\ ChannelUsed'[d].bits = ChannelUsed[d].bits
           /\ ChannelUsed'[d].duty = ChannelUsed[d].duty
           /\ ChannelUsed'[d].myFreq = IF d[1] = t /\ d[2] < timerCount[t] + 1
                                         THEN u.freq ELSE ChannelUsed[d].myFreq
  BY <1>1, <1>2, AllocateSo, ZenonT(60) DEF Takes, IInv, Duty
<1>5. ASSUME NEW d \in UsedChannel, d[1] = t PROVE ChannelUsed[d].myFreq = u.freq
  <2>1. Used(t) # {}
    BY <1>5, UsedSo DEF IInv
  <2>2. timerFreqSet[t] # -1
    BY <2>1 DEF IInv, Tables, Tuned
  <2> QED BY <1>3, <1>5, <2>2 DEF Kept, OnePitch
<1>6. \A d \in UsedChannel : Same(d)
  BY <1>4, <1>5 DEF Same
<1>7. /\ timerFreqSet' = [timerFreqSet EXCEPT ![t] = u.freq]
      /\ ledc' = [ledc EXCEPT ![LedcOf(c)] = [freq |-> u.freq, bits |-> u.bits]]
  BY <1>1, <1>2 DEF Takes, Allocate, TimerFor, SlotFor, NewChannel
<1>8. timerFreqSet \in [Timer -> Freq \cup {-1}]
  BY DEF IInv, TypeOK
<1>9. \A v \in Timer : timerFreqSet'[v] = IF v = c[1] THEN u.freq ELSE timerFreqSet[v]
  BY <1>2, <1>7, <1>8
<1> QED BY <1>2, <1>4, <1>5, <1>6, <1>7, <1>9

(* tone() with the frequency a pin already has changes nothing.            *)
LEMMA SameTone ==
  ASSUME FixedTones, IInv, Kept, NEW p \in TonePin, NEW f \in ToneFreq[p], ToneChange(p, f)
  PROVE  /\ UsedChannel' = UsedChannel /\ \A d \in UsedChannel : Same(d)
         /\ timerFreqSet' = timerFreqSet /\ ledc' = ledc
<1> DEFINE c == ChannelOf(p)
           t == c[1]
           found == {s \in Used(t) : s < timerCount[t]}
           retuned == {<<t, s>> : s \in {r \in found : ChannelUsed[<<t, r>>].myFreq # f}}
           SlotsAt(l) == {d[2] : d \in {e \in retuned : LedcOf(e) = l}}
           Last(l) == <<t, Max(SlotsAt(l))>>
<1>1. /\ timerFreqSet' = IF retuned # {} THEN [timerFreqSet EXCEPT ![t] = f] ELSE timerFreqSet
      /\ ChannelUsed' = [d \in Channel |->
           IF d \in UsedChannel
             THEN [ChannelUsed[d] EXCEPT
                     !.myFreq = IF d \in retuned THEN f ELSE @,
                     !.duty = IF d = c /\ found # {} THEN Half ELSE @]
             ELSE NoObject]
      /\ ledc' = [l \in LedcTimer |->
           IF \E d \in retuned : LedcOf(d) = l
             THEN [freq |-> f, bits |-> ChannelUsed[Last(l)].bits] ELSE ledc[l]]
  BY DEF ToneChange
<1>2. c \in UsedChannel /\ ChannelUsed[c].pin = p /\ t \in Timer
  <2>1. Attached(p) /\ p \in Pin
    BY DEF ToneChange, Pin
  <2> QED BY <2>1, TheChannel, UsedSo DEF IInv, Tables
<1>3. timerFreqSet[t] = f
  <2>1. UseOf(c) \in [freq : ToneFreq[p], bits : {ToneBits}]
    BY <1>2, HardwareAssumption DEF Kept, Own, Use
  <2>2. ChannelUsed[c].myFreq \in ToneFreq[p]
    BY <2>1 DEF UseOf
  <2> QED BY <1>2, <2>2 DEF Kept, OnePitch, FixedTones
<1>4. retuned = {}
  <2>1. \A s \in Used(t) : <<t, s>> \in UsedChannel /\ ChannelUsed[<<t, s>>].myFreq = f
    BY <1>2, <1>3, UsedSo, UsedFinite DEF Kept, OnePitch, IInv
  <2> QED BY <2>1
<1>5. ChannelUsed[c].duty = Half
  BY <1>2 DEF Kept, Own
<1>6. ASSUME NEW d \in UsedChannel PROVE Same(d) /\ ChannelUsed'[d] \in Object
  <2>1. d \in Channel /\ ChannelUsed[d] \in Object
    BY UsedSo DEF IInv
  <2> DEFINE g == IF d \in retuned THEN f ELSE ChannelUsed[d].myFreq
             w == IF d = c /\ found # {} THEN Half ELSE ChannelUsed[d].duty
  <2>2. g = ChannelUsed[d].myFreq /\ w = ChannelUsed[d].duty
    BY <1>4, <1>5
  <2>3. ChannelUsed'[d] = [ChannelUsed[d] EXCEPT !.myFreq = g, !.duty = w]
    BY <1>1, <2>1, Zenon
  <2> HIDE DEF g, w
  <2>4. ChannelUsed'[d] = ChannelUsed[d]
    BY <2>1, <2>2, <2>3 DEF Object
  <2> QED BY <2>1, <2>4 DEF Same
<1>7. \A d \in Channel : d \notin UsedChannel => ChannelUsed'[d] = NoObject
  BY <1>1
<1>8. UsedChannel' = UsedChannel
  BY <1>6, <1>7, Objects DEF UsedChannel
<1>9. ledc' = ledc
  <2>1. ledc = [l \in LedcTimer |-> ledc[l]]
    BY DEF IInv, TypeOK
  <2>2. \A l \in LedcTimer : ~\E d \in retuned : LedcOf(d) = l
    BY <1>4
  <2> HIDE DEF retuned, Last
  <2> QED BY <1>1, <2>1, <2>2
<1> QED BY <1>1, <1>4, <1>6, <1>8, <1>9

\* The channels of a pin are as they were.
Undisturbed(q) ==
  ChannelsOf(q)' = ChannelsOf(q) /\ \A c \in ChannelsOf(q) : Same(c)

(* A pin that takes a channel has that one only, and disturbs no other pin. *)
LEMMA TakesPin ==
  ASSUME IInv, Kept, NEW p \in Pin, NEW u \in Use(p), NEW duty \in Duty, Takes(p, u, duty)
  PROVE  /\ \E c \in ChannelsOf(p)' :
              ChannelsOf(p)' = {c} /\ UseOf(c)' = u /\ ChannelUsed'[c].duty = duty
         /\ \A q \in Pin \ {p} : Undisturbed(q)
<1>1. PICK c \in Channel \ UsedChannel :
           /\ UsedChannel' = UsedChannel \cup {c}
           /\ ChannelUsed'[c] = [pin |-> p, myFreq |-> u.freq, bits |-> u.bits, duty |-> duty]
           /\ \A d \in UsedChannel : Same(d)
  BY AllocateSame
<1>2. \A d \in UsedChannel : ChannelUsed[d].pin # p
  BY DEF Takes, Attached, ChannelsOf
<1>3. u = [freq |-> u.freq, bits |-> u.bits]
  BY UseType
<1>4. /\ ChannelUsed'[c].pin = p /\ ChannelUsed'[c].duty = duty
      /\ ChannelUsed'[c].myFreq = u.freq /\ ChannelUsed'[c].bits = u.bits
  BY <1>1
<1>5. ChannelsOf(p)' = {c}
  BY <1>1, <1>2, <1>4 DEF ChannelsOf, Same
<1>6. UseOf(c)' = u
  BY <1>3, <1>4 DEF UseOf
<1>7. ASSUME NEW q \in Pin \ {p} PROVE Undisturbed(q)
  BY <1>1, <1>4 DEF Undisturbed, ChannelsOf, Same
<1> QED BY <1>4, <1>5, <1>6, <1>7

(* A pin that gives its channel back has none, and disturbs no other pin.  *)
LEMMA ReleasePin ==
  ASSUME IInv, NEW p \in Pin,
         IF Attached(p) THEN Deallocate(ChannelOf(p)) ELSE UNCHANGED <<books, ledc, halted>>
  PROVE  ~Attached(p)' /\ \A q \in Pin \ {p} : Undisturbed(q)
<1>1. CASE Attached(p)
  <2>1. PICK c \in UsedChannel : c = ChannelOf(p) /\ ChannelUsed[c].pin = p /\ ChannelsOf(p) = {c}
    BY <1>1, TheChannel DEF IInv, Tables
  <2>2. /\ UsedChannel' = UsedChannel \ {c}
        /\ \A d \in UsedChannel \ {c} : ChannelUsed'[d] = ChannelUsed[d]
    BY <1>1, <2>1, DeallocateSo DEF IInv
  <2>3. ~Attached(p)'
    BY <2>1, <2>2 DEF Attached, ChannelsOf
  <2>4. ASSUME NEW q \in Pin \ {p} PROVE Undisturbed(q)
    BY <2>1, <2>2 DEF Undisturbed, ChannelsOf, Same
  <2> QED BY <2>3, <2>4
<1>2. CASE ~Attached(p)
  BY <1>2 DEF Undisturbed, ChannelsOf, Same, Attached, UsedChannel, books
<1> QED BY <1>1, <1>2

(* A pin whose duty is written keeps its channel, and disturbs no other pin. *)
LEMMA WrittenPin ==
  ASSUME IInv, NEW p \in Pin, Attached(p), NEW v \in Duty,
         ChannelUsed' = [ChannelUsed EXCEPT ![ChannelOf(p)].duty = v]
  PROVE  /\ \E c \in ChannelsOf(p)' :
              /\ c \in UsedChannel /\ ChannelsOf(p) = {c} /\ ChannelsOf(p)' = {c}
              /\ UseOf(c)' = UseOf(c) /\ ChannelUsed'[c].duty = v
         /\ \A q \in Pin \ {p} : Undisturbed(q)
<1>1. PICK c \in UsedChannel : c = ChannelOf(p) /\ ChannelUsed[c].pin = p /\ ChannelsOf(p) = {c}
  BY TheChannel DEF IInv, Tables
<1>2. /\ \A d \in Channel : ChannelUsed'[d] = NoObject <=> ChannelUsed[d] = NoObject
      /\ \A d \in UsedChannel :
           /\ ChannelUsed'[d].pin = ChannelUsed[d].pin
           /\ ChannelUsed'[d].myFreq = ChannelUsed[d].myFreq
           /\ ChannelUsed'[d].bits = ChannelUsed[d].bits
           /\ ChannelUsed'[d].duty = IF d = c THEN v ELSE ChannelUsed[d].duty
  BY <1>1, WriteSo, ZenonT(60) DEF IInv, Duty
<1>3. UsedChannel' = UsedChannel
  BY <1>2 DEF UsedChannel
<1>4. ChannelsOf(p)' = {c}
  BY <1>1, <1>2, <1>3 DEF ChannelsOf
<1>5. UseOf(c)' = UseOf(c) /\ ChannelUsed'[c].duty = v
  BY <1>2 DEF UseOf
<1>6. ASSUME NEW q \in Pin \ {p} PROVE Undisturbed(q)
  BY <1>1, <1>2, <1>3 DEF Undisturbed, ChannelsOf, Same
<1> QED BY <1>1, <1>4, <1>5, <1>6

(* Where channels stay as they were, pins are undisturbed.                 *)
LEMMA StillPins ==
  ASSUME UsedChannel' = UsedChannel, \A d \in UsedChannel : Same(d)
  PROVE  \A q \in Pin : Undisturbed(q)
BY DEF Undisturbed, ChannelsOf, Same

(* A pin heeds a call when its channel has the use and the duty of the order. *)
LEMMA Obeys ==
  ASSUME NEW p \in Pin, NEW c \in ChannelsOf(p)',
         \/ \E f \in Freq : /\ asked'[p] = Sound(f)
                            /\ UseOf(c)' = [freq |-> f, bits |-> ToneBits]
                            /\ ChannelUsed'[c].duty = Half
         \/ \E v \in Level : /\ asked'[p] = Wave(v)
                             /\ UseOf(c)' = [freq |-> WriteFreq, bits |-> WriteBits]
                             /\ ChannelUsed'[c].duty = v
         \/ asked'[p] = Attach(UseOf(c)')
         \/ \E v \in Level : asked'[p] = Pulse(UseOf(c)', v) /\ ChannelUsed'[c].duty = v
  PROVE  Heeds(p)'
<1>1. CASE \E f \in Freq : /\ asked'[p] = Sound(f)
                           /\ UseOf(c)' = [freq |-> f, bits |-> ToneBits]
                           /\ ChannelUsed'[c].duty = Half
  <2>1. asked'[p].kind = "tone" /\ asked'[p] \notin {Low, High}
    BY <1>1 DEF Sound, Low, High
  <2>2. Does(c, asked[p])'
    BY <1>1, <2>1 DEF Sound, Does
  <2> QED BY <2>1, <2>2 DEF Heeds
<1>2. CASE \E v \in Level : /\ asked'[p] = Wave(v)
                            /\ UseOf(c)' = [freq |-> WriteFreq, bits |-> WriteBits]
                            /\ ChannelUsed'[c].duty = v
  <2>1. asked'[p].kind = "wave" /\ asked'[p] \notin {Low, High}
    BY <1>2 DEF Wave, Low, High
  <2>2. Does(c, asked[p])'
    BY <1>2, <2>1 DEF Wave, Does
  <2> QED BY <2>1, <2>2 DEF Heeds
<1>3. CASE asked'[p] = Attach(UseOf(c)')
  <2>1. asked'[p].kind = "attach" /\ asked'[p] \notin {Low, High} /\ asked'[p].use = UseOf(c)'
    BY <1>3 DEF Attach, Low, High
  <2>2. Does(c, asked[p])'
    BY <2>1 DEF Does
  <2> QED BY <2>1, <2>2 DEF Heeds
<1>4. CASE \E v \in Level : asked'[p] = Pulse(UseOf(c)', v) /\ ChannelUsed'[c].duty = v
  <2>1. /\ asked'[p].kind = "pulse" /\ asked'[p] \notin {Low, High} /\ asked'[p].use = UseOf(c)'
        /\ asked'[p].level = ChannelUsed'[c].duty
    BY <1>4 DEF Pulse, Low, High
  <2>2. Does(c, asked[p])'
    BY <2>1 DEF Does
  <2> QED BY <2>1, <2>2 DEF Heeds
<1> QED BY <1>1, <1>2, <1>3, <1>4

(* An undisturbed pin that is told nothing new heeds what it was told.     *)
LEMMA HeedsStill ==
  ASSUME NEW q \in Pin, Heeds(q), Undisturbed(q), asked'[q] = asked[q]
  PROVE  Heeds(q)'
<1>1. CASE asked[q] \in {Low, High}
  <2>1. ~Attached(q)'
    BY <1>1 DEF Heeds, Undisturbed, Attached
  <2> QED BY <1>1, <2>1 DEF Heeds
<1>2. CASE asked[q] \notin {Low, High}
  <2>1. PICK c \in ChannelsOf(q) : Does(c, asked[q])
    BY <1>2 DEF Heeds
  <2>2. /\ c \in ChannelsOf(q)' /\ UseOf(c)' = UseOf(c)
        /\ ChannelUsed'[c].duty = ChannelUsed[c].duty
    BY <2>1 DEF Undisturbed, Same, UseOf
  <2>3. Does(c, asked[q])'
    BY <2>1, <2>2 DEF Does
  <2> QED BY <1>2, <2>2, <2>3 DEF Heeds
<1> QED BY <1>1, <1>2

(* A call on pin p that leaves the others undisturbed is about p only.     *)
LEMMA GoodPins ==
  ASSUME IInv, Told, Linked, NEW p \in Pin,
         \A q \in Pin \ {p} : Undisturbed(q) /\ asked'[q] = asked[q],
         \A q \in ServoPin \ {p} : servo'[q] = servo[q],
         Heeds(p)',
         p \in ServoPin => \A c \in ChannelsOf(p)' : UseOf(c)' = servo'[p],
         reattach' # None => ~Attached(reattach)'
  PROVE  Told' /\ Linked'
<1>1. \A q \in Pin \ {p} : Heeds(q)'
  BY HeedsStill DEF Told
<1>2. ASSUME NEW q \in ServoPin \ {p}, NEW c \in ChannelsOf(q)' PROVE UseOf(c)' = servo'[q]
  <2>1. q \in Pin
    BY DEF Pin
  <2>2. c \in ChannelsOf(q) /\ UseOf(c)' = UseOf(c)
    BY <2>1 DEF Undisturbed, Same, UseOf
  <2> QED BY <2>2 DEF Linked
<1> QED BY <1>1, <1>2 DEF Told, Linked

(* A call tells its own pin only.                                          *)
LEMMA Asking ==
  ASSUME IInv, NEW p \in Pin, NEW w, Asks(p, w)
  PROVE  asked'[p] = w /\ \A q \in Pin \ {p} : asked'[q] = asked[q]
<1>1. asked \in [Pin -> Order]
  BY TypeFromTables DEF IInv
<1> QED BY <1>1 DEF Asks

(* A call that leaves every pin as it was.                                 *)
LEMMA GoodStill ==
  ASSUME IInv, Told, Linked, \A q \in Pin : Undisturbed(q), asked' = asked,
         \A q \in ServoPin : servo'[q] = servo[q] \/ ~Attached(q),
         reattach' = reattach \/ reattach' = None
  PROVE  Told' /\ Linked'
<1>1. \A q \in Pin : Heeds(q)'
  BY HeedsStill DEF Told
<1>2. ASSUME NEW q \in ServoPin, NEW c \in ChannelsOf(q)' PROVE UseOf(c)' = servo'[q]
  <2>1. q \in Pin
    BY DEF Pin
  <2>2. c \in ChannelsOf(q) /\ UseOf(c)' = UseOf(c)
    BY <2>1 DEF Undisturbed, Same, UseOf
  <2> QED BY <2>2 DEF Linked, Attached
<1>3. reattach' # None => ~Attached(reattach)'
  <2>1. CASE reattach' # None
    <3>1. reattach' = reattach /\ reattach \in Pin /\ ~Attached(reattach)
      BY <2>1 DEF IInv, ServoType, Linked, Pin
    <3>2. PICK q \in Pin : q = reattach
      BY <3>1
    <3>3. ChannelsOf(q)' = ChannelsOf(q)
      BY DEF Undisturbed
    <3>4. ~Attached(q)'
      BY <3>1, <3>2, <3>3 DEF Attached
    <3> QED BY <3>1, <3>2, <3>4
  <2> QED BY <2>1
<1> QED BY <1>1, <1>2, <1>3 DEF Told, Linked

(* noTone(), analogWrite() of 0 and 255, detach(): the pin is let go.      *)
LEMMA GoodRelease ==
  ASSUME IInv, Told, Linked, NEW p \in Pin, NEW w \in {Low, High},
         IF Attached(p) THEN Deallocate(ChannelOf(p)) ELSE UNCHANGED <<books, ledc, halted>>,
         Asks(p, w), \A q \in ServoPin \ {p} : servo'[q] = servo[q],
         reattach' # None => reattach' = p
  PROVE  Told' /\ Linked'
<1>1. ~Attached(p)' /\ \A q \in Pin \ {p} : Undisturbed(q)
  BY ReleasePin
<1>2. asked'[p] = w /\ \A q \in Pin \ {p} : asked'[q] = asked[q]
  BY Asking
<1>3. Heeds(p)'
  BY <1>1, <1>2 DEF Heeds
<1>4. \A c \in ChannelsOf(p)' : UseOf(c)' = servo'[p]
  BY <1>1 DEF Attached
<1>5. reattach' # None => ~Attached(reattach)'
  <2>1. CASE reattach' = p
    BY <1>1, <2>1
  <2> QED BY <2>1
<1> QED BY <1>1, <1>2, <1>3, <1>4, <1>5, GoodPins

\* What pin p may be told with a new channel of use u and this duty.
NewOrder(p, u, duty, w) ==
  \/ p \in TonePin /\ w = Sound(u.freq) /\ duty = Half
  \/ p \in WritePin /\ w = Wave(duty) /\ duty \in Level
  \/ p \in ServoPin /\ w = Attach(u)

(* A call that takes a new channel for its pin.                            *)
LEMMA GoodTake ==
  ASSUME IInv, Kept, Told, Linked, NEW p \in Pin, NEW u \in Use(p), NEW duty \in Duty, NEW w,
         Takes(p, u, duty), NewOrder(p, u, duty, w), Asks(p, w),
         \A q \in ServoPin \ {p} : servo'[q] = servo[q], reattach' = None
  PROVE  Told' /\ Linked'
<1>1. PICK c \in ChannelsOf(p)' :
        ChannelsOf(p)' = {c} /\ UseOf(c)' = u /\ ChannelUsed'[c].duty = duty
  BY TakesPin
<1>2. \A q \in Pin \ {p} : Undisturbed(q)
  BY TakesPin
<1>3. asked'[p] = w /\ \A q \in Pin \ {p} : asked'[q] = asked[q]
  BY Asking
<1>4. Heeds(p)'
  <2>1. CASE p \in TonePin /\ w = Sound(u.freq) /\ duty = Half
    <3>0. u.freq \in Freq
      BY UseType
    <3>1. u \in [freq : ToneFreq[p], bits : {ToneBits}]
      BY <2>1, HardwareAssumption DEF Use
    <3>2. u = [freq |-> u.freq, bits |-> ToneBits]
      BY <3>1
    <3> QED BY <1>1, <1>3, <2>1, <3>0, <3>2, Obeys
  <2>2. CASE p \in WritePin /\ w = Wave(duty) /\ duty \in Level
    <3>1. u \in [freq : {WriteFreq}, bits : {WriteBits}]
      BY <2>2, HardwareAssumption DEF Use
    <3>2. u = [freq |-> WriteFreq, bits |-> WriteBits]
      BY <3>1
    <3> QED BY <1>1, <1>3, <2>2, <3>2, Obeys
  <2>3. CASE p \in ServoPin /\ w = Attach(u)
    BY <1>1, <1>3, <2>3, Obeys
  <2> QED BY <2>1, <2>2, <2>3 DEF NewOrder
<1>5. p \in ServoPin => \A d \in ChannelsOf(p)' : UseOf(d)' = servo'[p]
  <2>1. \A d \in ChannelsOf(p)' : d = c
    BY <1>1
  <2> QED BY <1>1, <2>1 DEF Takes
<1> QED BY <1>2, <1>3, <1>4, <1>5, GoodPins

(* attachPin of a Servo, in attach() and at the end of setTimerWidth().    *)
LEMMA GoodAttach ==
  ASSUME IInv, Kept, Told, Linked, halted = 0, NEW p \in ServoPin, NEW u \in ServoUse[p],
         AttachPin(p, u), servo' = [servo EXCEPT ![p] = u], Attached(p) => u = servo[p],
         reattach' = None
  PROVE  Told' /\ Linked'
<1>1. p \in Pin /\ u \in Use(p) /\ p \notin TonePin
  BY ServoUses, HardwareAssumption
<1>2. servo'[p] = u /\ \A q \in ServoPin \ {p} : servo'[q] = servo[q]
  BY DEF IInv, ServoType
<1>3. ASSUME ChannelUsed' = ChannelUsed, asked' = asked PROVE Told' /\ Linked'
  <2>1. \A q \in Pin : Undisturbed(q)
    BY <1>3 DEF Undisturbed, ChannelsOf, UsedChannel, Same
  <2> QED BY <1>2, <1>3, <2>1, GoodStill
<1>4. CASE Attached(p)
  BY <1>3, <1>4 DEF AttachPin, books
<1>5. CASE ~Attached(p) /\ Fits(u.freq) = {}
  BY <1>3, <1>5 DEF AttachPin, Halt, books
<1>6. CASE ~Attached(p) /\ Fits(u.freq) # {}
  <2>1. Takes(p, u, Stale) /\ Asks(p, Attach(u))
    BY <1>1, <1>2, <1>6 DEF AttachPin, Takes, Allocate
  <2>2. Stale \in Duty /\ NewOrder(p, u, Stale, Attach(u))
    BY DEF Duty, NewOrder
  <2> QED BY <1>1, <1>2, <2>1, <2>2, GoodTake
<1> QED BY <1>4, <1>5, <1>6

(* Whatever the call, the pins do as they were told before and after it.   *)
LEMMA GoodStep ==
  FixedTones /\ IInv /\ Kept /\ Told /\ Linked /\ [ServoNext]_servoVars => Told' /\ Linked'
<1> SUFFICES ASSUME FixedTones, IInv, Kept, Told, Linked, [ServoNext]_servoVars
             PROVE  Told' /\ Linked'
  OBVIOUS
<1>1. ASSUME ChannelUsed' = ChannelUsed, asked' = asked, UNCHANGED <<servo, reattach, told>>
      PROVE  Told' /\ Linked'
  <2>1. \A q \in Pin : Undisturbed(q)
    BY <1>1 DEF Undisturbed, ChannelsOf, UsedChannel, Same
  <2> QED BY <1>1, <2>1, GoodStill
<1>2. ASSUME NEW t \in Timer, AllocateTimer(t), UNCHANGED <<servo, reattach, told>>
      PROVE  Told' /\ Linked'
  BY <1>1, <1>2 DEF AllocateTimer
<1>3. ASSUME NEW p \in TonePin, NoTone(p), UNCHANGED <<servo, reattach, told>>, reattach = None
      PROVE  Told' /\ Linked'
  BY <1>3, GoodRelease DEF NoTone, Pin
<1>4. ASSUME halted = 0, NEW p \in TonePin, NEW f \in ToneFreq[p], ToneStart(p, f),
             UNCHANGED <<servo, reattach, told>>, reattach = None
      PROVE  Told' /\ Linked'
  <2>1. CASE Fits(f) = {}
    BY <1>1, <1>4, <2>1 DEF ToneStart, Halt, books
  <2>2. CASE Fits(f) # {}
    <3>1. PICK u \in Use(p) : u.freq = f /\ u.bits = ToneBits
      BY ToneUse
    <3>2. Takes(p, u, Half) /\ Asks(p, Sound(f))
      BY <1>4, <2>2, <3>1, HardwareAssumption, ZenonT(60) DEF ToneStart, Takes, Allocate
    <3>3. Half \in Duty /\ NewOrder(p, u, Half, Sound(f)) /\ p \in Pin
      BY <3>1 DEF Duty, NewOrder, Pin
    <3> QED BY <1>4, <3>2, <3>3, GoodTake
  <2> QED BY <2>1, <2>2
<1>5. ASSUME NEW p \in TonePin, NEW f \in ToneFreq[p], ToneChange(p, f),
             UNCHANGED <<servo, reattach, told>>, reattach = None
      PROVE  Told' /\ Linked'
  <2>1. UsedChannel' = UsedChannel /\ \A d \in UsedChannel : Same(d)
    BY <1>5, SameTone
  <2>2. p \in Pin /\ p \notin ServoPin /\ f \in Freq
    BY ToneUse, HardwareAssumption
  <2>3. \A q \in Pin : Undisturbed(q)
    BY <2>1, StillPins
  <2>4. PICK c \in UsedChannel : ChannelUsed[c].pin = p /\ ChannelsOf(p) = {c}
    BY <1>5, <2>2, TheChannel DEF ToneChange, IInv, Tables
  <2>5. asked'[p] = Sound(f) /\ \A q \in Pin \ {p} : asked'[q] = asked[q]
    BY <1>5, <2>2, Asking DEF ToneChange
  <2>6. UseOf(c) = [freq |-> f, bits |-> ToneBits] /\ ChannelUsed[c].duty = Half
    <3>1. UseOf(c) \in [freq : ToneFreq[p], bits : {ToneBits}] /\ ChannelUsed[c].duty = Half
      BY <2>4, HardwareAssumption DEF Kept, Own, Use
    <3>2. UseOf(c) = [freq |-> UseOf(c).freq, bits |-> ToneBits] /\ UseOf(c).freq \in ToneFreq[p]
      BY <3>1
    <3>3. UseOf(c).freq = f
      BY <3>2 DEF FixedTones
    <3> QED BY <3>1, <3>2, <3>3
  <2>7. c \in ChannelsOf(p)' /\ UseOf(c)' = UseOf(c) /\ ChannelUsed'[c].duty = Half
    BY <2>2, <2>3, <2>4, <2>6 DEF Undisturbed, Same, UseOf
  <2>8. Heeds(p)'
    BY <2>2, <2>5, <2>6, <2>7, Obeys
  <2> QED BY <1>5, <2>2, <2>3, <2>5, <2>8, GoodPins
<1>6. ASSUME NEW p \in WritePin, NEW level \in {Low, High}, WriteDigital(p, level),
             UNCHANGED <<servo, reattach, told>>, reattach = None
      PROVE  Told' /\ Linked'
  BY <1>6, GoodRelease DEF WriteDigital, Pin
<1>7. ASSUME halted = 0, NEW p \in WritePin, NEW v \in Level, WriteWave(p, v),
             UNCHANGED <<servo, reattach, told>>, reattach = None
      PROVE  Told' /\ Linked'
  <2>1. p \in Pin /\ p \notin TonePin /\ p \notin ServoPin /\ v \in Duty
    BY HardwareAssumption DEF Pin, Duty
  <2>2. CASE Attached(p)
    <3>1. ChannelUsed' = [ChannelUsed EXCEPT ![ChannelOf(p)].duty = v] /\ Asks(p, Wave(v))
      BY <1>7, <2>2 DEF WriteWave
    <3>2. /\ \A q \in Pin \ {p} : Undisturbed(q)
          /\ \E c \in ChannelsOf(p)' :
               /\ c \in UsedChannel /\ ChannelsOf(p) = {c} /\ ChannelsOf(p)' = {c}
               /\ UseOf(c)' = UseOf(c) /\ ChannelUsed'[c].duty = v
      BY <2>1, <2>2, <3>1, WrittenPin
    <3>3. PICK c \in ChannelsOf(p)' :
               /\ c \in UsedChannel /\ ChannelsOf(p) = {c} /\ ChannelsOf(p)' = {c}
               /\ UseOf(c)' = UseOf(c) /\ ChannelUsed'[c].duty = v
      BY <3>2
    <3>4. UseOf(c) = [freq |-> WriteFreq, bits |-> WriteBits]
      <4>1. ChannelUsed[c].pin = p
        BY <3>3 DEF ChannelsOf
      <4>2. UseOf(c) \in [freq : {WriteFreq}, bits : {WriteBits}]
        BY <2>1, <3>3, <4>1 DEF Kept, Own, Use
      <4> QED BY <4>2
    <3>5. asked'[p] = Wave(v) /\ \A q \in Pin \ {p} : asked'[q] = asked[q]
      BY <2>1, <3>1, Asking
    <3>6. Heeds(p)'
      BY <2>1, <3>3, <3>4, <3>5, Obeys
    <3> QED BY <1>7, <2>1, <3>2, <3>5, <3>6, GoodPins
  <2>3. CASE ~Attached(p) /\ Fits(WriteFreq) = {}
    BY <1>1, <1>7, <2>3 DEF WriteWave, Halt, books
  <2>4. CASE ~Attached(p) /\ Fits(WriteFreq) # {}
    <3>1. PICK u \in Use(p) : u.freq = WriteFreq /\ u.bits = WriteBits
      BY WriteUse
    <3>2. Takes(p, u, v) /\ Asks(p, Wave(v))
      BY <1>7, <2>1, <2>4, <3>1 DEF WriteWave, Takes, Allocate
    <3>3. NewOrder(p, u, v, Wave(v))
      BY DEF NewOrder
    <3> QED BY <1>7, <2>1, <3>2, <3>3, GoodTake
  <2> QED BY <2>2, <2>3, <2>4
<1>8. ASSUME halted = 0, NEW p \in ServoPin, ServoAttach(p), reattach = None
      PROVE  Told' /\ Linked'
  <2> DEFINE u == IF Attached(p) THEN servo[p] ELSE [servo[p] EXCEPT !.bits = DefaultBits]
  <2>1. u \in ServoUse[p] /\ (Attached(p) => u = servo[p])
    BY DefaultAssumption DEF IInv, ServoType
  <2>2. AttachPin(p, u) /\ servo' = [servo EXCEPT ![p] = u] /\ reattach' = None
    BY <1>8 DEF ServoAttach
  <2> HIDE DEF u
  <2> QED BY <1>8, <2>1, <2>2, GoodAttach
<1>9. ASSUME NEW p \in ServoPin, ServoDetach(p), reattach = None
      PROVE  Told' /\ Linked'
  BY <1>9, GoodRelease DEF ServoDetach, Pin
<1>10. ASSUME NEW p \in ServoPin, NEW v \in Level, ServoWrite(p, v), reattach = None
       PROVE  Told' /\ Linked'
  <2>1. p \in Pin /\ v \in Duty /\ UNCHANGED <<servo, reattach>>
    BY <1>10 DEF Pin, Duty, ServoWrite
  <2>2. CASE Attached(p)
    <3>1. /\ ChannelUsed' = [ChannelUsed EXCEPT ![ChannelOf(p)].duty = v]
          /\ Asks(p, Pulse(servo[p], v))
      BY <1>10, <2>2 DEF ServoWrite
    <3>2. /\ \A q \in Pin \ {p} : Undisturbed(q)
          /\ \E c \in ChannelsOf(p)' :
               /\ c \in UsedChannel /\ ChannelsOf(p) = {c} /\ ChannelsOf(p)' = {c}
               /\ UseOf(c)' = UseOf(c) /\ ChannelUsed'[c].duty = v
      BY <2>1, <2>2, <3>1, WrittenPin
    <3>3. PICK c \in ChannelsOf(p)' :
               /\ c \in UsedChannel /\ ChannelsOf(p) = {c} /\ ChannelsOf(p)' = {c}
               /\ UseOf(c)' = UseOf(c) /\ ChannelUsed'[c].duty = v
      BY <3>2
    <3>4. UseOf(c)' = servo[p] /\ servo'[p] = servo[p]
      BY <2>1, <3>3 DEF Linked
    <3>5. asked'[p] = Pulse(servo[p], v) /\ \A q \in Pin \ {p} : asked'[q] = asked[q]
      BY <2>1, <3>1, Asking
    <3>6. Heeds(p)'
      BY <2>1, <3>3, <3>4, <3>5, Obeys
    <3>7. \A d \in ChannelsOf(p)' : UseOf(d)' = servo'[p]
      <4>1. \A d \in ChannelsOf(p)' : d = c
        BY <3>3
      <4> QED BY <3>4, <4>1
    <3> QED BY <1>10, <2>1, <3>2, <3>5, <3>6, <3>7, GoodPins
  <2>3. CASE ~Attached(p)
    BY <1>1, <1>10, <2>1, <2>3 DEF ServoWrite
  <2> QED BY <2>2, <2>3
<1>11. ASSUME NEW p \in ServoPin, NEW u \in ServoUse[p],
              SetTimerWidth(p, u) \/ SetPeriodHertz(p, u), reattach = None
       PROVE  Told' /\ Linked'
  <2>1. servo' = [servo EXCEPT ![p] = u] /\ \A q \in ServoPin \ {p} : servo'[q] = servo[q]
    BY <1>11 DEF SetTimerWidth, SetPeriodHertz, SetTimer, IInv, ServoType
  <2>2. CASE Attached(p)
    <3>1. Deallocate(ChannelOf(p)) /\ Asks(p, Low) /\ reattach' = p
      BY <1>11, <2>2 DEF SetTimerWidth, SetPeriodHertz, SetTimer
    <3> QED BY <2>1, <2>2, <3>1, GoodRelease DEF Pin
  <2>3. CASE ~Attached(p)
    <3>1. ChannelUsed' = ChannelUsed /\ asked' = asked /\ reattach' = reattach
      BY <1>11, <2>3 DEF SetTimerWidth, SetPeriodHertz, SetTimer, vars, books
    <3>2. \A q \in Pin : Undisturbed(q)
      BY <3>1 DEF Undisturbed, ChannelsOf, UsedChannel, Same
    <3> QED BY <2>1, <2>3, <3>1, <3>2, GoodStill
  <2> QED BY <2>2, <2>3
<1>12. ASSUME halted = 0, Reattach PROVE Told' /\ Linked'
  <2>1. PICK p \in ServoPin : p = reattach
    BY <1>12 DEF Reattach, IInv, ServoType
  <2>2. servo[p] \in ServoUse[p] /\ AttachPin(p, servo[p]) /\ servo' = [servo EXCEPT ![p] = servo[p]]
    BY <1>12, <2>1 DEF Reattach, IInv, ServoType
  <2> QED BY <1>12, <2>1, <2>2, GoodAttach DEF Reattach
<1>13. CASE halted = 0 /\ (reattach = None \/ Reattach) /\ Steps
  <2>1. CASE Reattach
    BY <1>12, <1>13, <2>1
  <2>2. CASE reattach = None
    BY <1>2, <1>3, <1>4, <1>5, <1>6, <1>7, <1>8, <1>9, <1>10, <1>11, <1>12, <1>13, <2>2, Zenon
       DEF Steps
  <2> QED BY <1>13, <2>1, <2>2
<1>14. CASE ServoRestart
  <2>1. UsedChannel' = {} /\ asked' = [p \in Pin |-> Low] /\ reattach' = None
    BY <1>14 DEF ServoRestart, Restart, UsedChannel
  <2>2. ASSUME NEW p \in Pin PROVE ChannelsOf(p)' = {} /\ Heeds(p)'
    BY <2>1 DEF ChannelsOf, Heeds, Attached
  <2>3. \A p \in ServoPin : ChannelsOf(p)' = {}
    BY <2>2 DEF Pin
  <2> QED BY <2>1, <2>2, <2>3 DEF Told, Linked
<1>15. CASE UNCHANGED servoVars
  BY <1>1, <1>15 DEF servoVars, vars, books
<1> QED BY <1>13, <1>14, <1>15, StepCases

-----------------------------------------------------------------------------
(* The channels keep to their timers.                                      *)

\* A channel that is as it was is used as its pin may be.
LEMMA OwnSame ==
  ASSUME Own, NEW d \in UsedChannel, Same(d)
  PROVE  /\ UseOf(d)' \in Use(ChannelUsed'[d].pin)
         /\ ChannelUsed'[d].pin \in TonePin => ChannelUsed'[d].duty = Half
<1>1. UseOf(d)' = UseOf(d)
  BY DEF Same, UseOf
<1> QED BY <1>1 DEF Same, Own

(* A pin whose frequency is used at one resolution only has it as well     *)
(* when another pin set the hardware timer up for that frequency.          *)
LEMMA SharedTimer ==
  ASSUME NEW p \in Pin, NEW u \in Use(p), NEW q \in Pin \ {p}, NEW w \in Use(q),
         w.freq = u.freq
  PROVE  Alone(q, w.freq, w.bits) => u.bits = w.bits
<1>1. p \in Pin \ {q}
  OBVIOUS
<1> QED BY <1>1 DEF Alone

(* A new channel keeps to its timer, and leaves the hardware timer right for *)
(* the channels it shares it with.                                         *)
LEMMA TakesKept ==
  ASSUME IInv, Kept, NEW p \in Pin, NEW u \in Use(p), NEW duty \in Duty, Takes(p, u, duty)
  PROVE  Kept'
<1>1. PICK c \in Channel \ UsedChannel :
           /\ UsedChannel' = UsedChannel \cup {c}
           /\ ChannelUsed'[c] = [pin |-> p, myFreq |-> u.freq, bits |-> u.bits, duty |-> duty]
           /\ \A d \in UsedChannel : Same(d)
           /\ \A t \in Timer : timerFreqSet'[t] = IF t = c[1] THEN u.freq ELSE timerFreqSet[t]
           /\ \A d \in UsedChannel : d[1] = c[1] => ChannelUsed[d].myFreq = u.freq
           /\ ledc' = [ledc EXCEPT ![LedcOf(c)] = [freq |-> u.freq, bits |-> u.bits]]
  BY AllocateSame
<1>2. /\ ChannelUsed'[c].pin = p /\ ChannelUsed'[c].duty = duty
      /\ ChannelUsed'[c].myFreq = u.freq /\ ChannelUsed'[c].bits = u.bits
      /\ c[1] \in Timer
  BY <1>1 DEF Channel
<1>3. \A d \in UsedChannel : d \in Channel /\ d[1] \in Timer /\ ChannelUsed[d].pin \in Pin
  BY UsedSo DEF IInv, Object
<1>4. OnePitch'
  BY <1>1, <1>2, <1>3 DEF Kept, OnePitch, Same
<1>5. Own'
  <2>1. UseOf(c)' = u
    BY <1>2, UseType DEF UseOf
  <2>2. ASSUME NEW d \in UsedChannel'
        PROVE  /\ UseOf(d)' \in Use(ChannelUsed'[d].pin)
               /\ ChannelUsed'[d].pin \in TonePin => ChannelUsed'[d].duty = Half
    <3>1. CASE d = c
      BY <1>2, <2>1, <3>1 DEF Takes
    <3>2. CASE d \in UsedChannel
      BY <1>1, <3>2, OwnSame DEF Kept
    <3> QED BY <1>1, <3>1, <3>2
  <2> QED BY <2>2 DEF Own
<1>6. LedcOf(c) \in LedcTimer /\ \A d \in UsedChannel : LedcOf(d) \in LedcTimer
  BY <1>1, <1>3, LedcType
<1>7. \A l \in LedcTimer :
        ledc'[l] = IF l = LedcOf(c) THEN [freq |-> u.freq, bits |-> u.bits] ELSE ledc[l]
  BY <1>1, <1>6, TypeOfTables DEF IInv, TablesType
<1>8. Tended'
  <2> SUFFICES ASSUME NEW d \in UsedChannel'
               PROVE  /\ ledc'[LedcOf(d)].freq = ChannelUsed'[d].myFreq
                      /\ Alone(ChannelUsed'[d].pin, ChannelUsed'[d].myFreq, ChannelUsed'[d].bits)
                           => ledc'[LedcOf(d)].bits = ChannelUsed'[d].bits
    BY DEF Tended, PutsOut
  <2>1. CASE d = c
    BY <1>2, <1>6, <1>7, <2>1
  <2>2. CASE d \in UsedChannel /\ LedcOf(d) # LedcOf(c)
    BY <1>1, <1>6, <1>7, <2>2 DEF Kept, Tended, PutsOut, Same
  <2>3. CASE d \in UsedChannel /\ LedcOf(d) = LedcOf(c)
    <3>1. d[1] = c[1]
      BY <2>3 DEF LedcOf
    <3>2. ChannelUsed[d].myFreq = u.freq /\ ChannelUsed[d].pin \in Pin \ {p}
      BY <1>1, <1>3, <2>3, <3>1 DEF Takes, Attached, ChannelsOf
    <3>3. UseOf(d) \in Use(ChannelUsed[d].pin) /\ UseOf(d).freq = u.freq
          /\ UseOf(d).bits = ChannelUsed[d].bits
      BY <2>3, <3>2 DEF Kept, Own, UseOf
    <3>4. Alone(ChannelUsed[d].pin, u.freq, ChannelUsed[d].bits) => u.bits = ChannelUsed[d].bits
      BY <3>2, <3>3, SharedTimer
    <3> QED BY <1>1, <1>6, <1>7, <2>3, <3>2, <3>4 DEF Same
  <2> QED BY <1>1, <2>1, <2>2, <2>3
<1> QED BY <1>4, <1>5, <1>8 DEF Kept

(* A channel that goes takes the timer's frequency along only as the last one. *)
LEMMA DeallocateKept ==
  ASSUME IInv, Tables', Kept, NEW c \in UsedChannel, Deallocate(c)
  PROVE  Kept'
<1>1. /\ UsedChannel' = UsedChannel \ {c}
      /\ \A d \in UsedChannel \ {c} : ChannelUsed'[d] = ChannelUsed[d]
      /\ \A v \in Timer : Used(v)' = IF v = c[1] THEN Used(v) \ {c[2]} ELSE Used(v)
  BY DeallocateSo DEF IInv
<1>2. ledc' = ledc
  BY DEF Deallocate
<1>3. ASSUME NEW d \in UsedChannel \ {c} PROVE timerFreqSet'[d[1]] = timerFreqSet[d[1]]
  <2>1. d[1] \in Timer /\ c[1] \in Timer /\ d = <<d[1], d[2]>> /\ c = <<c[1], c[2]>>
        /\ d[2] \in Used(d[1])
    BY UsedSo DEF IInv
  <2>2. Used(d[1])' # {}
    BY <1>1, <2>1
  <2>3. timerFreqSet'[d[1]] # -1
    BY <2>1, <2>2 DEF Tables, Tuned
  <2>4. timerFreqSet' = [timerFreqSet EXCEPT ![c[1]] = -1] \/ timerFreqSet' = timerFreqSet
    BY DEF Deallocate
  <2>5. timerFreqSet \in [Timer -> Freq \cup {-1}]
    BY TypeOfTables DEF IInv, TablesType
  <2> QED BY <2>1, <2>3, <2>4, <2>5
<1>4. OnePitch'
  BY <1>1, <1>3 DEF Kept, OnePitch
<1>5. \A d \in UsedChannel \ {c} : Same(d)
  BY <1>1 DEF Same
<1>6. Own'
  BY <1>1, <1>5, OwnSame DEF Kept, Own
<1>7. Tended'
  BY <1>1, <1>2 DEF Kept, Tended, PutsOut
<1> QED BY <1>4, <1>6, <1>7 DEF Kept

(* Attaching an attached Servo sets the hardware timer up again, for the   *)
(* frequency that the channels on it have.                                 *)
LEMMA RigsKept ==
  ASSUME IInv, ServoType', Linked', Kept, NEW p \in ServoPin, Rigs(p)
  PROVE  Kept'
<1>1. UNCHANGED <<ChannelUsed, timerFreqSet>> /\ UsedChannel' = UsedChannel
  BY DEF Rigs, books, UsedChannel
<1>2. PICK c \in UsedChannel : c = ChannelOf(p) /\ ChannelUsed[c].pin = p
  BY TheChannel DEF IInv, Tables, Rigs, Pin
<1>3. PICK u \in Use(p) : u = servo'[p] /\ p \in Pin
  BY ServoUses DEF ServoType
<1>4. UseOf(c) = u
  <2>1. c \in ChannelsOf(p)'
    BY <1>1, <1>2 DEF ChannelsOf
  <2>2. UseOf(c)' = u
    BY <1>3, <2>1 DEF Linked
  <2> QED BY <1>1, <2>2 DEF UseOf
<1>5. ledc' = [ledc EXCEPT ![LedcOf(c)] = u]
  BY <1>2, <1>3 DEF Rigs
<1>6. \A d \in UsedChannel : d \in Channel /\ ChannelUsed[d].pin \in Pin /\ LedcOf(d) \in LedcTimer
  BY UsedSo, LedcType DEF IInv, Object
<1>7. \A l \in LedcTimer : ledc'[l] = IF l = LedcOf(c) THEN u ELSE ledc[l]
  BY <1>5, <1>6, TypeOfTables DEF IInv, TablesType
<1>8. Tended'
  <2> SUFFICES ASSUME NEW d \in UsedChannel
               PROVE  /\ ledc'[LedcOf(d)].freq = ChannelUsed[d].myFreq
                      /\ Alone(ChannelUsed[d].pin, ChannelUsed[d].myFreq, ChannelUsed[d].bits)
                           => ledc'[LedcOf(d)].bits = ChannelUsed[d].bits
    BY <1>1 DEF Tended, PutsOut
  <2>1. CASE d = c
    BY <1>4, <1>6, <1>7, <2>1 DEF UseOf
  <2>2. CASE LedcOf(d) # LedcOf(c)
    BY <1>6, <1>7, <2>2 DEF Kept, Tended, PutsOut
  <2>3. CASE d # c /\ LedcOf(d) = LedcOf(c)
    <3>1. d[1] = c[1]
      BY <2>3 DEF LedcOf
    <3>2. ChannelUsed[d].myFreq = ChannelUsed[c].myFreq
      BY <3>1 DEF Kept, OnePitch
    <3>3. ChannelUsed[d].pin \in Pin \ {p}
      BY <1>2, <1>6, <2>3 DEF IInv, Tables, OneEach
    <3>4. UseOf(d) \in Use(ChannelUsed[d].pin) /\ UseOf(d).freq = u.freq
          /\ UseOf(d).bits = ChannelUsed[d].bits /\ ChannelUsed[d].myFreq = u.freq
      BY <1>4, <3>2 DEF Kept, Own, UseOf
    <3>5. Alone(ChannelUsed[d].pin, u.freq, ChannelUsed[d].bits) => u.bits = ChannelUsed[d].bits
      BY <1>3, <3>3, <3>4, SharedTimer
    <3> QED BY <1>6, <1>7, <2>3, <3>4, <3>5
  <2> QED BY <2>1, <2>2, <2>3
<1>9. OnePitch' /\ Own'
  BY <1>1 DEF Kept, OnePitch, Own, UseOf
<1> QED BY <1>8, <1>9 DEF Kept

(* Where channels and timers stay, they keep to each other.                *)
LEMMA StillKept ==
  ASSUME Kept, UsedChannel' = UsedChannel, \A d \in UsedChannel : Same(d),
         UNCHANGED <<timerFreqSet, ledc>>
  PROVE  Kept'
<1>1. OnePitch' /\ Tended'
  BY DEF Kept, OnePitch, Tended, PutsOut, Same
<1>2. Own'
  BY OwnSame DEF Kept, Own
<1> QED BY <1>1, <1>2 DEF Kept

(* Whatever the effect, channels keep to their timers.                     *)
LEMMA KeptStep ==
  FixedTones /\ IInv /\ IInv' /\ Kept /\ Linked' /\ [ServoNext]_servoVars => Kept'
<1> SUFFICES ASSUME FixedTones, IInv, IInv', Kept, Linked', [ServoNext]_servoVars PROVE Kept'
  OBVIOUS
<1>0. ServoType' /\ Tables'
  BY DEF IInv
<1>1. ASSUME NEW p \in Pin, NEW u \in Use(p), NEW duty \in Duty, Takes(p, u, duty) PROVE Kept'
  BY <1>1, TakesKept
<1>2. ASSUME NEW c \in UsedChannel, Deallocate(c) PROVE Kept'
  BY <1>0, <1>2, DeallocateKept
<1>3. ASSUME NEW p \in TonePin, NEW f \in ToneFreq[p], ToneChange(p, f) PROVE Kept'
  BY <1>3, SameTone, StillKept
<1>4. ASSUME NEW c \in UsedChannel, NEW v \in Duty, Writes(c, v) PROVE Kept'
  <2>1. /\ ChannelUsed' = [ChannelUsed EXCEPT ![c].duty = v] /\ ChannelUsed[c].pin \notin TonePin
        /\ UNCHANGED <<timerFreqSet, ledc>>
    BY <1>4 DEF Writes
  <2>2. /\ \A d \in Channel : ChannelUsed'[d] = NoObject <=> ChannelUsed[d] = NoObject
        /\ \A d \in UsedChannel :
             /\ ChannelUsed'[d].pin = ChannelUsed[d].pin
             /\ ChannelUsed'[d].myFreq = ChannelUsed[d].myFreq
             /\ ChannelUsed'[d].bits = ChannelUsed[d].bits
             /\ ChannelUsed'[d].duty = IF d = c THEN v ELSE ChannelUsed[d].duty
    BY <2>1, WriteSo DEF IInv, Duty
  <2>3. UsedChannel' = UsedChannel
    BY <2>2 DEF UsedChannel
  <2>4. OnePitch' /\ Tended'
    BY <2>1, <2>2, <2>3 DEF Kept, OnePitch, Tended, PutsOut
  <2>5. Own'
    <3>1. \A d \in UsedChannel : UseOf(d)' = UseOf(d)
      BY <2>2 DEF UseOf
    <3> QED BY <2>1, <2>2, <2>3, <3>1 DEF Kept, Own
  <2> QED BY <2>4, <2>5 DEF Kept
<1>5. ASSUME NEW p \in ServoPin, Rigs(p) PROVE Kept'
  BY <1>0, <1>5, RigsKept
<1>6. ASSUME UNCHANGED <<ChannelUsed, timerFreqSet, ledc>> PROVE Kept'
  <2>1. UsedChannel' = UsedChannel /\ \A d \in UsedChannel : Same(d)
    BY <1>6 DEF UsedChannel, Same
  <2> QED BY <1>6, <2>1, StillKept
<1>7. CASE Restart
  <2>1. UsedChannel' = {}
    BY <1>7 DEF Restart, UsedChannel
  <2> QED BY <2>1 DEF Kept, OnePitch, Own, Tended
<1>8. Effect
  BY Effects DEF IInv
<1> QED BY <1>1, <1>2, <1>3, <1>4, <1>5, <1>6, <1>7, <1>8, Zenon
        DEF Effect, AllocateTimer, Halts, books

-----------------------------------------------------------------------------
(* The theorems.                                                           *)

(* The processor is halted only where nothing fits, and stays so.          *)
LEMMA StuckStep == IInv /\ Stuck /\ [ServoNext]_servoVars => Stuck'
<1> SUFFICES ASSUME IInv, Stuck, [ServoNext]_servoVars PROVE Stuck'
  OBVIOUS
<1>1. ASSUME NEW f, Fits(f) = {}, UNCHANGED books PROVE Fits(f)' = {}
  BY <1>1 DEF Fits, Used, books
<1>2. CASE halted # 0
  <2>1. CASE ServoRestart
    BY <2>1 DEF ServoRestart, Restart, Stuck
  <2>2. CASE UNCHANGED servoVars
    BY <1>1, <2>2 DEF servoVars, vars, Stuck
  <2> QED BY <1>2, <2>1, <2>2, StepCases
<1>3. CASE halted = 0
  <2>1. ASSUME halted' = 0 PROVE Stuck'
    BY <2>1 DEF Stuck
  <2>2. ASSUME NEW f \in Freq, Halts(f) PROVE Stuck'
    <3>1. halted' = f /\ Fits(f)' = {}
      BY <1>1, <2>2 DEF Halts
    <3> QED BY <3>1 DEF Stuck
  <2>3. (\E f \in Freq : Halts(f)) \/ halted' = 0
    BY <1>3, Effects DEF IInv, Effect, Takes, Deallocate, AllocateTimer, ToneChange, Writes, Rigs,
                        Restart
  <2> QED BY <2>1, <2>2, <2>3
<1> QED BY <1>2, <1>3

(* The invariant of pins with fixed tones holds at the start ...           *)
LEMMA FixedInit == ServoInit => FixedInv
<1> SUFFICES ASSUME ServoInit PROVE FixedInv
  OBVIOUS
<1>1. IInv
  BY InvInit
<1>2. UsedChannel = {} /\ asked = [p \in Pin |-> Low] /\ reattach = None /\ halted = 0
  BY DEF ServoInit, Init, UsedChannel
<1>3. \A p \in Pin : ChannelsOf(p) = {} /\ Heeds(p)
  BY <1>2 DEF ChannelsOf, Heeds, Attached
<1>4. \A p \in ServoPin : ChannelsOf(p) = {}
  BY <1>3 DEF Pin
<1>5. Kept
  BY <1>2 DEF Kept, OnePitch, Own, Tended
<1> QED BY <1>1, <1>2, <1>3, <1>4, <1>5 DEF FixedInv, Linked, Told, Stuck

(* ... every step keeps it ...                                             *)
LEMMA FixedStep == FixedTones /\ FixedInv /\ [ServoNext]_servoVars => FixedInv'
<1> SUFFICES ASSUME FixedTones, FixedInv, [ServoNext]_servoVars PROVE FixedInv'
  OBVIOUS
<1>1. IInv'
  BY InvStep DEF FixedInv
<1>2. Told' /\ Linked'
  BY GoodStep DEF FixedInv
<1>3. Kept'
  BY <1>1, <1>2, KeptStep DEF FixedInv
<1>4. Stuck'
  BY StuckStep DEF FixedInv
<1> QED BY <1>1, <1>2, <1>3, <1>4 DEF FixedInv

(* ... and it holds always.                                                *)
LEMMA FixedCorrect == FixedTones => (ServoSpec => []FixedInv)
<1>1. SUFFICES ASSUME FixedTones PROVE ServoSpec => []FixedInv
  OBVIOUS
<1>2. ServoInit => FixedInv
  BY FixedInit
<1>3. FixedInv /\ [ServoNext]_servoVars => FixedInv'
  BY <1>1, FixedStep
<1> QED BY <1>2, <1>3, PTL DEF ServoSpec

\* What the caller has set a Servo to is what the class keeps, and what it
\* wrote is what the pin was last told.
Set == [freq : Nat, bits : Nat, pulse : Level \cup {Stale}]
ToldSo ==
  /\ told \in [ServoPin -> Set]
  /\ \A p \in ServoPin :
       /\ servo[p] = [freq |-> told[p].freq, bits |-> Width(p)]
       /\ told[p].pulse # Stale => asked[p] \in {Low, Pulse(servo[p], told[p].pulse)}
  /\ \A p \in ServoPin : reattach = p => told[p].pulse = Stale

(* A call on Servo p leaves the others as the caller set them.             *)
LEMMA ToldOther ==
  ASSUME ToldSo, NEW p \in ServoPin, NEW u, NEW n \in Set,
         servo' = [servo EXCEPT ![p] = u], told' = [told EXCEPT ![p] = n],
         u = [freq |-> n.freq, bits |-> IF n.bits = 0 THEN DefaultBits ELSE n.bits],
         n.pulse # Stale => asked'[p] \in {Low, Pulse(u, n.pulse)},
         \A q \in ServoPin \ {p} : asked'[q] = asked[q],
         reattach' = None \/ (reattach' = p /\ n.pulse = Stale),
         None \notin ServoPin,
         servo \in [ServoPin -> [freq : Nat \ {0}, bits : 16 .. 20]]
  PROVE  ToldSo'
<1>1. told' \in [ServoPin -> Set] /\ told'[p] = n /\ servo'[p] = u
  BY DEF ToldSo
<1>2. \A q \in ServoPin \ {p} : told'[q] = told[q] /\ servo'[q] = servo[q] /\ Width(q)' = Width(q)
  BY DEF ToldSo, Width
<1>3. Width(p)' = IF n.bits = 0 THEN DefaultBits ELSE n.bits
  BY <1>1 DEF Width
<1>4. ASSUME NEW q \in ServoPin
      PROVE  /\ servo'[q] = [freq |-> told'[q].freq, bits |-> Width(q)']
             /\ told'[q].pulse # Stale => asked'[q] \in {Low, Pulse(servo'[q], told'[q].pulse)}
             /\ reattach' = q => told'[q].pulse = Stale
  <2>1. CASE q = p
    BY <1>1, <1>3, <2>1
  <2>2. CASE q # p
    BY <1>2, <2>2 DEF ToldSo
  <2> QED BY <2>1, <2>2
<1> QED BY <1>1, <1>4 DEF ToldSo

(* Calls that change nothing of the Servos.                                *)
LEMMA ToldStill ==
  ASSUME ToldSo, servo' = servo, told' = told, reattach' \in {reattach, None}, None \notin ServoPin,
         \A q \in ServoPin : asked'[q] = asked[q]
  PROVE  ToldSo'
<1>1. \A q \in ServoPin : Width(q)' = Width(q)
  BY DEF Width
<1> QED BY <1>1 DEF ToldSo

(* The caller's settings and the class's own agree at the start ...        *)
LEMMA ToldInit == ServoInit => ToldSo
<1> SUFFICES ASSUME ServoInit PROVE ToldSo
  OBVIOUS
<1>1. Untold \in Set
  BY DEF Untold, Set, Default, DefaultBits
<1>2. ASSUME NEW p \in ServoPin PROVE told[p] = Untold /\ servo[p] = Default /\ Width(p) = DefaultBits
  BY DEF ServoInit, Width, Untold
<1>3. told \in [ServoPin -> Set] /\ \A p \in ServoPin : reattach # p
  BY <1>1, DefaultAssumption DEF ServoInit
<1> QED BY <1>2, <1>3 DEF ToldSo, Untold, Default

(* ... and every step keeps it so.                                         *)
LEMMA ToldStep == IInv /\ ToldSo /\ [ServoNext]_servoVars => ToldSo'
<1> SUFFICES ASSUME IInv, ToldSo, [ServoNext]_servoVars PROVE ToldSo'
  OBVIOUS
<1>0. /\ servo \in [ServoPin -> [freq : Nat \ {0}, bits : 16 .. 20]] /\ None \notin ServoPin
      /\ told \in [ServoPin -> Set] /\ ServoPin \subseteq Pin
      /\ ServoPin \cap TonePin = {} /\ ServoPin \cap WritePin = {}
  BY DefaultAssumption, HardwareAssumption DEF IInv, ServoType, ToldSo, Pin
<1>1. ASSUME NEW p \in Pin, NEW w, Asks(p, w)
      PROVE  asked'[p] = w /\ \A q \in Pin \ {p} : asked'[q] = asked[q]
  BY <1>1, Asking
<1>2. ASSUME NEW p \in Pin, p \notin ServoPin, NEW w, Asks(p, w) \/ UNCHANGED asked
      PROVE  \A q \in ServoPin : asked'[q] = asked[q]
  BY <1>0, <1>1, <1>2
<1>3. ASSUME NEW p \in ServoPin, NEW u, AttachPin(p, u)
      PROVE  /\ \A q \in ServoPin \ {p} : asked'[q] = asked[q]
             /\ Attached(p) => asked' = asked
  <2>1. Asks(p, Attach(u)) \/ asked' = asked
    BY <1>3 DEF AttachPin, Halt
  <2>2. Attached(p) => asked' = asked
    BY <1>3 DEF AttachPin
  <2> QED BY <1>0, <1>1, <2>1, <2>2
<1>4. ASSUME NEW p \in ServoPin, ServoAttach(p), reattach = None PROVE ToldSo'
  <2>1. CASE Attached(p)
    <3>1. servo' = servo /\ told' = told /\ reattach' = reattach /\ AttachPin(p, servo[p])
      BY <1>0, <1>4, <2>1 DEF ServoAttach
    <3> QED BY <1>0, <1>3, <2>1, <3>1, ToldStill
  <2>2. CASE ~Attached(p)
    <3> DEFINE n == [freq |-> told[p].freq, bits |-> 0, pulse |-> Stale]
               u == [freq |-> servo[p].freq, bits |-> DefaultBits]
    <3>1. n \in Set /\ told' = [told EXCEPT ![p] = n]
      <4>1. told' = [told EXCEPT ![p] = n]
        BY <1>4, <2>2 DEF ServoAttach
      <4>2. n \in Set
        BY <1>0 DEF Set
      <4> QED BY <4>1, <4>2
    <3>2. servo' = [servo EXCEPT ![p] = u] /\ reattach' = None /\ AttachPin(p, u)
      <4>1. [servo[p] EXCEPT !.bits = DefaultBits] = u
        BY <1>0
      <4>2. /\ AttachPin(p, [servo[p] EXCEPT !.bits = DefaultBits]) /\ reattach' = reattach
            /\ servo' = [servo EXCEPT ![p] = [servo[p] EXCEPT !.bits = DefaultBits]]
        BY <1>4, <2>2 DEF ServoAttach
      <4> QED BY <1>4, <4>1, <4>2
    <3>3. u.freq = n.freq /\ u = [freq |-> n.freq, bits |-> IF n.bits = 0 THEN DefaultBits ELSE n.bits]
      BY <1>0 DEF ToldSo
    <3>4. n.pulse = Stale
      OBVIOUS
    <3> HIDE DEF n, u
    <3>5. \A q \in ServoPin \ {p} : asked'[q] = asked[q]
      BY <1>3, <3>2
    <3> QED BY <1>0, <3>1, <3>2, <3>3, <3>4, <3>5, ToldOther
  <2> QED BY <2>1, <2>2
<1>5. ASSUME NEW p \in ServoPin, ServoDetach(p), reattach = None PROVE ToldSo'
  <2>1. told' = told /\ servo' = servo /\ reattach' = None /\ Asks(p, Low)
    BY <1>5 DEF ServoDetach
  <2>2. asked'[p] = Low /\ \A q \in ServoPin \ {p} : asked'[q] = asked[q]
    BY <1>0, <1>1, <2>1
  <2>3. \A q \in ServoPin : Width(q)' = Width(q) /\ reattach' # q
    BY <1>0, <2>1 DEF Width
  <2> QED BY <2>1, <2>2, <2>3 DEF ToldSo
<1>6. ASSUME NEW p \in ServoPin, NEW v \in Level, ServoWrite(p, v), reattach = None PROVE ToldSo'
  <2>1. CASE Attached(p)
    <3> DEFINE n == [freq |-> told[p].freq, bits |-> told[p].bits, pulse |-> v]
    <3>1. n \in Set /\ told' = [told EXCEPT ![p] = n]
      BY <1>0, <1>6, <2>1 DEF ServoWrite, Set
    <3>2. servo' = [servo EXCEPT ![p] = servo[p]] /\ reattach' = None /\ Asks(p, Pulse(servo[p], v))
      BY <1>0, <1>6, <2>1 DEF ServoWrite
    <3>3. servo[p] = [freq |-> n.freq, bits |-> IF n.bits = 0 THEN DefaultBits ELSE n.bits]
      BY DEF ToldSo, Width
    <3>4. n.pulse = v
      OBVIOUS
    <3> HIDE DEF n
    <3>5. asked'[p] = Pulse(servo[p], n.pulse) /\ \A q \in ServoPin \ {p} : asked'[q] = asked[q]
      BY <1>0, <1>1, <3>2, <3>4
    <3> QED BY <1>0, <3>1, <3>2, <3>3, <3>5, ToldOther
  <2>2. CASE ~Attached(p)
    BY <1>0, <1>6, <2>2, ToldStill DEF ServoWrite
  <2> QED BY <2>1, <2>2
<1>7. ASSUME NEW p \in ServoPin, NEW u \in ServoUse[p], SetTimer(p, u), reattach = None
      PROVE  /\ servo' = [servo EXCEPT ![p] = u] /\ reattach' \in {None, p}
             /\ \A q \in ServoPin \ {p} : asked'[q] = asked[q]
             /\ u = [freq |-> u.freq, bits |-> u.bits] /\ u.freq \in Nat /\ u.bits \in Nat \ {0}
  <2>1. Asks(p, Low) \/ asked' = asked
    BY <1>7 DEF SetTimer, vars
  <2>2. u \in [freq : Nat \ {0}, bits : 16 .. 20]
    BY HardwareAssumption
  <2>3. servo' = [servo EXCEPT ![p] = u] /\ reattach' \in {None, p}
    BY <1>7 DEF SetTimer
  <2>4. \A q \in ServoPin \ {p} : asked'[q] = asked[q]
    BY <1>0, <1>1, <2>1
  <2> QED BY <2>2, <2>3, <2>4
<1>8. ASSUME NEW p \in ServoPin, NEW u \in ServoUse[p], SetTimerWidth(p, u), reattach = None
      PROVE  ToldSo'
  <2> DEFINE n == [freq |-> told[p].freq, bits |-> u.bits, pulse |-> Stale]
  <2>0. SetTimer(p, u) /\ u.freq = servo[p].freq
    BY <1>8 DEF SetTimerWidth
  <2>4. /\ servo' = [servo EXCEPT ![p] = u] /\ reattach' \in {None, p}
        /\ \A q \in ServoPin \ {p} : asked'[q] = asked[q]
        /\ u = [freq |-> u.freq, bits |-> u.bits] /\ u.freq \in Nat /\ u.bits \in Nat \ {0}
    BY <1>7, <1>8, <2>0
  <2>1. n \in Set /\ told' = [told EXCEPT ![p] = n]
    <3>1. told' = [told EXCEPT ![p] = n]
      BY <1>8 DEF SetTimerWidth
    <3>2. n \in Set
      BY <1>0, <2>4 DEF Set
    <3> QED BY <3>1, <3>2
  <2>2. u = [freq |-> n.freq, bits |-> IF n.bits = 0 THEN DefaultBits ELSE n.bits]
    BY <1>0, <2>0, <2>4 DEF ToldSo
  <2>3. n.pulse = Stale
    OBVIOUS
  <2> HIDE DEF n
  <2> QED BY <1>0, <2>1, <2>2, <2>3, <2>4, ToldOther
<1>9. ASSUME NEW p \in ServoPin, NEW u \in ServoUse[p], SetPeriodHertz(p, u), reattach = None
      PROVE  ToldSo'
  <2> DEFINE n == [freq |-> u.freq, bits |-> told[p].bits, pulse |-> Stale]
  <2>0. SetTimer(p, u) /\ u.bits = servo[p].bits
    BY <1>9 DEF SetPeriodHertz
  <2>4. /\ servo' = [servo EXCEPT ![p] = u] /\ reattach' \in {None, p}
        /\ \A q \in ServoPin \ {p} : asked'[q] = asked[q]
        /\ u = [freq |-> u.freq, bits |-> u.bits] /\ u.freq \in Nat /\ u.bits \in Nat \ {0}
    BY <1>7, <1>9, <2>0
  <2>1. n \in Set /\ told' = [told EXCEPT ![p] = n]
    <3>1. told' = [told EXCEPT ![p] = n]
      BY <1>9 DEF SetPeriodHertz
    <3>2. n \in Set
      BY <1>0, <2>4 DEF Set
    <3> QED BY <3>1, <3>2
  <2>2. u = [freq |-> n.freq, bits |-> IF n.bits = 0 THEN DefaultBits ELSE n.bits]
    BY <1>0, <2>0, <2>4 DEF ToldSo, Width
  <2>3. n.pulse = Stale
    OBVIOUS
  <2> HIDE DEF n
  <2> QED BY <1>0, <2>1, <2>2, <2>3, <2>4, ToldOther
<1>10. CASE Reattach
  <2>1. PICK p \in ServoPin : p = reattach
    BY <1>10 DEF Reattach, IInv, ServoType
  <2>2. servo' = servo /\ told' = told /\ reattach' = None /\ AttachPin(p, servo[p]) /\ told[p].pulse = Stale
    BY <1>10, <2>1 DEF Reattach, ToldSo
  <2>3. \A q \in ServoPin \ {p} : asked'[q] = asked[q]
    BY <1>3, <2>2
  <2>4. \A q \in ServoPin : Width(q)' = Width(q) /\ reattach' # q
    BY <1>0, <2>2 DEF Width
  <2> QED BY <2>2, <2>3, <2>4 DEF ToldSo
<1>11. ASSUME NEW t \in Timer, AllocateTimer(t), UNCHANGED <<servo, reattach, told>> PROVE ToldSo'
  BY <1>0, <1>11, ToldStill DEF AllocateTimer
<1>12. ASSUME NEW p \in Pin, p \notin ServoPin, NEW w, Asks(p, w) \/ UNCHANGED asked,
              UNCHANGED <<servo, reattach, told>>
       PROVE  ToldSo'
  BY <1>0, <1>2, <1>12, ToldStill
<1>13. ASSUME NEW p \in TonePin, UNCHANGED <<servo, reattach, told>>,
              NoTone(p) \/ \E f \in Freq : ToneStart(p, f) \/ ToneChange(p, f)
       PROVE  ToldSo'
  <2>1. (\E w : Asks(p, w)) \/ UNCHANGED asked
    BY <1>13 DEF NoTone, ToneStart, ToneChange, Halt
  <2> QED BY <1>0, <1>12, <1>13, <2>1 DEF Pin
<1>14. ASSUME NEW p \in WritePin, UNCHANGED <<servo, reattach, told>>,
              \/ \E level \in {Low, High} : WriteDigital(p, level)
              \/ \E v \in Level : WriteWave(p, v)
       PROVE  ToldSo'
  <2>1. (\E w : Asks(p, w)) \/ UNCHANGED asked
    BY <1>14 DEF WriteDigital, WriteWave, Halt
  <2> QED BY <1>0, <1>12, <1>14, <2>1 DEF Pin
<1>15. CASE reattach = None /\ Steps
  BY <1>4, <1>5, <1>6, <1>8, <1>9, <1>10, <1>11, <1>13, <1>14, <1>15, Zenon DEF Steps
<1>16. CASE ServoRestart
  <2>1. Untold \in Set
    BY DEF Untold, Set, Default, DefaultBits
  <2>2. ASSUME NEW p \in ServoPin
        PROVE  told'[p] = Untold /\ servo'[p] = Default /\ Width(p)' = DefaultBits
    BY <1>16 DEF ServoRestart, Width, Untold
  <2>3. told' \in [ServoPin -> Set] /\ \A p \in ServoPin : reattach' # p
    BY <1>0, <1>16, <2>1 DEF ServoRestart
  <2> QED BY <2>2, <2>3 DEF ToldSo, Untold, Default
<1>17. CASE UNCHANGED servoVars
  BY <1>0, <1>17, ToldStill DEF servoVars, vars
<1> QED BY <1>10, <1>15, <1>16, <1>17, StepCases

(* ... so it is always so.                                                 *)
LEMMA ToldCorrect == ServoSpec => []ToldSo
<1>1. IInv /\ ToldSo /\ [ServoNext]_servoVars => ToldSo'
  BY ToldStep
<1> QED BY <1>1, ToldInit, InvCorrect, PTL DEF ServoSpec

(* Nothing fits: every timer is closed, full or at another frequency.      *)
LEMMA FullWhenStuck == FixedInv => HaltsOnlyWhenFull
<1> SUFFICES ASSUME FixedInv, halted # 0, NEW t \in Timer
             PROVE  \/ Closed(t)
                    \/ Used(t) = Slot
                    \/ \E s \in Used(t) : ChannelUsed[<<t, s>>].myFreq # halted
  BY DEF HaltsOnlyWhenFull
<1>1. t \notin Fits(halted)
  BY DEF FixedInv, Stuck
<1>2. CASE timerFreqSet[t] \notin {halted, -1}
  <2>1. PICK s \in Used(t) : TRUE
    BY <1>2 DEF FixedInv, IInv, Tables, Tuned
  <2>2. s \in Slot /\ <<t, s>> \in UsedChannel
    BY <2>1, UsedSo DEF FixedInv, IInv, Used
  <2>3. ChannelUsed[<<t, s>>].myFreq = timerFreqSet[t]
    BY <2>2 DEF FixedInv, Kept, OnePitch
  <2> QED BY <1>2, <2>1, <2>3
<1>3. CASE ~(timerCount[t] < SlotsPerTimer)
  <2>1. timerCount[t] = SlotsPerTimer
    BY <1>3, HardwareAssumption, TypeOfTables DEF FixedInv, IInv, TablesType
  <2>2. Closed(t) \/ Cardinality(Used(t)) = SlotsPerTimer
    BY <2>1 DEF FixedInv, IInv, Tables, Counted
  <2> QED BY <2>2, UsedFinite
<1> QED BY <1>1, <1>2, <1>3 DEF Fits

(* With tones that do not change, the processor is halted in allocatenext  *)
(* only when no timer could serve the frequency: each is closed, full, or  *)
(* runs at another one.                                                    *)
THEOREM HaltsCorrect ==
  ASSUME FixedTones
  PROVE  ServoSpec => []HaltsOnlyWhenFull
BY FullWhenStuck, FixedCorrect, PTL

(* A channel that does what its pin was told, on a timer that is set up for it, *)
(* puts that out.                                                          *)
LEMMA PinsNow == FixedInv => PinsHonoured
<1> SUFFICES ASSUME FixedInv, NEW p \in TonePin \cup WritePin
             PROVE  LET what == asked[p]
                    IN  /\ what \in {Low, High} => ~Attached(p)
                        /\ what.kind = "tone" => \E c \in ChannelsOf(p) : Sounds(c, what.freq)
                        /\ what.kind = "wave" => \E c \in ChannelsOf(p) : Waves(c, what.level)
  BY DEF PinsHonoured
<1> DEFINE what == asked[p]
<1>1. Heeds(p)
  BY DEF FixedInv, Told, Pin
<1>2. \A c \in ChannelsOf(p) : PutsOut(c, UseOf(c).freq, UseOf(c).bits)
  BY DEF FixedInv, Kept, Tended, ChannelsOf, UseOf
<1>3. CASE what \in {Low, High}
  <2>1. what.kind \in {"low", "high"}
    BY <1>3 DEF Low, High
  <2> QED BY <1>1, <1>3, <2>1 DEF Heeds
<1>4. CASE what \notin {Low, High}
  <2>1. PICK c \in ChannelsOf(p) : Does(c, what)
    BY <1>1, <1>4 DEF Heeds
  <2>2. PutsOut(c, UseOf(c).freq, UseOf(c).bits)
    BY <1>2
  <2>3. CASE what.kind = "tone"
    <3>1. UseOf(c).freq = what.freq /\ UseOf(c).bits = ToneBits /\ ChannelUsed[c].duty = Half
      BY <2>1, <2>3 DEF Does
    <3> QED BY <1>4, <2>2, <2>3, <3>1 DEF Sounds
  <2>4. CASE what.kind = "wave"
    <3>1. UseOf(c).freq = WriteFreq /\ UseOf(c).bits = WriteBits /\ ChannelUsed[c].duty = what.level
      BY <2>1, <2>4 DEF Does
    <3> QED BY <1>4, <2>2, <2>4, <3>1 DEF Waves
  <2> QED BY <1>4, <2>3, <2>4
<1> QED BY <1>3, <1>4

(* A Servo's channel has the use that the class keeps, which is the one    *)
(* its caller set, and the pulse it was last told.                         *)
LEMMA HonouredNow == FixedInv /\ ToldSo => Honoured
<1> SUFFICES ASSUME FixedInv, ToldSo, NEW p \in ServoPin
             PROVE  IF asked[p] \in {Low, High}
                      THEN ~Attached(p)
                      ELSE \E c \in ChannelsOf(p) :
                             /\ PutsOut(c, told[p].freq, Width(p))
                             /\ told[p].pulse # Stale => ChannelUsed[c].duty = told[p].pulse
  BY PinsNow DEF Honoured
<1>1. p \in Pin /\ Heeds(p)
  BY DEF FixedInv, Told, Pin
<1>2. CASE asked[p] \in {Low, High}
  BY <1>1, <1>2 DEF Heeds
<1>3. CASE asked[p] \notin {Low, High}
  <2>1. PICK c \in ChannelsOf(p) : Does(c, asked[p])
    BY <1>1, <1>3 DEF Heeds
  <2>2. UseOf(c) = [freq |-> told[p].freq, bits |-> Width(p)]
    BY <2>1 DEF FixedInv, Linked, ToldSo
  <2>3. PutsOut(c, told[p].freq, Width(p))
    BY <2>1, <2>2 DEF FixedInv, Kept, Tended, ChannelsOf, UseOf
  <2>4. ASSUME told[p].pulse # Stale PROVE ChannelUsed[c].duty = told[p].pulse
    <3>1. asked[p] = Pulse(servo[p], told[p].pulse)
      BY <1>3, <2>4 DEF ToldSo
    <3>2. asked[p].kind = "pulse" /\ asked[p].level = told[p].pulse
      BY <3>1 DEF Pulse
    <3> QED BY <2>1, <3>2 DEF Does
  <2> QED BY <1>3, <2>1, <2>3, <2>4
<1> QED BY <1>2, <1>3

(* With tones that do not change, and resolutions that do not clash, each  *)
(* pin puts out what it was last told, for ever, through any calls on the  *)
(* other pins, on any number of timers and channels; of a Servo's settings *)
(* the class takes back only what Honoured names.                          *)
THEOREM HonouredCorrect ==
  ASSUME FixedTones
  PROVE  ServoSpec => []Honoured
BY HonouredNow, FixedCorrect, ToldCorrect, PTL

=============================================================================

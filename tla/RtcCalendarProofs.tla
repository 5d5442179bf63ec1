------------------------- MODULE RtcCalendarProofs --------------------------
(***************************************************************************)
(* Proofs about RtcCalendar, for every day of the years the chip counts,   *)
(* 2000 to 2099: the day of the week, the lengths of months, date and time *)
(* of a timestamp, and the days counted for a date.                        *)
(*                                                                         *)
(* The library's loops are recursive functions.  Each is shown to be a     *)
(* formula: the formula satisfies the equation of the function, and two    *)
(* functions that satisfy it agree, by induction over the loop.            *)
(***************************************************************************)
EXTENDS RtcCalendar, WellFoundedInduction, TLAPS

-----------------------------------------------------------------------------
(* Loops.                                                                  *)

\* What holds at the first number, and with each at the next, holds at all.
LEMMA LoopInduction ==
  ASSUME NEW lo \in Nat, NEW hi \in Nat, NEW S, lo \in S,
         \A i \in lo .. hi - 1 : i \in S => i + 1 \in S
  PROVE  \A i \in lo .. hi : i \in S
<1> DEFINE T == (lo .. hi) \ S
<1> SUFFICES ASSUME T # {} PROVE FALSE
  OBVIOUS
<1>1. T \subseteq Nat
  OBVIOUS
<1>2. PICK x \in T : \A y \in T : <<y, x>> \notin OpToRel(<, Nat)
  BY <1>1, NatLessThanWellFounded, WFMin
<1>3. x \in lo .. hi /\ x \notin S
  OBVIOUS
<1>4. x - 1 \in lo .. hi - 1
  BY <1>3
<1>5. x - 1 \notin T
  <2>1. x - 1 \in Nat /\ x \in Nat /\ x - 1 < x
    BY <1>4
  <2>2. <<x - 1, x>> \in OpToRel(<, Nat)
    BY <2>1 DEF OpToRel
  <2> QED BY <1>2, <2>2
<1>6. x - 1 \in S
  BY <1>4, <1>5
<1>7. (x - 1) + 1 \in S
  BY <1>4, <1>6
<1> QED BY <1>3, <1>7

\* The days of a common year before each month.
Before == <<0, 31, 59, 90, 120, 151, 181, 212, 243, 273, 304, 334, 365>>

\* They grow by the days of each month.
LEMMA BeforeGrows ==
  /\ Before[1] = 0 /\ \A i \in 1 .. 13 : Before[i] \in 0 .. 365
  /\ \A i \in 1 .. 12 : daysArray[i] \in 28 .. 31 /\ Before[i + 1] = Before[i] + daysArray[i]
  /\ \A i, j \in 1 .. 13 : i <= j => Before[i] <= Before[j]
<1>1. /\ Before[1] = 0 /\ Before[2] = 31 /\ Before[3] = 59 /\ Before[4] = 90 /\ Before[5] = 120
      /\ Before[6] = 151 /\ Before[7] = 181 /\ Before[8] = 212 /\ Before[9] = 243
      /\ Before[10] = 273 /\ Before[11] = 304 /\ Before[12] = 334 /\ Before[13] = 365
  BY DEF Before
<1>2. /\ daysArray[1] = 31 /\ daysArray[2] = 28 /\ daysArray[3] = 31 /\ daysArray[4] = 30
      /\ daysArray[5] = 31 /\ daysArray[6] = 30 /\ daysArray[7] = 31 /\ daysArray[8] = 31
      /\ daysArray[9] = 30 /\ daysArray[10] = 31 /\ daysArray[11] = 30 /\ daysArray[12] = 31
  BY DEF daysArray
<1>3. \A i \in 1 .. 13 : Before[i] \in 0 .. 365
  BY <1>1
<1>4. \A i \in 1 .. 12 : daysArray[i] \in 28 .. 31 /\ Before[i + 1] = Before[i] + daysArray[i]
  BY <1>1, <1>2
<1>5. ASSUME NEW i \in 1 .. 13 PROVE \A j \in i .. 13 : Before[i] <= Before[j]
  <2> DEFINE S == {j \in i .. 13 : Before[i] <= Before[j]}
  <2>0. ASSUME NEW k \in 1 .. 13 PROVE Before[k] \in Int
    <3>1. Before[k] \in 0 .. 365
      BY <1>3
    <3> QED BY <3>1
  <2>1. i \in S
    <3>1. i \in i .. 13 /\ Before[i] \in Int
      BY <2>0
    <3> QED BY <3>1
  <2>2. ASSUME NEW j \in i .. 13 - 1, j \in S PROVE j + 1 \in S
    <3>1. j \in 1 .. 12 /\ j + 1 \in 1 .. 13 /\ j + 1 \in i .. 13
      OBVIOUS
    <3>2. Before[j + 1] = Before[j] + daysArray[j] /\ daysArray[j] \in 28 .. 31
      BY <1>4, <3>1
    <3>3. Before[i] \in Int /\ Before[j] \in Int /\ Before[i] <= Before[j]
      BY <2>0, <2>2, <3>1
    <3>4. Before[i] <= Before[j + 1]
      BY <3>2, <3>3
    <3> QED BY <3>1, <3>4
  <2>3. i \in Nat /\ 13 \in Nat
    OBVIOUS
  <2>4. \A j \in i .. 13 : j \in S
    <3> HIDE DEF S
    <3> QED BY <2>1, <2>2, <2>3, LoopInduction
  <2> QED BY <2>4
<1>6. \A i, j \in 1 .. 13 : i <= j => Before[i] <= Before[j]
  <2> SUFFICES ASSUME NEW i \in 1 .. 13, NEW j \in 1 .. 13, i <= j
               PROVE  Before[i] <= Before[j]
    OBVIOUS
  <2>1. j \in i .. 13
    OBVIOUS
  <2> QED BY <1>5, <2>1, Zenon
<1> QED BY <1>1, <1>3, <1>4, <1>6, Zenon

\* The loop of date2days over the months.
LEMMA DaysBeforeIs ==
  ASSUME NEW m \in 1 .. 12
  PROVE  daysBefore(m) = Before[m]
<1> DEFINE Loop(f) == [i \in 1 .. m |-> IF i = 1 THEN 0 ELSE f[i - 1] + daysArray[i - 1]]
           g == [i \in 1 .. m |-> Before[i]]
           f == CHOOSE h : h = Loop(h)
<1>1. daysBefore(m) = f[m]
  BY DEF daysBefore
<1>2. \A i \in 1 .. m : i # 1 => Before[i] = Before[i - 1] + daysArray[i - 1]
  <2> SUFFICES ASSUME NEW i \in 1 .. m, i # 1
               PROVE  Before[i] = Before[i - 1] + daysArray[i - 1]
    OBVIOUS
  <2>1. i - 1 \in 1 .. 12 /\ (i - 1) + 1 = i
    OBVIOUS
  <2>2. Before[(i - 1) + 1] = Before[i - 1] + daysArray[i - 1]
    BY <2>1, BeforeGrows, Zenon
  <2> QED BY <2>1, <2>2
<1>3. g = Loop(g)
  <2>1. Before[1] = 0
    BY BeforeGrows
  <2>2. ASSUME NEW i \in 1 .. m
        PROVE  g[i] = IF i = 1 THEN 0 ELSE g[i - 1] + daysArray[i - 1]
    <3>1. i # 1 => i - 1 \in 1 .. m
      OBVIOUS
    <3>2. i # 1 => g[i - 1] = Before[i - 1]
      BY <3>1
    <3>3. g[i] = Before[i]
      OBVIOUS
    <3> HIDE DEF g
    <3> QED BY <1>2, <2>1, <3>2, <3>3, Zenon
  <2> QED BY <2>2, Zenon
<1>4. f = Loop(f)
  <2> HIDE DEF g, Loop
  <2>1. \E h : h = Loop(h)
    BY <1>3
  <2> QED BY <2>1, Zenon
<1> HIDE DEF f
<1> DEFINE S == {i \in 1 .. m : f[i] = Before[i]}
<1>5. 1 \in S
  <2>1. 1 \in 1 .. m
    OBVIOUS
  <2>2. f[1] = 0
    BY <1>4, <2>1
  <2>3. Before[1] = 0
    BY BeforeGrows
  <2> QED BY <2>1, <2>2, <2>3
<1>6. ASSUME NEW i \in 1 .. m - 1, i \in S PROVE i + 1 \in S
  <2>1. i + 1 \in 1 .. m /\ i + 1 # 1 /\ (i + 1) - 1 = i
    OBVIOUS
  <2>2. f[i + 1] = f[i] + daysArray[i]
    BY <1>4, <2>1
  <2>3. Before[i + 1] = Before[i] + daysArray[i]
    BY <1>2, <2>1
  <2> QED BY <1>6, <2>1, <2>2, <2>3
<1>7. \A i \in 1 .. m : i \in S
  <2> HIDE DEF S
  <2>1. 1 \in Nat /\ m \in Nat
    OBVIOUS
  <2> QED BY <1>5, <1>6, <2>1, LoopInduction
<1>8. m \in 1 .. m
  OBVIOUS
<1>9. f[m] = Before[m]
  BY <1>7, <1>8
<1> QED BY <1>1, <1>9, Zenon

-----------------------------------------------------------------------------
(* The two loops of setDateTime(t), named.                                 *)

\* The days left before each year is looked at, and the year it stops at.
Years(days) ==
  LET afterYears[y \in 0 .. 100] ==
        IF y = 0 THEN days ELSE afterYears[y - 1] - yearLength(y - 1)
  IN  afterYears
YearOf(days) == CHOOSE z \in 0 .. 99 : Years(days)[z] \in 0 .. yearLength(z) - 1

\* The same for the months of year y, with rest days left.
MonthLength(y, m) == daysArray[m] + (IF y % 4 = 0 /\ m = 2 THEN 1 ELSE 0)
Months(y, rest) ==
  LET afterMonths[m \in 1 .. 13] ==
        IF m = 1 THEN rest ELSE afterMonths[m - 1] - MonthLength(y, m - 1)
  IN  afterMonths
MonthOf(y, rest) == CHOOSE k \in 1 .. 12 : Months(y, rest)[k] \in 0 .. MonthLength(y, k) - 1

\* What setDateTime(t) finds, in these terms.
LEMMA FromDaysIs ==
  ASSUME NEW days
  PROVE  fromDays(days) = LET y == YearOf(days)
                              k == MonthOf(y, Years(days)[y])
                          IN  <<y + 2000, k, Months(y, Years(days)[y])[k] + 1>>
BY DEF fromDays, YearOf, Years, MonthOf, Months, MonthLength

-----------------------------------------------------------------------------
(* The loop over the years.                                                *)

\* The days before year z, and their growth.
Start(z) == 365 * z + ((z + 3) \div 4)

\* The days before the next year are those of this one more.
LEMMA StartGrows ==
  ASSUME NEW z \in 0 .. 99
  PROVE  /\ Start(z) \in Nat /\ yearLength(z) \in 365 .. 366
         /\ Start(z + 1) = Start(z) + yearLength(z)
BY DEF Start, yearLength

\* A year is over when a later one starts.
LEMMA YearsApart ==
  ASSUME NEW i \in 0 .. 99, NEW j \in 0 .. 99, i < j
  PROVE  Start(i) + yearLength(i) <= Start(j)
BY DEF Start, yearLength

\* The days left before a year is looked at.
LEMMA YearsIs ==
  ASSUME NEW days \in Int, NEW z \in 0 .. 99
  PROVE  Years(days)[z] = days - Start(z)
<1> DEFINE Loop(f) == [y \in 0 .. 100 |-> IF y = 0 THEN days ELSE f[y - 1] - yearLength(y - 1)]
           g == [y \in 0 .. 100 |-> days - Start(y)]
           f == CHOOSE h : h = Loop(h)
           S == {y \in 0 .. 99 : f[y] = days - Start(y)}
<1>1. Years(days) = f
  BY DEF Years
<1>2. Start(0) = 0
  BY DEF Start
<1>3. g = Loop(g)
  <2>1. ASSUME NEW y \in 0 .. 100
        PROVE  g[y] = IF y = 0 THEN days ELSE g[y - 1] - yearLength(y - 1)
    <3>1. g[y] = days - Start(y)
      OBVIOUS
    <3>2. CASE y = 0
      BY <1>2, <3>1, <3>2
    <3>3. CASE y # 0
      <4>1. y - 1 \in 0 .. 99 /\ (y - 1) + 1 = y
        BY <3>3
      <4>2. PICK x \in 0 .. 99 : x = y - 1
        BY <4>1
      <4>3. Start(x) \in Nat /\ yearLength(x) \in 365 .. 366 /\ Start(x + 1) = Start(x) + yearLength(x)
        BY StartGrows
      <4>4. g[x] = days - Start(x) /\ x + 1 = y
        BY <4>1, <4>2
      <4>5. g[y] = g[x] - yearLength(x)
        <5> HIDE DEF g
        <5> QED BY <3>1, <4>3, <4>4
      <4> HIDE DEF g
      <4> QED BY <3>3, <4>2, <4>5
    <3> QED BY <3>2, <3>3
  <2> QED BY <2>1, Zenon
<1>4. f = Loop(f)
  <2> HIDE DEF g, Loop
  <2>1. \E h : h = Loop(h)
    BY <1>3
  <2> QED BY <2>1, Zenon
<1> HIDE DEF f
<1>5. 0 \in S
  <2>1. 0 \in 0 .. 100 /\ 0 \in 0 .. 99
    OBVIOUS
  <2>2. f[0] = days
    BY <1>4, <2>1
  <2> QED BY <1>2, <2>1, <2>2
<1>6. ASSUME NEW y \in 0 .. 99 - 1, y \in S PROVE y + 1 \in S
  <2>1. y \in 0 .. 99 /\ y + 1 \in 0 .. 99 /\ y + 1 \in 0 .. 100 /\ y + 1 # 0 /\ (y + 1) - 1 = y
    OBVIOUS
  <2>2. f[y + 1] = f[y] - yearLength(y)
    BY <1>4, <2>1
  <2>3. Start(y) \in Nat /\ yearLength(y) \in 365 .. 366 /\ Start(y + 1) = Start(y) + yearLength(y)
    BY <2>1, StartGrows
  <2>4. f[y] = days - Start(y)
    BY <1>6
  <2> QED BY <2>1, <2>2, <2>3, <2>4
<1>7. \A y \in 0 .. 99 : y \in S
  <2> HIDE DEF S
  <2>1. 0 \in Nat /\ 99 \in Nat
    OBVIOUS
  <2> QED BY <1>5, <1>6, <2>1, LoopInduction
<1> QED BY <1>1, <1>7

\* The loop stops at the year the day is in.
LEMMA YearFound ==
  ASSUME NEW z \in 0 .. 99, NEW n \in Nat, n < yearLength(z), NEW days, days = Start(z) + n
  PROVE  YearOf(days) = z /\ Years(days)[z] = n
<1>0. ASSUME NEW x \in 0 .. 99
      PROVE  Start(x) \in Nat /\ yearLength(x) \in Nat
  <2>1. yearLength(x) \in 365 .. 366 /\ Start(x) \in Nat
    BY StartGrows
  <2> QED BY <2>1
<1>1. days \in Int /\ Start(z) \in Nat /\ yearLength(z) \in Nat
  BY <1>0
<1>2. \A x \in 0 .. 99 : Years(days)[x] = days - Start(x)
  BY <1>1, YearsIs
<1>3. Years(days)[z] = n
  BY <1>1, <1>2
<1>4. Years(days)[z] \in 0 .. yearLength(z) - 1
  BY <1>1, <1>3
<1>5. ASSUME NEW x \in 0 .. 99, Years(days)[x] \in 0 .. yearLength(x) - 1 PROVE x = z
  <2>1. Start(x) \in Nat /\ yearLength(x) \in Nat
    BY <1>0
  <2>2. Start(x) <= days /\ days < Start(x) + yearLength(x)
    BY <1>1, <1>2, <1>5, <2>1
  <2>3. ~(x < z)
    BY <1>1, <2>1, <2>2, YearsApart
  <2>4. ~(z < x)
    BY <1>1, <2>1, <2>2, YearsApart
  <2> QED BY <2>3, <2>4
<1>6. YearOf(days) = z
  BY <1>4, <1>5 DEF YearOf
<1> QED BY <1>3, <1>6

-----------------------------------------------------------------------------
(* The loop over the months.                                               *)

\* The days of year y before month k.
First(y, k) == Before[k] + (IF y % 4 = 0 /\ k > 2 THEN 1 ELSE 0)

\* The days before the next month are those of this one more.
LEMMA FirstGrows ==
  ASSUME NEW y \in 0 .. 99, NEW k \in 1 .. 12
  PROVE  /\ First(y, k) \in Nat /\ MonthLength(y, k) \in 28 .. 32
         /\ First(y, k + 1) = First(y, k) + MonthLength(y, k)
<1>1. k \in 1 .. 13
  OBVIOUS
<1>2. Before[k] \in 0 .. 365
  BY <1>1, BeforeGrows
<1>3. daysArray[k] \in 28 .. 31 /\ Before[k + 1] = Before[k] + daysArray[k]
  BY BeforeGrows
<1>4. Before[k] \in Nat /\ Before[k] \in Int /\ daysArray[k] \in Int /\ daysArray[k] \in Nat
  BY <1>2, <1>3
<1> DEFINE leap == y % 4 = 0
<1>5. First(y, k) = Before[k] + (IF leap /\ k > 2 THEN 1 ELSE 0)
  BY DEF First
<1>6. First(y, k + 1) = Before[k + 1] + (IF leap /\ k + 1 > 2 THEN 1 ELSE 0)
  BY DEF First
<1>7. MonthLength(y, k) = daysArray[k] + (IF leap /\ k = 2 THEN 1 ELSE 0)
  BY DEF MonthLength
<1> HIDE DEF leap
<1>8. CASE leap
  BY <1>3, <1>4, <1>5, <1>6, <1>7, <1>8
<1>9. CASE ~leap
  BY <1>3, <1>4, <1>5, <1>6, <1>7, <1>9
<1> QED BY <1>8, <1>9

\* A month is over when a later one starts.
LEMMA MonthsApart ==
  ASSUME NEW y \in 0 .. 99, NEW i \in 1 .. 12, NEW j \in 1 .. 12, i < j
  PROVE  First(y, i) + MonthLength(y, i) <= First(y, j)
<1>1. i \in 1 .. 13 /\ j \in 1 .. 13 /\ i + 1 \in 1 .. 13 /\ i + 1 <= j
  OBVIOUS
<1>2. First(y, i + 1) = First(y, i) + MonthLength(y, i)
  BY FirstGrows
<1>3. Before[i + 1] <= Before[j] /\ Before[i + 1] \in 0 .. 365 /\ Before[j] \in 0 .. 365
  BY <1>1, BeforeGrows
<1>4. First(y, i + 1) <= First(y, j)
  <2> DEFINE leap == y % 4 = 0
  <2>1. First(y, i + 1) = Before[i + 1] + (IF leap /\ i + 1 > 2 THEN 1 ELSE 0)
    BY DEF First
  <2>2. First(y, j) = Before[j] + (IF leap /\ j > 2 THEN 1 ELSE 0)
    BY DEF First
  <2>3. Before[i + 1] \in Int /\ Before[j] \in Int
    BY <1>3
  <2> HIDE DEF leap
  <2>4. CASE leap
    BY <1>1, <1>3, <2>1, <2>2, <2>3, <2>4
  <2>5. CASE ~leap
    BY <1>3, <2>1, <2>2, <2>3, <2>5
  <2> QED BY <2>4, <2>5
<1> QED BY <1>2, <1>4

\* The days left before a month is looked at.
LEMMA MonthsIs ==
  ASSUME NEW y \in 0 .. 99, NEW rest \in Int, NEW k \in 1 .. 12
  PROVE  Months(y, rest)[k] = rest - First(y, k)
<1> DEFINE Loop(f) == [m \in 1 .. 13 |-> IF m = 1 THEN rest ELSE f[m - 1] - MonthLength(y, m - 1)]
           g == [m \in 1 .. 13 |-> rest - First(y, m)]
           f == CHOOSE h : h = Loop(h)
           S == {m \in 1 .. 12 : f[m] = rest - First(y, m)}
<1>1. Months(y, rest) = f
  BY DEF Months
<1>2. First(y, 1) = 0
  BY BeforeGrows DEF First
<1>3. g = Loop(g)
  <2>1. ASSUME NEW m \in 1 .. 13
        PROVE  g[m] = IF m = 1 THEN rest ELSE g[m - 1] - MonthLength(y, m - 1)
    <3>1. g[m] = rest - First(y, m)
      OBVIOUS
    <3>2. CASE m = 1
      BY <1>2, <3>1, <3>2
    <3>3. CASE m # 1
      <4>1. m - 1 \in 1 .. 12 /\ (m - 1) + 1 = m
        BY <3>3
      <4>2. PICK x \in 1 .. 12 : x = m - 1
        BY <4>1
      <4>3. First(y, x) \in Nat /\ MonthLength(y, x) \in 28 .. 32 /\ First(y, x + 1) = First(y, x) + MonthLength(y, x)
        BY FirstGrows
      <4>4. g[x] = rest - First(y, x) /\ x + 1 = m
        BY <4>1, <4>2
      <4>5. g[m] = g[x] - MonthLength(y, x)
        <5> HIDE DEF g
        <5> QED BY <3>1, <4>3, <4>4
      <4> HIDE DEF g
      <4> QED BY <3>3, <4>2, <4>5
    <3> QED BY <3>2, <3>3
  <2> QED BY <2>1, Zenon
<1>4. f = Loop(f)
  <2> HIDE DEF g, Loop
  <2>1. \E h : h = Loop(h)
    BY <1>3
  <2> QED BY <2>1, Zenon
<1> HIDE DEF f
<1>5. 1 \in S
  <2>1. 1 \in 1 .. 13 /\ 1 \in 1 .. 12
    OBVIOUS
  <2>2. f[1] = rest
    BY <1>4, <2>1
  <2> QED BY <1>2, <2>1, <2>2
<1>6. ASSUME NEW m \in 1 .. 12 - 1, m \in S PROVE m + 1 \in S
  <2>1. m \in 1 .. 12 /\ m + 1 \in 1 .. 12 /\ m + 1 \in 1 .. 13 /\ m + 1 # 1 /\ (m + 1) - 1 = m
    OBVIOUS
  <2>2. f[m + 1] = f[m] - MonthLength(y, m)
    BY <1>4, <2>1
  <2>3. First(y, m) \in Nat /\ MonthLength(y, m) \in 28 .. 32 /\ First(y, m + 1) = First(y, m) + MonthLength(y, m)
    BY <2>1, FirstGrows
  <2>4. f[m] = rest - First(y, m)
    BY <1>6
  <2> QED BY <2>1, <2>2, <2>3, <2>4
<1>7. \A m \in 1 .. 12 : m \in S
  <2> HIDE DEF S
  <2>1. 1 \in Nat /\ 12 \in Nat
    OBVIOUS
  <2> QED BY <1>5, <1>6, <2>1, LoopInduction
<1> QED BY <1>1, <1>7

\* The loop stops at the month the day is in.
LEMMA MonthFound ==
  ASSUME NEW y \in 0 .. 99, NEW k \in 1 .. 12, NEW n \in Nat, NEW rest \in Nat,
         n < MonthLength(y, k), rest = First(y, k) + n
  PROVE  MonthOf(y, rest) = k /\ Months(y, rest)[k] = n
<1>0. ASSUME NEW x \in 1 .. 12
      PROVE  First(y, x) \in Nat /\ MonthLength(y, x) \in Nat
  <2>1. MonthLength(y, x) \in 28 .. 32 /\ First(y, x) \in Nat
    BY FirstGrows
  <2> QED BY <2>1
<1>1. rest \in Int /\ First(y, k) \in Nat /\ MonthLength(y, k) \in Nat
  BY <1>0
<1>2. \A x \in 1 .. 12 : Months(y, rest)[x] = rest - First(y, x)
  BY <1>1, MonthsIs
<1>3. Months(y, rest)[k] = n
  BY <1>1, <1>2
<1>4. Months(y, rest)[k] \in 0 .. MonthLength(y, k) - 1
  BY <1>1, <1>3
<1>5. ASSUME NEW x \in 1 .. 12, Months(y, rest)[x] \in 0 .. MonthLength(y, x) - 1 PROVE x = k
  <2>1. First(y, x) \in Nat /\ MonthLength(y, x) \in Nat
    BY <1>0
  <2>2. First(y, x) <= rest /\ rest < First(y, x) + MonthLength(y, x)
    BY <1>1, <1>2, <1>5, <2>1
  <2>3. ~(x < k)
    <3>1. x < k => First(y, x) + MonthLength(y, x) <= First(y, k)
      BY MonthsApart, Zenon
    <3> QED BY <1>1, <2>1, <2>2, <3>1
  <2>4. ~(k < x)
    <3>1. k < x => First(y, k) + MonthLength(y, k) <= First(y, x)
      BY MonthsApart, Zenon
    <3> QED BY <1>1, <2>1, <2>2, <3>1
  <2> QED BY <2>3, <2>4
<1>6. MonthOf(y, rest) = k
  BY <1>4, <1>5 DEF MonthOf
<1> QED BY <1>3, <1>6

\* A year is as long as its months together.
LEMMA MonthsInYear ==
  ASSUME NEW y \in 0 .. 99, NEW k \in 1 .. 12
  PROVE  /\ First(y, k) + MonthLength(y, k) <= yearLength(y)
         /\ k = 12 => First(y, k) + MonthLength(y, k) = yearLength(y)
         /\ First(y, 1) = 0
<1>1. First(y, k + 1) = First(y, k) + MonthLength(y, k)
  BY FirstGrows
<1>2. k + 1 \in 1 .. 13 /\ 13 \in 1 .. 13 /\ k + 1 <= 13
  OBVIOUS
<1>3. Before[k + 1] <= Before[13] /\ Before[k + 1] \in 0 .. 365
  BY <1>2, BeforeGrows
<1>4. Before[13] = 365
  BY DEF Before
<1>5. Before[k + 1] <= 365 /\ Before[k + 1] \in Int
  BY <1>3, <1>4
<1> DEFINE leap == y % 4 = 0
<1>6. First(y, k + 1) = Before[k + 1] + (IF leap /\ k + 1 > 2 THEN 1 ELSE 0)
  BY DEF First
<1>7. yearLength(y) = 365 + (IF leap THEN 1 ELSE 0)
  BY DEF yearLength
<1>8. First(y, 1) = 0
  BY BeforeGrows DEF First
<1> HIDE DEF leap
<1>9. First(y, k + 1) <= yearLength(y)
  BY <1>5, <1>6, <1>7
<1>10. ASSUME k = 12 PROVE First(y, k + 1) = yearLength(y)
  BY <1>4, <1>6, <1>7, <1>10
<1> QED BY <1>1, <1>8, <1>9, <1>10

-----------------------------------------------------------------------------
(* The count of days.                                                      *)

\* Each count is what the date says, and the date is one there is.
Counted ==
  /\ year \in 2000 .. LastYear /\ month \in 1 .. 12
  /\ day \in 1 .. MonthLength(year - 2000, month)
  /\ inYear = First(year - 2000, month) + (day - 1)
  /\ elapsed = Start(year - 2000) + inYear
  /\ weekday = ((elapsed + 5) % 7) + 1

\* The years that are counted are those from 2000 to 2099.
LEMMA YearIs ==
  ASSUME year \in 2000 .. LastYear
  PROVE  \E z \in 0 .. 99 : z = year - 2000 /\ year = z + 2000
BY YearAssumption

\* Until 2099 the years with a leap day are those that 4 divides.
LEMMA LeapYearIs ==
  ASSUME NEW z \in 0 .. 99, year = z + 2000
  PROVE  (LeapYear <=> z % 4 = 0) /\ (year % 4 = 0 <=> z % 4 = 0)
BY DEF LeapYear

\* The calendar's months are as long as those of the library's loop.
LEMMA LastDayIs ==
  ASSUME NEW z \in 0 .. 99, year = z + 2000, month \in 1 .. 12
  PROVE  LastDay = MonthLength(z, month) /\ LastDay \in 28 .. 31
<1>1. LeapYear <=> z % 4 = 0
  BY LeapYearIs
<1>2. /\ daysArray[1] = 31 /\ daysArray[2] = 28 /\ daysArray[3] = 31 /\ daysArray[4] = 30
      /\ daysArray[5] = 31 /\ daysArray[6] = 30 /\ daysArray[7] = 31 /\ daysArray[8] = 31
      /\ daysArray[9] = 30 /\ daysArray[10] = 31 /\ daysArray[11] = 30 /\ daysArray[12] = 31
  BY DEF daysArray
<1>3. CASE LeapYear
  BY <1>1, <1>2, <1>3 DEF LastDay, MonthLength
<1>4. CASE ~LeapYear
  BY <1>1, <1>2, <1>4 DEF LastDay, MonthLength
<1> QED BY <1>3, <1>4

\* The count starts right.
LEMMA CountedInit == Init => Counted
<1> SUFFICES ASSUME Init PROVE Counted
  OBVIOUS
<1>1. year = 2000 /\ month = 1 /\ day = 1 /\ weekday = 6 /\ elapsed = 0 /\ inYear = 0
  BY DEF Init
<1>2. PICK z : z = 0
  OBVIOUS
<1>3. z \in 0 .. 99 /\ month \in 1 .. 12 /\ year - 2000 = z
  BY <1>1, <1>2
<1>4. First(z, 1) = 0 /\ MonthLength(z, 1) \in 28 .. 32
  BY <1>3, MonthsInYear, FirstGrows, SMTT(60)
<1>5. Start(z) = 0
  BY <1>2 DEF Start
<1>6. year \in 2000 .. LastYear
  BY <1>1, YearAssumption
<1> QED BY <1>1, <1>3, <1>4, <1>5, <1>6 DEF Counted

\* Every step counts right.
LEMMA CountedStep == Counted /\ [Next]_vars => Counted'
<1> SUFFICES ASSUME Counted, [Next]_vars PROVE Counted'
  OBVIOUS
<1>1. PICK z \in 0 .. 99 : z = year - 2000 /\ year = z + 2000
  BY YearIs DEF Counted
<1>2. PICK m \in 1 .. 12 : m = month
  BY DEF Counted
<1>3. LastDay = MonthLength(z, m) /\ LastDay \in 28 .. 31
  BY <1>1, <1>2, LastDayIs
<1>4. First(z, m) \in Nat /\ Start(z) \in Nat
  BY FirstGrows, StartGrows
<1>5. /\ day \in 1 .. LastDay /\ inYear = First(z, m) + (day - 1) /\ elapsed = Start(z) + inYear
      /\ weekday = ((elapsed + 5) % 7) + 1
  BY <1>1, <1>2, <1>3 DEF Counted
<1>6. day \in Nat /\ day <= LastDay /\ inYear \in Nat /\ elapsed \in Nat
  BY <1>3, <1>4, <1>5
<1>7. ASSUME Count PROVE elapsed' = elapsed + 1 /\ weekday' = ((elapsed' + 5) % 7) + 1
  <2>1. weekday' = (weekday % 7) + 1 /\ elapsed' = elapsed + 1
    BY <1>7 DEF Count
  <2> QED BY <1>5, <1>6, <2>1
<1>8. CASE NextDay
  <2>1. /\ day < LastDay /\ day' = day + 1 /\ inYear' = inYear + 1 /\ Count
        /\ year' = year /\ month' = month
    BY <1>8 DEF NextDay
  <2>2. day' \in 1 .. MonthLength(z, m)
    BY <1>3, <1>6, <2>1
  <2>3. inYear' = First(z, m) + (day' - 1) /\ elapsed' = Start(z) + inYear'
    BY <1>4, <1>5, <1>6, <1>7, <2>1
  <2> QED BY <1>1, <1>2, <1>7, <2>1, <2>2, <2>3 DEF Counted
<1>9. CASE NextMonth
  <2>1. /\ day = LastDay /\ month < 12 /\ day' = 1 /\ inYear' = inYear + 1 /\ Count
        /\ year' = year /\ month' = month + 1
    BY <1>9 DEF NextMonth
  <2>2. PICK n \in 1 .. 12 : n = m + 1
    BY <1>2, <2>1
  <2>3. First(z, m + 1) = First(z, m) + MonthLength(z, m) /\ MonthLength(z, n) \in 28 .. 32
    BY FirstGrows
  <2>4. First(z, n) = First(z, m) + LastDay
    BY <1>3, <2>2, <2>3
  <2>5. inYear' = First(z, n) + (day' - 1) /\ elapsed' = Start(z) + inYear'
    BY <1>3, <1>4, <1>5, <1>6, <1>7, <2>1, <2>4
  <2>6. day' \in 1 .. MonthLength(z, n)
    BY <2>1, <2>3
  <2>7. month' = n
    BY <1>2, <2>1, <2>2
  <2> QED BY <1>1, <1>7, <2>1, <2>5, <2>6, <2>7 DEF Counted
<1>10. CASE NextYear
  <2>1. /\ day = LastDay /\ month = 12 /\ year < LastYear /\ day' = 1 /\ inYear' = 0 /\ Count
        /\ year' = year + 1 /\ month' = 1
    BY <1>10 DEF NextYear
  <2>2. PICK x \in 0 .. 99 : x = z + 1
    BY <1>1, <2>1, YearAssumption
  <2>3. Start(z + 1) = Start(z) + yearLength(z)
    BY StartGrows
  <2>4. First(z, m) + LastDay = yearLength(z)
    BY <1>2, <1>3, <2>1, MonthsInYear
  <2>5. First(x, 1) = 0 /\ MonthLength(x, 1) \in 28 .. 32
    <3>1. First(x, 1) = 0
      BY MonthsInYear
    <3>2. 1 \in 1 .. 12
      OBVIOUS
    <3>3. MonthLength(x, 1) \in 28 .. 32
      BY <3>2, FirstGrows, Zenon
    <3> QED BY <3>1, <3>3
  <2>6. Start(x) = Start(z) + (First(z, m) + LastDay)
    BY <2>2, <2>3, <2>4
  <2>7. inYear' = First(x, 1) + (day' - 1) /\ elapsed' = Start(x) + inYear'
    BY <1>3, <1>4, <1>5, <1>6, <1>7, <2>1, <2>5, <2>6
  <2>8. day' \in 1 .. MonthLength(x, 1)
    BY <2>1, <2>5
  <2>9. year' \in 2000 .. LastYear /\ year' - 2000 = x
    BY <1>1, <2>1, <2>2, YearAssumption
  <2> QED BY <1>7, <2>1, <2>7, <2>8, <2>9 DEF Counted
<1>11. CASE UNCHANGED vars
  BY <1>11 DEF vars, Counted
<1> QED BY <1>8, <1>9, <1>10, <1>11 DEF Next

\* The counts agree with the date on every day.
THEOREM CountedCorrect == Spec => []Counted
BY CountedInit, CountedStep, PTL DEF Spec

\* What is counted, with the year, month and day named.
LEMMA CountedSo ==
  ASSUME Counted
  PROVE  \E z \in 0 .. 99, m \in 1 .. 12, d \in 1 .. 31 :
           /\ year = z + 2000 /\ month = m /\ day = d
           /\ d <= MonthLength(z, m)
           /\ inYear = First(z, m) + (d - 1) /\ elapsed = Start(z) + inYear
           /\ weekday = ((elapsed + 5) % 7) + 1
<1>1. PICK z \in 0 .. 99 : z = year - 2000 /\ year = z + 2000
  BY YearIs DEF Counted
<1>2. PICK m \in 1 .. 12 : m = month
  BY DEF Counted
<1>3. LastDay = MonthLength(z, m) /\ LastDay \in 28 .. 31
  BY <1>1, <1>2, LastDayIs
<1>4. day \in 1 .. MonthLength(z, m)
  BY <1>1, <1>2 DEF Counted
<1>5. day \in 1 .. 31 /\ day <= MonthLength(z, m)
  BY <1>3, <1>4
<1>6. /\ inYear = First(z, m) + (day - 1) /\ elapsed = Start(z) + inYear
      /\ weekday = ((elapsed + 5) % 7) + 1
  BY <1>1, <1>2 DEF Counted
<1>7. year = z + 2000 /\ month = m /\ day = day
  BY <1>1, <1>2
<1> QED BY <1>5, <1>6, <1>7, Zenon

-----------------------------------------------------------------------------
(* The lengths of the months.                                              *)

\* daysInMonth() is right for every month from 2000 to 2099: in these years
\* the missing rule of the centuries makes no difference.
THEOREM MonthLengthCorrect == Spec => []MonthLengthRight
<1>1. Counted => MonthLengthRight
  <2> SUFFICES ASSUME Counted PROVE MonthLengthRight
    OBVIOUS
  <2>1. PICK z \in 0 .. 99 : year = z + 2000
    BY YearIs DEF Counted
  <2>2. month \in 1 .. 12
    BY DEF Counted
  <2>3. LastDay = MonthLength(z, month)
    BY <2>1, <2>2, LastDayIs
  <2>4. year % 4 = 0 <=> z % 4 = 0
    BY <2>1, LeapYearIs
  <2>5. daysInMonth(year, month) = MonthLength(z, month)
    BY <2>4 DEF daysInMonth, MonthLength, isLeapYear
  <2> QED BY <2>3, <2>5 DEF MonthLengthRight
<1> QED BY <1>1, CountedCorrect, PTL

-----------------------------------------------------------------------------
(* The date of a timestamp.                                                *)

\* The seconds up to a time of the n-th day.
Seconds(n, h, m, s) == 86400 * n + ((h * 3600 + m * 60) + s)

\* What the divisions of setDateTime(t) take a count of seconds apart into.
Parts(seconds, n, h, m, s) ==
  /\ seconds % 60 = s
  /\ (seconds \div 60) % 60 = m
  /\ ((seconds \div 60) \div 60) % 24 = h
  /\ ((seconds \div 60) \div 60) \div 24 = n

\* It is the day, hour, minute and second the count was made of.
LEMMA Divided ==
  ASSUME NEW n \in Nat, NEW h \in 0 .. 23, NEW m \in 0 .. 59, NEW s \in 0 .. 59
  PROVE  Parts(Seconds(n, h, m, s), n, h, m, s)
<1>1. PICK seconds \in Nat : seconds = Seconds(n, h, m, s)
  BY DEF Seconds
<1>2. PICK minutes \in Nat : minutes = 1440 * n + (h * 60 + m)
  OBVIOUS
<1>3. seconds = 60 * minutes + s
  BY <1>1, <1>2 DEF Seconds
<1>4. seconds \div 60 = minutes /\ seconds % 60 = s
  BY <1>2, <1>3
<1>5. PICK hours \in Nat : hours = 24 * n + h
  OBVIOUS
<1>6. minutes = 60 * hours + m
  BY <1>2, <1>5
<1>7. minutes \div 60 = hours /\ minutes % 60 = m
  BY <1>2, <1>5, <1>6
<1>8. hours \div 24 = n /\ hours % 24 = h
  BY <1>5
<1> QED BY <1>1, <1>4, <1>7, <1>8 DEF Parts

\* setDateTime(t) finds the date, in GMT+1, of every day from 2000 to 2099, and
\* the time of day of every hour, minute and second of it.
THEOREM TimestampCorrect == Spec => []TimestampRight
<1>1. Counted => TimestampRight
  <2> SUFFICES ASSUME Counted PROVE TimestampRight
    OBVIOUS
  <2>1. PICK z \in 0 .. 99, m \in 1 .. 12, d \in 1 .. 31 :
          /\ year = z + 2000 /\ month = m /\ day = d
          /\ d <= MonthLength(z, m)
          /\ inYear = First(z, m) + (d - 1) /\ elapsed = Start(z) + inYear
          /\ weekday = ((elapsed + 5) % 7) + 1
    BY CountedSo, Zenon
  <2>2. First(z, m) \in Nat /\ MonthLength(z, m) \in 28 .. 32 /\ yearLength(z) \in 365 .. 366
    <3>1. First(z, m) \in Nat /\ MonthLength(z, m) \in 28 .. 32
      BY FirstGrows, Zenon
    <3>2. yearLength(z) \in 365 .. 366
      BY StartGrows, Zenon
    <3> QED BY <3>1, <3>2
  <2>3. First(z, m) + MonthLength(z, m) <= yearLength(z)
    BY MonthsInYear
  <2>4. PICK n \in Nat : n = d - 1 /\ n < MonthLength(z, m)
    BY <2>1, <2>2
  <2>5. PICK rest \in Nat : rest = First(z, m) + n /\ rest < yearLength(z) /\ inYear = rest
    BY <2>1, <2>2, <2>3, <2>4
  <2>6. PICK days : days = Start(z) + rest /\ days = elapsed
    BY <2>1, <2>5
  <2>7. YearOf(days) = z /\ Years(days)[z] = rest
    BY <2>5, <2>6, YearFound
  <2>8. MonthOf(z, rest) = m /\ Months(z, rest)[m] = n
    <3>1. rest = First(z, m) + n /\ n < MonthLength(z, m)
      BY <2>4, <2>5
    <3> QED BY <3>1, MonthFound, Zenon
  <2>9. fromDays(days) = <<z + 2000, m, n + 1>>
    BY <2>7, <2>8, FromDaysIs
  <2>10. fromDays(elapsed) = <<year, month, day>>
    BY <2>1, <2>4, <2>6, <2>9
  <2>11. elapsed \in Nat
    <3>1. Start(z) \in Nat
      BY StartGrows
    <3> QED BY <2>1, <2>5, <3>1
  <2>12. ASSUME NEW h \in Hour, NEW i \in Minute, NEW s \in Second
         PROVE  fromTimestamp(Timestamp(h, i, s))
                  = [date |-> <<year, month, day>>, time |-> <<h, i, s>>]
    <3>1. h \in 0 .. 23 /\ i \in 0 .. 59 /\ s \in 0 .. 59
      BY TimeAssumption
    <3>2. PICK t : t = Timestamp(h, i, s)
      OBVIOUS
    <3>3. PICK seconds : seconds = t - Epoch
      OBVIOUS
    <3>4. seconds = Seconds(elapsed, h, i, s)
      BY <2>11, <3>1, <3>2, <3>3 DEF Timestamp, Y2000, Zone, Epoch, Seconds
    <3>5. Parts(seconds, elapsed, h, i, s)
      BY <2>11, <3>1, <3>4, Divided, Zenon
    <3>6. fromTimestamp(t) =
            [date |-> fromDays(((seconds \div 60) \div 60) \div 24),
             time |-> <<((seconds \div 60) \div 60) % 24, (seconds \div 60) % 60, seconds % 60>>]
      BY <3>3, Zenon DEF fromTimestamp
    <3>7. fromTimestamp(t) = [date |-> <<year, month, day>>, time |-> <<h, i, s>>]
      BY <2>10, <3>5, <3>6, Zenon DEF Parts
    <3> QED BY <3>2, <3>7, Zenon
  <2> QED BY <2>12, Zenon DEF TimestampRight
<1> QED BY <1>1, CountedCorrect, PTL

-----------------------------------------------------------------------------
(* The timestamp of a date.                                                *)

\* How far date2days is ahead: the leap day is added in the month it ends,
\* and in no later one.
Ahead == IF ~LeapYear THEN 0 ELSE CASE month = 1 -> 0 [] month = 2 -> 1 [] OTHER -> -1

\* The exact error of the days counted and of dateFormat's day of the year.
DaysOffByOne ==
  /\ date2days(year, month, day) - elapsed = Ahead
  /\ dayInYear(year, month, day) - inYear = Ahead

\* date2days() and dayInYear() are a day ahead in February and a day behind
\* from March on in every leap year from 2000 to 2099, and else right: the
\* error never carries over into the next year.
THEOREM DaysOffByOneCorrect == Spec => []DaysOffByOne
<1>1. Counted => DaysOffByOne
  <2> SUFFICES ASSUME Counted PROVE DaysOffByOne
    OBVIOUS
  <2>1. PICK z \in 0 .. 99, m \in 1 .. 12, d \in 1 .. 31 :
          /\ year = z + 2000 /\ month = m /\ day = d
          /\ d <= MonthLength(z, m)
          /\ inYear = First(z, m) + (d - 1) /\ elapsed = Start(z) + inYear
          /\ weekday = ((elapsed + 5) % 7) + 1
    BY CountedSo, Zenon
  <2> DEFINE leap == z % 4 = 0
  <2>2. PICK b \in Nat, s \in Nat : b = Before[m] /\ s = Start(z)
    <3>1. m \in 1 .. 13
      OBVIOUS
    <3>2. Before[m] \in 0 .. 365
      BY <3>1, BeforeGrows
    <3>3. Start(z) \in Nat
      BY StartGrows
    <3>4. Before[m] \in Nat
      BY <3>2
    <3> QED BY <3>3, <3>4
  <2>3. First(z, m) = b + (IF leap /\ m > 2 THEN 1 ELSE 0)
    BY <2>2 DEF First
  <2>4. ASSUME NEW k \in 1 .. 12, NEW e \in Nat
        PROVE  date2days(year, k, e) = s + (e + Before[k] + (IF leap /\ k = 2 THEN 1 ELSE 0) - 1)
    <3>1. daysBefore(k) = Before[k]
      BY DaysBeforeIs
    <3>2. year - 2000 = z
      BY <2>1
    <3>3. Before[k] \in 0 .. 365
      <4>1. k \in 1 .. 13
        OBVIOUS
      <4> QED BY <4>1, BeforeGrows
    <3>4. date2days(year, k, e) = e + Before[k] + (IF k = 2 /\ leap THEN 1 ELSE 0)
                                    + 365 * z + ((z + 3) \div 4) - 1
      BY <3>1, <3>2 DEF date2days, isLeapYear
    <3>5. s = 365 * z + ((z + 3) \div 4)
      BY <2>2 DEF Start
    <3> HIDE DEF leap
    <3>6. PICK q \in Int : q = IF k = 2 /\ leap THEN 1 ELSE 0
      OBVIOUS
    <3>7. q = IF leap /\ k = 2 THEN 1 ELSE 0
      BY <3>6
    <3>8. date2days(year, k, e) = s + (e + Before[k] + q - 1)
      BY <3>3, <3>4, <3>5, <3>6, SMTT(60)
    <3> QED BY <3>7, <3>8
  <2>5. date2days(year, month, day) = s + (d + b + (IF leap /\ m = 2 THEN 1 ELSE 0) - 1)
    BY <2>1, <2>2, <2>4
  <2>6. date2days(year, 1, 1) = s
    <3>1. 1 \in 1 .. 12 /\ 1 \in Nat
      OBVIOUS
    <3>2. Before[1] = 0
      BY BeforeGrows
    <3> HIDE DEF leap
    <3> QED BY <2>4, <3>1, <3>2
  <2>7. Ahead = IF ~leap THEN 0 ELSE IF m = 1 THEN 0 ELSE IF m = 2 THEN 1 ELSE -1
    BY <2>1, LeapYearIs DEF Ahead
  <2> HIDE DEF leap
  <2>8. PICK x \in Int, f \in Int, a \in Int :
          /\ x = IF leap /\ m = 2 THEN 1 ELSE 0
          /\ f = IF leap /\ m > 2 THEN 1 ELSE 0
          /\ a = Ahead
    BY <2>7
  <2>9. a = x - f
    BY <2>7, <2>8
  <2>10. inYear = b + f + (d - 1) /\ elapsed = s + inYear
    BY <2>1, <2>2, <2>3, <2>8
  <2>11. date2days(year, month, day) = s + (d + b + x - 1)
    BY <2>5, <2>8
  <2>12. date2days(year, month, day) - elapsed = a
    BY <2>2, <2>9, <2>10, <2>11
  <2>13. dayInYear(year, month, day) - inYear = a
    BY <2>2, <2>6, <2>9, <2>10, <2>11 DEF dayInYear
  <2> QED BY <2>8, <2>12, <2>13 DEF DaysOffByOne
<1> QED BY <1>1, CountedCorrect, PTL

\* Outside leap years, and in their January, both are right.
THEOREM DayOfYearCorrect == Spec => []DayOfYearRight
<1>1. Counted /\ DaysOffByOne => DayOfYearRight
  <2> SUFFICES ASSUME Counted, DaysOffByOne, ~LeapYear \/ month = 1
               PROVE  /\ date2days(year, month, day) = elapsed
                      /\ dayInYear(year, month, day) = inYear
    BY DEF DayOfYearRight
  <2>1. Ahead = 0
    BY DEF Ahead
  <2>2. PICK z \in 0 .. 99, m \in 1 .. 12, d \in 1 .. 31 :
          /\ year = z + 2000 /\ month = m /\ day = d
          /\ d <= MonthLength(z, m)
          /\ inYear = First(z, m) + (d - 1) /\ elapsed = Start(z) + inYear
          /\ weekday = ((elapsed + 5) % 7) + 1
    BY CountedSo, Zenon
  <2>3. inYear \in Int /\ elapsed \in Int
    <3>1. First(z, m) \in Nat /\ Start(z) \in Nat
      BY FirstGrows, StartGrows
    <3> QED BY <2>2, <3>1
  <2>4. \A k \in 1 .. 12, e \in 1 .. 31 : date2days(year, k, e) \in Int
    <3> SUFFICES ASSUME NEW k \in 1 .. 12, NEW e \in 1 .. 31
                 PROVE  date2days(year, k, e) \in Int
      OBVIOUS
    <3>1. daysBefore(k) \in Int
      <4>1. k \in 1 .. 13
        OBVIOUS
      <4>2. daysBefore(k) = Before[k] /\ Before[k] \in 0 .. 365
        BY <4>1, DaysBeforeIs, BeforeGrows
      <4> QED BY <4>2
    <3>2. year \in Int
      BY <2>2
    <3> DEFINE x == IF k = 2 /\ isLeapYear(year - 2000) THEN 1 ELSE 0
    <3>3. x \in Int
      OBVIOUS
    <3>4. date2days(year, k, e) = e + daysBefore(k) + x + 365 * (year - 2000)
                                    + (((year - 2000) + 3) \div 4) - 1
      BY DEF date2days
    <3> HIDE DEF x
    <3> QED BY <3>1, <3>2, <3>3, <3>4
  <2>5. date2days(year, month, day) \in Int /\ date2days(year, 1, 1) \in Int
    <3>1. 1 \in 1 .. 12 /\ 1 \in 1 .. 31
      OBVIOUS
    <3>2. month \in 1 .. 12 /\ day \in 1 .. 31
      BY <2>2
    <3> QED BY <2>4, <3>1, <3>2, Zenon
  <2>6. dayInYear(year, month, day) \in Int
    BY <2>5 DEF dayInYear
  <2>7. /\ date2days(year, month, day) - elapsed = 0
        /\ dayInYear(year, month, day) - inYear = 0
    BY <2>1, Zenon DEF DaysOffByOne
  <2> QED BY <2>3, <2>5, <2>6, <2>7
<1> QED BY <1>1, CountedCorrect, DaysOffByOneCorrect, PTL

-----------------------------------------------------------------------------
(* The day of the week.                                                    *)

\* Sums that are whole weeks apart are of the same day of the week.
LEMMA SameWeekday ==
  ASSUME NEW a \in Nat, NEW b \in Nat, NEW k \in Int, a = (b + 6) + 7 * k
  PROVE  (IF a % 7 = 0 THEN 7 ELSE a % 7) = ((b + 5) % 7) + 1
OBVIOUS

\* The sum of dow() for a day of year 2000 + z.
WeekSum(z, m, d) ==
  LET w == IF m < 3 THEN z + 1999 ELSE z + 2000
  IN  w + (w \div 4) - (w \div 100) + (w \div 400) + dowArray[m] + d

\* It is whole weeks and six days apart from the days since 2000.
LEMMA SumIs ==
  ASSUME NEW z \in 0 .. 99, NEW m \in 1 .. 12, NEW d \in 1 .. 31
  PROVE  \E k \in Int : WeekSum(z, m, d) = ((Start(z) + (First(z, m) + (d - 1))) + 6) + 7 * k
<1>1. /\ dowArray[1] = 0 /\ dowArray[2] = 3 /\ dowArray[3] = 2 /\ dowArray[4] = 5
      /\ dowArray[5] = 0 /\ dowArray[6] = 3 /\ dowArray[7] = 5 /\ dowArray[8] = 1
      /\ dowArray[9] = 4 /\ dowArray[10] = 6 /\ dowArray[11] = 2 /\ dowArray[12] = 4
  BY DEF dowArray
<1>2. /\ Before[1] = 0 /\ Before[2] = 31 /\ Before[3] = 59 /\ Before[4] = 90 /\ Before[5] = 120
      /\ Before[6] = 151 /\ Before[7] = 181 /\ Before[8] = 212 /\ Before[9] = 243
      /\ Before[10] = 273 /\ Before[11] = 304 /\ Before[12] = 334
  BY DEF Before
<1> DEFINE w == IF m < 3 THEN z + 1999 ELSE z + 2000
           c == IF m < 3 THEN 2478 ELSE 2479
<1>3. PICK q \in Int : dowArray[m] - Before[m] + c = 7 * q
  <2>1. m \in {1, 2, 3, 4, 5, 6, 7, 8, 9, 10, 11, 12}
    OBVIOUS
  <2>2. (dowArray[m] - Before[m] + c) % 7 = 0 /\ dowArray[m] - Before[m] + c \in Int
    BY <1>1, <1>2, <2>1
  <2>3. PICK e \in Int : e = dowArray[m] - Before[m] + c
    BY <2>2
  <2>4. e = 7 * (e \div 7)
    BY <2>2, <2>3
  <2> QED BY <2>3, <2>4
<1>4. dowArray[m] \in Int /\ Before[m] \in Int
  BY <1>1, <1>2
<1>5. w + (w \div 4) - (w \div 100) + (w \div 400)
        = ((Start(z) + First(z, m) - Before[m] - 1) + 6) + c - 364 * z
  <2> DEFINE leap == z % 4 = 0
  <2>1. Start(z) = 365 * z + ((z + 3) \div 4)
    BY DEF Start
  <2>2. First(z, m) = Before[m] + (IF leap /\ m > 2 THEN 1 ELSE 0)
    BY DEF First
  <2>3. CASE m < 3
    <3>1. First(z, m) = Before[m]
      BY <1>4, <2>2, <2>3
    <3>2. w = z + 1999 /\ c = 2478
      BY <2>3
    <3>3. (z + 1999) \div 4 = 499 + ((z + 3) \div 4)
      OBVIOUS
    <3>4. ((z + 1999) \div 400) - ((z + 1999) \div 100) = 0 - 15
      OBVIOUS
    <3> QED BY <1>4, <2>1, <3>1, <3>2, <3>3, <3>4
  <2>4. CASE m >= 3
    <3>1. First(z, m) - Before[m] = IF leap THEN 1 ELSE 0
      BY <1>4, <2>2, <2>4
    <3>2. w = z + 2000 /\ c = 2479
      BY <2>4
    <3>3. (z + 2000) \div 4 = 499 + ((z + 3) \div 4) + (IF leap THEN 1 ELSE 0)
      OBVIOUS
    <3>4. ((z + 2000) \div 400) - ((z + 2000) \div 100) = 0 - 15
      OBVIOUS
    <3>5. First(z, m) \in Int
      BY <1>4, <2>2
    <3>6. PICK f \in Int : f = IF leap THEN 1 ELSE 0
      OBVIOUS
    <3> HIDE DEF leap
    <3>7. w + (w \div 4) - (w \div 100) + (w \div 400)
            = (z + 2000) + (499 + ((z + 3) \div 4) + f) - 15
      <4>1. (z + 2000) \div 4 \in Int /\ (z + 2000) \div 100 \in Int /\ (z + 2000) \div 400 \in Int
        OBVIOUS
      <4> HIDE DEF w
      <4> QED BY <3>2, <3>3, <3>4, <3>6, <4>1
    <3>8. (z + 3) \div 4 \in Int /\ First(z, m) = Before[m] + f
      BY <1>4, <3>1, <3>5, <3>6
    <3>9. (z + 2000) + (499 + ((z + 3) \div 4) + f) - 15
            = ((Start(z) + First(z, m) - Before[m] - 1) + 6) + c - 364 * z
      <4> HIDE DEF w, c
      <4> QED BY <1>4, <2>1, <3>2, <3>5, <3>8
    <3> HIDE DEF w, c
    <3> QED BY <3>7, <3>9
  <2> QED BY <2>3, <2>4
<1> DEFINE sum == w + (w \div 4) - (w \div 100) + (w \div 400) + dowArray[m] + d
           k == q - 52 * z
<1>6. k \in Int
  OBVIOUS
<1>7. Start(z) \in Int /\ First(z, m) \in Int
  <2>1. Start(z) \in Nat /\ First(z, m) \in Nat
    BY FirstGrows, StartGrows
  <2> QED BY <2>1
<1>8. w \in Int /\ c \in Int
  OBVIOUS
<1>9. PICK x \in Int : x = w + (w \div 4) - (w \div 100) + (w \div 400)
  BY <1>8
<1>10. sum = ((Start(z) + (First(z, m) + (d - 1))) + 6) + 7 * k
  <2>1. sum = x + dowArray[m] + d
    BY <1>9
  <2>2. x = ((Start(z) + First(z, m) - Before[m] - 1) + 6) + c - 364 * z
    BY <1>5, <1>9
  <2> HIDE DEF w, c, sum
  <2> QED BY <1>3, <1>4, <1>7, <1>8, <2>1, <2>2
<1>11. WeekSum(z, m, d) = sum
  BY DEF WeekSum
<1> HIDE DEF k, sum
<1> QED BY <1>6, <1>10, <1>11, Zenon

\* dow() gives the day of the week of every day from 2000 to 2099.
THEOREM WeekdayCorrect == Spec => []WeekdayRight
<1>1. Counted => WeekdayRight
  <2> SUFFICES ASSUME Counted PROVE WeekdayRight
    OBVIOUS
  <2>1. PICK z \in 0 .. 99, m \in 1 .. 12, d \in 1 .. 31 :
          /\ year = z + 2000 /\ month = m /\ day = d
          /\ d <= MonthLength(z, m)
          /\ inYear = First(z, m) + (d - 1) /\ elapsed = Start(z) + inYear
          /\ weekday = ((elapsed + 5) % 7) + 1
    BY CountedSo, Zenon
  <2> DEFINE w == IF m < 3 THEN z + 1999 ELSE z + 2000
             sum == w + (w \div 4) - (w \div 100) + (w \div 400) + dowArray[m] + d
  <2>0. WeekSum(z, m, d) = sum
    BY DEF WeekSum
  <2>2. PICK k \in Int : sum = ((Start(z) + (First(z, m) + (d - 1))) + 6) + 7 * k
    <3> HIDE DEF sum
    <3> QED BY <2>0, SumIs, Zenon
  <2>3. (IF m < 3 THEN year - 1 ELSE year) = w
    BY <2>1
  <2>4. dow(year, month, day) = IF sum % 7 = 0 THEN 7 ELSE sum % 7
    <3>1. dow(year, m, d) = LET v == IF m < 3 THEN year - 1 ELSE year
                                u == v + (v \div 4) - (v \div 100) + (v \div 400) + dowArray[m] + d
                            IN  IF u % 7 = 0 THEN 7 ELSE u % 7
      BY DEF dow
    <3>2. dow(year, m, d) = IF sum % 7 = 0 THEN 7 ELSE sum % 7
      <4> HIDE DEF w
      <4> QED BY <2>3, <3>1
    <3> HIDE DEF sum
    <3> QED BY <2>1, <3>2
  <2>5. elapsed \in Nat /\ elapsed = Start(z) + (First(z, m) + (d - 1))
    <3>1. Start(z) \in Nat /\ First(z, m) \in Nat
      BY FirstGrows, StartGrows
    <3>2. elapsed = Start(z) + (First(z, m) + (d - 1))
      BY <2>1
    <3> QED BY <3>1, <3>2
  <2>6. sum \in Nat
    <3>1. w \in 1999 .. 2099
      OBVIOUS
    <3>2. dowArray[m] \in 0 .. 6
      BY DEF dowArray
    <3>3. w - (w \div 100) \in Nat /\ w \div 4 \in Nat /\ w \div 400 \in Nat /\ w \div 100 \in Nat
      BY <3>1
    <3> HIDE DEF w
    <3> QED BY <3>1, <3>2, <3>3
  <2> HIDE DEF sum
  <2>7. PICK a \in Nat, b \in Nat : a = sum /\ b = elapsed
    BY <2>5, <2>6
  <2>8. (IF a % 7 = 0 THEN 7 ELSE a % 7) = ((b + 5) % 7) + 1
    BY <2>2, <2>5, <2>7, SameWeekday
  <2> QED BY <2>1, <2>4, <2>7, <2>8 DEF WeekdayRight
<1> QED BY <1>1, CountedCorrect, PTL

=============================================================================

--------------------------- MODULE LcdLinkProofs ----------------------------
(***************************************************************************)
(* Proofs about LcdLink, for a display of up to 16 columns, any texts that *)
(* fit, any calls and any number of losses and resets: after a begin()     *)
(* that lost nothing, library and controller agree on the next pulse, the  *)
(* copies of the modes are true, and a page that was drawn is shown.       *)
(*                                                                         *)
(* The invariant follows a call transfer by transfer: which bytes it       *)
(* sends, how many of them and how much of the next one is sent, and what  *)
(* those that are sent have done.                                          *)
(***************************************************************************)
EXTENDS LcdLink, SequenceTheorems, WellFoundedInduction, TLAPS

-----------------------------------------------------------------------------
\* A set of numbers that is not empty has a least one.
LEMMA LeastNatural ==
  ASSUME NEW T, T \subseteq Nat, T # {}
  PROVE  \E x \in T : \A y \in T : x <= y
<1>1. PICK x \in T : \A y \in T : <<y, x>> \notin OpToRel(<, Nat)
  BY NatLessThanWellFounded, WFMin
<1>2. \A y \in T : <<y, x>> \in OpToRel(<, Nat) <=> y < x
  BY DEF OpToRel
<1>3. \A y \in T : ~(y < x)
  BY <1>1, <1>2, Zenon
<1> QED BY <1>3

\* A set with 0 in it, and with each number the next, has all numbers in it.
LEMMA SetInduction ==
  ASSUME NEW S, 0 \in S, \A n \in Nat : n \in S => n + 1 \in S
  PROVE  \A n \in Nat : n \in S
<1> SUFFICES ASSUME Nat \ S # {} PROVE FALSE
  OBVIOUS
<1>1. PICK x \in Nat \ S : \A y \in Nat \ S : x <= y
  BY LeastNatural
<1>2. x - 1 \in Nat
  BY <1>1
<1>3. x - 1 \in S
  BY <1>1, <1>2
<1> QED BY <1>1, <1>2, <1>3

-----------------------------------------------------------------------------
(* The transfers of a call, counted.                                       *)

\* A byte for the controller, as a command or as data.
Item == [rs : BOOLEAN, byte : Byte]
Cmd(v) == [rs |-> FALSE, byte |-> v]
Data(text) == [i \in 1 .. Len(text) |-> [rs |-> TRUE, byte |-> text[i]]]

\* The six transfers of a byte: each half is set up, pulsed and let go.
Half(v, j) == IF j <= 3 THEN v \div 16 ELSE v % 16
Down(rs, n) == Bits(rs, n, FALSE)
Up(rs, n) == Bits(rs, n, TRUE)
Part(b, j) == IF j \in {2, 5} THEN Up(b.rs, Half(b.byte, j)) ELSE Down(b.rs, Half(b.byte, j))
Parts(bytes) ==
  [k \in 1 .. 6 * Len(bytes) |-> Part(bytes[(k - 1) \div 6 + 1], ((k - 1) % 6) + 1)]

Suffix(s, m) == SubSeq(s, m, Len(s))

\* The bytes of each call.
BeginBytes == <<Cmd(40), Cmd(12), Cmd(1), Cmd(6), Cmd(2)>>
DrawBytes(p) == <<Cmd(1), Cmd(128)>> \o Data(p[0]) \o <<Cmd(192)>> \o Data(p[1])
OptionBytes == <<Cmd(8 + OptionBits(_displaycontrol))>>
ModeBytes == <<Cmd(4 + ModeBits(_displaymode))>>
PatternBytes == <<Cmd(72)>> \o Data([i \in 1 .. 8 |-> 0])
Others == {<<Cmd(24)>>, <<Cmd(28)>>, <<Cmd(2)>>, PatternBytes}
Scripts == {BeginBytes, OptionBytes, ModeBytes} \cup Others \cup {DrawBytes(p) : p \in Page}

-----------------------------------------------------------------------------
(* The inductive invariant.                                                *)

LcdType == lcd.half >= 0 => lcd.four

\* Before the m-th transfer of begin(), which first makes the controller
\* read bytes, then nibbles.
WakeNibble(m) == IF m = 1 THEN 0 ELSE IF m <= 10 THEN 3 ELSE 2
Wake(m) ==
  IF m \in {3, 6, 9, 12} THEN Up(FALSE, WakeNibble(m)) ELSE Down(FALSE, WakeNibble(m))
WakeState(m) ==
  /\ m > 1 => lines = Wake(m - 1)
  /\ m \in 5 .. 7 /\ lcd.four => lcd.half \in {-1, 3}
  /\ m \in 8 .. 10 /\ lcd.four => lcd.half = 3
  /\ m > 10 => ~lcd.four
Waking ==
  /\ _displaycontrol = {"display"} /\ _displaymode = Rightward /\ page = NoPage
  /\ \E m \in 1 .. 13 : todo = Suffix(begin, m) /\ WakeState(m)

\* k bytes were sent, and j transfers of the next one.
Sending(bytes, k, j) ==
  /\ todo = Suffix(Parts(bytes), 6 * k + j + 1)
  /\ lcd.four /\ lcd.half = (IF j < 3 THEN -1 ELSE bytes[k + 1].byte \div 16)
  /\ IF j = 0 THEN ~lines.en ELSE lines = Part(bytes[k + 1], j)

ModeCopied == lcd.mode.moving = _displaymode.moving /\ (_displaymode.right => lcd.mode.right)
Copied == lcd.options = _displaycontrol /\ ModeCopied

Showing ==
  page # NoPage /\ ~_displaymode.moving =>
    /\ lcd.shift = 0
    /\ \A r \in Row, c \in 0 .. Columns - 1 :
         lcd.cells[r * 64 + c] = IF c < Len(page[r]) THEN page[r][c + 1] ELSE Space

\* What the first k bytes of each call have done.
BeginDone(k) ==
  /\ _displaycontrol = {"display"} /\ _displaymode = Rightward /\ page = NoPage
  /\ k >= 2 => lcd.options = {"display"}
  /\ k >= 4 => lcd.mode = Rightward

\* The columns of row r that k bytes of a page have filled.
Filled(p, r, k) == IF r = 0 THEN k - 2 ELSE k - 3 - Len(p[0])
Shows(l, moving, p, k) ==
  /\ l.ddram /\ l.mode.right /\ (~moving => l.shift = 0)
  /\ l.addr = IF k = 1 THEN 0 ELSE IF k <= 2 + Len(p[0]) THEN k - 2 ELSE 64 + (k - 3 - Len(p[0]))
  /\ \A r \in Row, c \in 0 .. Columns - 1 :
       l.cells[r * 64 + c] = IF c < Len(p[r]) /\ c < Filled(p, r, k) THEN p[r][c + 1] ELSE Space
Drawn(p, k) == Shows(lcd, _displaymode.moving, p, k)
DrawDone(p, k) == page = p /\ Copied /\ (k > 0 => Drawn(p, k))

Done(bytes, k) ==
  \/ bytes = BeginBytes /\ BeginDone(k)
  \/ \E p \in Page : bytes = DrawBytes(p) /\ DrawDone(p, k)
  \/ bytes = OptionBytes /\ ModeCopied /\ Showing /\ (k = 1 => lcd.options = _displaycontrol)
  \/ bytes = ModeBytes /\ lcd.options = _displaycontrol /\ page = NoPage /\ (k = 1 => ModeCopied)
  \/ bytes \in Others /\ Copied /\ page = NoPage

Resting ==
  /\ todo \in {<<>>, <<Quiet>>}
  /\ lcd.four /\ lcd.half = -1 /\ ~lines.en
  /\ Copied /\ Showing
  /\ todo = <<>> => lit = _backlightval

LinkInv ==
  started /\ intact =>
    \/ Waking
    \/ Resting
    \/ \E bytes \in Scripts : \E k \in 0 .. Len(bytes) - 1, j \in 0 .. 5 :
         Sending(bytes, k, j) /\ Done(bytes, k)

Fresh == ~started => page = NoPage

IInv == TypeOK /\ LcdType /\ LinkInv /\ Fresh

\* FlattenSeq as the function that joins one sequence after the other.
LEMMA FlattenIs ==
  ASSUME NEW seqs, Len(seqs) # 0
  PROVE  FlattenSeq(seqs) =
           (CHOOSE f : f = [i \in 1 .. Len(seqs) |->
                              IF i = 1 THEN seqs[i] ELSE f[i - 1] \o seqs[i]])[Len(seqs)]
BY DEF FlattenSeq

\* Lines of the expander.
LEMMA BitsType ==
  ASSUME NEW rs \in BOOLEAN, NEW n \in Nibble, NEW en \in BOOLEAN
  PROVE  Bits(rs, n, en) \in Transfer
BY DEF Bits, Transfer

\* Lines of the expander, with En up and with En down.
LEMMA LineType ==
  ASSUME NEW rs \in BOOLEAN, NEW n \in Nibble
  PROVE  Up(rs, n) \in Transfer /\ Down(rs, n) \in Transfer
BY BitsType DEF Up, Down

\* A byte is its two halves.
LEMMA Halves ==
  ASSUME NEW v \in Byte
  PROVE  v \div 16 \in Nibble /\ v % 16 \in Nibble /\ v = (v \div 16) * 16 + (v % 16)
BY DEF Byte, Nibble

\* A transfer of a byte is one of the lines of the expander.
LEMMA PartType ==
  ASSUME NEW b \in Item, NEW j \in 1 .. 6
  PROVE  Part(b, j) \in Transfer
<1>1. b.rs \in BOOLEAN /\ b.byte \in Byte
  BY DEF Item
<1>2. Half(b.byte, j) \in Nibble
  BY <1>1, Halves DEF Half
<1> QED BY <1>1, <1>2, LineType DEF Part

\* write4bits: three transfers, the second with En up.
LEMMA WriteIs ==
  ASSUME NEW n \in Nibble, NEW rs \in BOOLEAN
  PROVE  /\ write4bits(n, rs) \in Seq(Transfer) /\ Len(write4bits(n, rs)) = 3
         /\ write4bits(n, rs)[1] = Down(rs, n)
         /\ write4bits(n, rs)[2] = Up(rs, n)
         /\ write4bits(n, rs)[3] = Down(rs, n)
<1>1. Down(rs, n) \in Transfer /\ Up(rs, n) \in Transfer
  BY LineType
<1>2. write4bits(n, rs) = <<Down(rs, n), Up(rs, n), Down(rs, n)>>
  BY DEF write4bits, Up, Down
<1> QED BY <1>1, <1>2

\* send: the six transfers of a byte.
LEMMA SendIs ==
  ASSUME NEW v \in Byte, NEW rs \in BOOLEAN
  PROVE  /\ send(v, rs) \in Seq(Transfer) /\ Len(send(v, rs)) = 6
         /\ \A j \in 1 .. 6 : send(v, rs)[j] = Part([rs |-> rs, byte |-> v], j)
<1> DEFINE hi == write4bits(v \div 16, rs)
           lo == write4bits(v % 16, rs)
<1>2. /\ hi \in Seq(Transfer) /\ lo \in Seq(Transfer) /\ Len(hi) = 3 /\ Len(lo) = 3
      /\ hi[1] = Down(rs, v \div 16) /\ hi[2] = Up(rs, v \div 16) /\ hi[3] = Down(rs, v \div 16)
      /\ lo[1] = Down(rs, v % 16) /\ lo[2] = Up(rs, v % 16) /\ lo[3] = Down(rs, v % 16)
  <2>1. v \div 16 \in Nibble /\ v % 16 \in Nibble
    BY Halves
  <2> QED BY <2>1, WriteIs
<1>3. send(v, rs) = hi \o lo
  BY DEF send
<1> HIDE DEF hi, lo
<1>4. /\ hi \o lo \in Seq(Transfer) /\ Len(hi \o lo) = 6
      /\ \A i \in 1 .. 6 : (hi \o lo)[i] = IF i <= 3 THEN hi[i] ELSE lo[i - 3]
  <2>1. hi \in Seq(Transfer) /\ lo \in Seq(Transfer) /\ Len(hi) = 3 /\ Len(lo) = 3
    BY <1>2
  <2>2. /\ hi \o lo \in Seq(Transfer) /\ Len(hi \o lo) = Len(hi) + Len(lo)
        /\ \A i \in 1 .. Len(hi) + Len(lo) :
             (hi \o lo)[i] = IF i <= Len(hi) THEN hi[i] ELSE lo[i - Len(hi)]
    BY <2>1, ConcatProperties, Zenon
  <2>3. Len(hi) + Len(lo) = 6
    BY <2>1
  <2> QED BY <2>1, <2>2, <2>3
<1>5. ASSUME NEW j \in 1 .. 6 PROVE (hi \o lo)[j] = Part([rs |-> rs, byte |-> v], j)
  <2> DEFINE up == v \div 16
             down == v % 16
  <2>1. /\ hi[1] = Down(rs, up) /\ hi[2] = Up(rs, up) /\ hi[3] = Down(rs, up)
        /\ lo[1] = Down(rs, down) /\ lo[2] = Up(rs, down) /\ lo[3] = Down(rs, down)
    BY <1>2
  <2>2. Half(v, j) = IF j <= 3 THEN up ELSE down
    BY DEF Half
  <2> HIDE DEF up, down
  <2>3. (hi \o lo)[j] = IF j \in {2, 5} THEN Up(rs, Half(v, j)) ELSE Down(rs, Half(v, j))
    BY <1>4, <2>1, <2>2, SMTT(60)
  <2> QED BY <2>3 DEF Part
<1> QED BY <1>3, <1>4, <1>5

\* The place of a transfer: in the byte before it are 6 * (i - 1).
LEMMA Places ==
  /\ \A n \in Nat, k \in Nat : k \in 1 .. 6 * n =>
        (k - 1) \div 6 + 1 \in 1 .. n /\ ((k - 1) % 6) + 1 \in 1 .. 6
  /\ \A i \in Nat, j \in 1 .. 6 : i > 0 =>
        (6 * (i - 1) + j - 1) \div 6 + 1 = i /\ ((6 * (i - 1) + j - 1) % 6) + 1 = j
OBVIOUS

\* The transfers of bytes, six of each.
LEMMA PartsIs ==
  ASSUME NEW bytes \in Seq(Item)
  PROVE  /\ Parts(bytes) \in Seq(Transfer)
         /\ Len(Parts(bytes)) = 6 * Len(bytes)
         /\ \A k \in 0 .. Len(bytes) - 1, j \in 1 .. 6 : Parts(bytes)[6 * k + j] = Part(bytes[k + 1], j)
<1>1. Len(bytes) \in Nat /\ \A i \in 1 .. Len(bytes) : bytes[i] \in Item
  BY LenProperties, ElementOfSeq
<1>2. ASSUME NEW k \in 1 .. 6 * Len(bytes)
      PROVE  Part(bytes[(k - 1) \div 6 + 1], ((k - 1) % 6) + 1) \in Transfer
  BY <1>1, Places, PartType
<1>3. Parts(bytes) \in [1 .. 6 * Len(bytes) -> Transfer]
  BY <1>2 DEF Parts
<1>4. Parts(bytes) \in Seq(Transfer) /\ Len(Parts(bytes)) = 6 * Len(bytes)
  BY <1>1, <1>3
<1>5. ASSUME NEW k \in 0 .. Len(bytes) - 1, NEW j \in 1 .. 6
      PROVE  Parts(bytes)[6 * k + j] = Part(bytes[k + 1], j)
  <2>1. 6 * k + j \in 1 .. 6 * Len(bytes) /\ k + 1 \in Nat /\ k + 1 > 0 /\ 6 * ((k + 1) - 1) + j = 6 * k + j
    BY <1>1
  <2>2. (6 * k + j - 1) \div 6 + 1 = k + 1 /\ ((6 * k + j - 1) % 6) + 1 = j
    BY <2>1, Places
  <2> QED BY <2>1, <2>2 DEF Parts
<1> QED BY <1>4, <1>5

\* The bytes of a text.
LEMMA DataIs ==
  ASSUME NEW text \in Seq(Byte)
  PROVE  /\ Data(text) \in Seq(Item) /\ Len(Data(text)) = Len(text)
         /\ \A i \in 1 .. Len(text) : Data(text)[i] = [rs |-> TRUE, byte |-> text[i]]
<1>1. Len(text) \in Nat /\ \A i \in 1 .. Len(text) : text[i] \in Byte
  BY LenProperties, ElementOfSeq
<1>2. Data(text) \in [1 .. Len(text) -> Item]
  BY <1>1 DEF Data, Item
<1> QED BY <1>1, <1>2 DEF Data

\* A command is a byte that is not data.
LEMMA CmdType == \A v \in Byte : Cmd(v) \in Item /\ Cmd(v).rs = FALSE /\ Cmd(v).byte = v
BY DEF Cmd, Item

\* The transfers of bytes joined are their transfers joined.
LEMMA PartsConcat ==
  ASSUME NEW a \in Seq(Item), NEW b \in Seq(Item)
  PROVE  Parts(a \o b) = Parts(a) \o Parts(b)
<1> DEFINE s == Parts(a \o b)
           t == Parts(a) \o Parts(b)
           m == Len(a)
           n == Len(b)
<1>1. /\ a \o b \in Seq(Item) /\ Len(a \o b) = m + n /\ m \in Nat /\ n \in Nat
      /\ \A i \in 1 .. m + n : (a \o b)[i] = IF i <= m THEN a[i] ELSE b[i - m]
  BY ConcatProperties, LenProperties
<1>2. s \in Seq(Transfer) /\ Len(s) = 6 * (m + n)
  BY <1>1, PartsIs, Zenon
<1>3. /\ Parts(a) \in Seq(Transfer) /\ Len(Parts(a)) = 6 * m
      /\ Parts(b) \in Seq(Transfer) /\ Len(Parts(b)) = 6 * n
  BY PartsIs
<1>4. /\ t \in Seq(Transfer) /\ Len(t) = 6 * m + 6 * n
      /\ \A i \in 1 .. 6 * m + 6 * n : t[i] = IF i <= 6 * m THEN Parts(a)[i] ELSE Parts(b)[i - 6 * m]
  <2> DEFINE pa == Parts(a)
             pb == Parts(b)
  <2>1. pa \in Seq(Transfer) /\ pb \in Seq(Transfer) /\ Len(pa) = 6 * m /\ Len(pb) = 6 * n
    BY <1>3
  <2> HIDE DEF pa, pb
  <2>2. /\ pa \o pb \in Seq(Transfer) /\ Len(pa \o pb) = Len(pa) + Len(pb)
        /\ \A i \in 1 .. Len(pa) + Len(pb) :
             (pa \o pb)[i] = IF i <= Len(pa) THEN pa[i] ELSE pb[i - Len(pa)]
    BY <2>1, ConcatProperties, Zenon
  <2>3. t = pa \o pb
    BY DEF pa, pb
  <2> HIDE DEF t, m, n
  <2> QED BY <2>1, <2>2, <2>3 DEF pa, pb
<1>5. ASSUME NEW x \in 1 .. 6 * (m + n) PROVE s[x] = t[x]
  <2>1. PICK k \in 0 .. m + n - 1, j \in 1 .. 6 : x = 6 * k + j
    <3>1. PICK N \in Nat : N = m + n
      BY <1>1
    <3>2. PICK y \in Nat : y = x - 1 /\ y < 6 * N
      BY <3>1
    <3>3. PICK q \in Int, r \in 0 .. 5 : y = 6 * q + r
      <4>1. y \div 6 \in Int /\ y % 6 \in 0 .. 5 /\ y = 6 * (y \div 6) + (y % 6)
        OBVIOUS
      <4> QED BY <4>1
    <3>4. q \in 0 .. N - 1 /\ r + 1 \in 1 .. 6 /\ x = 6 * q + (r + 1)
      BY <3>1, <3>2, <3>3
    <3> QED BY <3>1, <3>4
  <2>2. s[x] = Part((a \o b)[k + 1], j)
    <3>1. \A i \in 0 .. Len(a \o b) - 1, l \in 1 .. 6 : s[6 * i + l] = Part((a \o b)[i + 1], l)
      BY <1>1, PartsIs, Zenon
    <3>2. k \in 0 .. Len(a \o b) - 1
      BY <1>1
    <3> QED BY <2>1, <3>1, <3>2
  <2>3. CASE k < m
    <3>1. k \in 0 .. m - 1 /\ x <= 6 * m /\ k + 1 <= m /\ k + 1 \in 1 .. m + n /\ x \in 1 .. 6 * m + 6 * n
      BY <1>1, <2>1, <2>3
    <3>2. Parts(a)[6 * k + j] = Part(a[k + 1], j)
      BY <3>1, PartsIs, Zenon
    <3>3. t[x] = Parts(a)[x] /\ (a \o b)[k + 1] = a[k + 1]
      BY <1>1, <1>4, <3>1
    <3> QED BY <2>1, <2>2, <3>2, <3>3
  <2>4. CASE k >= m
    <3> DEFINE l == k - m
    <3>1. l \in 0 .. n - 1 /\ ~(x <= 6 * m) /\ ~(k + 1 <= m) /\ k + 1 \in 1 .. m + n
          /\ x \in 1 .. 6 * m + 6 * n /\ x - 6 * m = 6 * l + j /\ k + 1 - m = l + 1
      BY <1>1, <2>1, <2>4
    <3>2. Parts(b)[6 * l + j] = Part(b[l + 1], j)
      BY <3>1, PartsIs, Zenon
    <3>3. t[x] = Parts(b)[x - 6 * m] /\ (a \o b)[k + 1] = b[k + 1 - m]
      BY <1>1, <1>4, <3>1, SMTT(60)
    <3> QED BY <2>2, <3>1, <3>2, <3>3
  <2>5. k < m \/ k >= m
    BY <1>1
  <2> QED BY <2>3, <2>4, <2>5, Zenon
<1>6. 6 * (m + n) = 6 * m + 6 * n
  BY <1>1
<1> HIDE DEF s, t
<1>7. s = t
  BY <1>2, <1>4, <1>5, <1>6, SeqEqual
<1> QED BY <1>7 DEF s, t

\* The transfers of one byte are what send makes.
LEMMA PartsOne ==
  ASSUME NEW v \in Byte, NEW rs \in BOOLEAN
  PROVE  Parts(<<[rs |-> rs, byte |-> v]>>) = send(v, rs)
<1> DEFINE b == [rs |-> rs, byte |-> v]
           s == Parts(<<b>>)
           t == send(v, rs)
<1>1. b \in Item
  BY DEF Item
<1> HIDE DEF b
<1>2. <<b>> \in Seq(Item) /\ Len(<<b>>) = 1 /\ <<b>>[1] = b
  BY <1>1
<1>3. /\ s \in Seq(Transfer) /\ Len(s) = 6
      /\ \A k \in 0 .. 0, j \in 1 .. 6 : s[6 * k + j] = Part(<<b>>[k + 1], j)
  <2> DEFINE c == <<b>>
  <2>1. c \in Seq(Item) /\ Len(c) = 1 /\ s = Parts(c)
    BY <1>2
  <2> HIDE DEF c, s
  <2>2. /\ Parts(c) \in Seq(Transfer) /\ Len(Parts(c)) = 6 * Len(c)
        /\ \A k \in 0 .. Len(c) - 1, j \in 1 .. 6 : Parts(c)[6 * k + j] = Part(c[k + 1], j)
    BY <2>1, PartsIs, Zenon
  <2> QED BY <2>1, <2>2 DEF c
<1>4. \A j \in 1 .. 6 : s[j] = Part(b, j)
  <2> TAKE j \in 1 .. 6
  <2>1. s[6 * 0 + j] = Part(<<b>>[0 + 1], j)
    BY <1>3
  <2> QED BY <1>2, <2>1
<1>5. t \in Seq(Transfer) /\ Len(t) = 6 /\ \A j \in 1 .. 6 : t[j] = Part(b, j)
  BY SendIs DEF b
<1> HIDE DEF s, t
<1>6. s = t
  BY <1>3, <1>4, <1>5, SeqEqual
<1> QED BY <1>6 DEF s, t, b

Joins(f, s, n) == \A i \in 1 .. n : f[i] = IF i = 1 THEN s[i] ELSE f[i - 1] \o s[i]

\* Joining has one result.
LEMMA SameFold ==
  ASSUME NEW n \in Nat, NEW s, NEW f, NEW g, Joins(f, s, n), Joins(g, s, n)
  PROVE  \A i \in 1 .. n : f[i] = g[i]
<1> DEFINE S == {m \in Nat : m + 1 \in 1 .. n => f[m + 1] = g[m + 1]}
<1>1. 0 \in S
  BY DEF Joins
<1>2. ASSUME NEW m \in Nat, m \in S PROVE m + 1 \in S
  <2> SUFFICES ASSUME NEW k \in 1 .. n, k = (m + 1) + 1 PROVE f[k] = g[k]
    BY <1>2
  <2>1. k # 1 /\ k - 1 \in 1 .. n /\ m + 1 = k - 1
    OBVIOUS
  <2>2. f[k - 1] = g[k - 1]
    BY <1>2, <2>1
  <2>3. f[k] = f[k - 1] \o s[k] /\ g[k] = g[k - 1] \o s[k]
    BY <2>1, Zenon DEF Joins
  <2> QED BY <2>2, <2>3
<1> HIDE DEF S
<1>3. \A m \in Nat : m \in S
  BY <1>1, <1>2, SetInduction
<1>4. ASSUME NEW i \in 1 .. n PROVE f[i] = g[i]
  <2>1. i - 1 \in Nat /\ (i - 1) + 1 = i
    OBVIOUS
  <2> QED BY <1>3, <2>1 DEF S
<1> QED BY <1>4

\* Sending byte after byte makes the transfers of the bytes.
LEMMA FlattenSends ==
  ASSUME NEW bytes \in Seq(Item)
  PROVE  FlattenSeq([i \in 1 .. Len(bytes) |-> send(bytes[i].byte, bytes[i].rs)]) = Parts(bytes)
<1> DEFINE n == Len(bytes)
           seqs == [i \in 1 .. n |-> send(bytes[i].byte, bytes[i].rs)]
           G == [i \in 1 .. n |-> Parts(SubSeq(bytes, 1, i))]
<1>1. n \in Nat /\ \A i \in 1 .. n : bytes[i] \in Item
  BY LenProperties, ElementOfSeq
<1>2. Len(seqs) = n /\ \A i \in 1 .. n : seqs[i] = Parts(<<bytes[i]>>)
  <2>1. ASSUME NEW i \in 1 .. n PROVE seqs[i] = Parts(<<bytes[i]>>)
    <3>1. bytes[i].rs \in BOOLEAN /\ bytes[i].byte \in Byte
          /\ bytes[i] = [rs |-> bytes[i].rs, byte |-> bytes[i].byte]
      BY <1>1 DEF Item
    <3> QED BY <3>1, PartsOne
  <2>2. Len(seqs) = n
    BY <1>1
  <2> QED BY <2>1, <2>2
<1>3. CASE n = 0
  <2>1. FlattenSeq(seqs) = <<>>
    BY <1>2, <1>3 DEF FlattenSeq
  <2>2. Parts(bytes) = <<>>
    <3>1. Parts(bytes) \in Seq(Transfer) /\ Len(Parts(bytes)) = 6 * n
      BY PartsIs
    <3>2. Len(Parts(bytes)) = 0
      BY <1>3, <3>1
    <3> QED BY <3>1, <3>2, EmptySeq
  <2> QED BY <2>1, <2>2
<1>4. CASE n # 0
  <2> DEFINE F(f) == [i \in 1 .. Len(seqs) |-> IF i = 1 THEN seqs[i] ELSE f[i - 1] \o seqs[i]]
  <2>1. \A i \in 1 .. n : i > 1 => G[i] = G[i - 1] \o seqs[i]
    <3> SUFFICES ASSUME NEW i \in 1 .. n, i > 1 PROVE G[i] = G[i - 1] \o seqs[i]
      OBVIOUS
    <3>1. 1 \in 1 .. Len(bytes) /\ i \in 1 .. Len(bytes) /\ i - 1 \in 1 .. n
      BY <1>1
    <3>2. SubSeq(bytes, 1, i) = SubSeq(bytes, 1, i - 1) \o <<bytes[i]>>
      BY <3>1, SubSeqRecursiveSecond, Zenon
    <3>3. SubSeq(bytes, 1, i - 1) \in Seq(Item)
      BY <1>1
    <3>4. <<bytes[i]>> \in Seq(Item)
      BY <1>1
    <3>5. G[i] = Parts(SubSeq(bytes, 1, i - 1)) \o Parts(<<bytes[i]>>)
      BY <3>2, <3>3, <3>4, PartsConcat
    <3> QED BY <1>2, <3>1, <3>5
  <2>2. G[1] = seqs[1]
    <3>1. 1 \in 1 .. n
      BY <1>1, <1>4
    <3>2. SubSeq(bytes, 1, 1) = SubSeq(bytes, 1, 0) \o <<bytes[1]>>
      <4>1. 1 \in 1 .. Len(bytes) /\ 1 \in 1 .. 1 /\ 1 \in 1 .. Len(bytes) /\ 1 - 1 = 0 /\ 1 \in 1 .. Len(bytes)
        BY <3>1
      <4>2. SubSeq(bytes, 1, 1) = SubSeq(bytes, 1, 1 - 1) \o <<bytes[1]>>
        BY <4>1, SubSeqRecursiveSecond
      <4> QED BY <4>1, <4>2
    <3>3. SubSeq(bytes, 1, 0) = <<>>
      BY SubSeqEmpty
    <3>4. <<bytes[1]>> \in Seq(Item)
      BY <1>1, <3>1
    <3>5. SubSeq(bytes, 1, 1) = <<bytes[1]>>
      BY <3>2, <3>3, <3>4, ConcatEmptySeq
    <3> QED BY <1>2, <3>1, <3>5
  <2>10. \A i \in 1 .. n : G[i] = IF i = 1 THEN seqs[i] ELSE G[i - 1] \o seqs[i]
    <3> HIDE DEF G, seqs, n
    <3> TAKE i \in 1 .. n
    <3>1. CASE i = 1
      BY <2>2, <3>1, Zenon
    <3>2. CASE i # 1
      <4>1. i > 1
        BY <1>1, <3>2
      <4> QED BY <2>1, <3>2, <4>1, Zenon
    <3> QED BY <3>1, <3>2
  <2>3. G = F(G)
    <3>2. G = [i \in 1 .. n |-> G[i]]
      OBVIOUS
    <3> HIDE DEF G, seqs, n
    <3> QED BY <1>2, <2>10, <3>2
  <2> DEFINE flatten == CHOOSE f : f = F(f)
  <2>4. flatten = F(flatten)
    BY <2>3
  <2>9. \A i \in 1 .. n : flatten[i] = IF i = 1 THEN seqs[i] ELSE flatten[i - 1] \o seqs[i]
    <3> HIDE DEF flatten, seqs, n
    <3> QED BY <1>2, <2>4
  <2>5. FlattenSeq(seqs) = flatten[n]
    BY <1>2, <1>4, FlattenIs
  <2>7. flatten[n] = G[n]
    <3>1. Joins(G, seqs, n) /\ Joins(flatten, seqs, n)
      BY <2>9, <2>10 DEF Joins
    <3>2. n \in 1 .. n
      BY <1>1, <1>4
    <3> HIDE DEF flatten, G, seqs, n
    <3>3. \A i \in 1 .. n : flatten[i] = G[i]
      BY <1>1, <3>1, SameFold
    <3> QED BY <3>2, <3>3
  <2>8. G[n] = Parts(bytes)
    <3>1. SubSeq(bytes, 1, n) = bytes
      BY SubSeqFull
    <3>2. n \in 1 .. n
      BY <1>1, <1>4
    <3> QED BY <3>1, <3>2
  <2> QED BY <2>5, <2>7, <2>8
<1> QED BY <1>3, <1>4

\* print makes the transfers of its text.
LEMMA PrintIs ==
  ASSUME NEW text \in Seq(Byte)
  PROVE  print(text) = Parts(Data(text))
<1>1. /\ Data(text) \in Seq(Item) /\ Len(Data(text)) = Len(text)
      /\ \A i \in 1 .. Len(text) : Data(text)[i].byte = text[i] /\ Data(text)[i].rs = TRUE
  <2> DEFINE d == Data(text)
  <2>1. d \in Seq(Item) /\ Len(d) = Len(text) /\ \A i \in 1 .. Len(text) : d[i] = [rs |-> TRUE, byte |-> text[i]]
    BY DataIs
  <2> HIDE DEF d
  <2>2. d \in Seq(Item) /\ Len(d) = Len(text)
        /\ \A i \in 1 .. Len(text) : d[i].byte = text[i] /\ d[i].rs = TRUE
    <3>1. \A i \in 1 .. Len(text) : d[i].byte = text[i] /\ d[i].rs = TRUE
      <4> TAKE i \in 1 .. Len(text)
      <4>1. d[i] = [rs |-> TRUE, byte |-> text[i]]
        BY <2>1
      <4>2. d[i].byte = text[i]
        BY <4>1
      <4>3. d[i].rs = TRUE
        <5>1. [rs |-> TRUE, byte |-> text[i]].rs = TRUE
          OBVIOUS
        <5> QED BY <4>1, <5>1, Zenon
      <4> QED BY <4>2, <4>3
    <3> QED BY <2>1, <3>1
  <2> QED BY <2>2 DEF d
<1>2. [i \in 1 .. Len(text) |-> send(text[i], TRUE)]
        = [i \in 1 .. Len(Data(text)) |-> send(Data(text)[i].byte, Data(text)[i].rs)]
  BY <1>1
<1> QED BY <1>1, <1>2, FlattenSends DEF print

\* command makes the transfers of its byte.
LEMMA CommandIs ==
  ASSUME NEW v \in Byte
  PROVE  command(v) = Parts(<<Cmd(v)>>) /\ <<Cmd(v)>> \in Seq(Item)
<1>1. command(v) = Parts(<<Cmd(v)>>)
  BY PartsOne DEF command, Cmd
<1>2. Cmd(v) \in Item
  BY CmdType
<1> QED BY <1>1, <1>2

\* The transfers of two bytes.
LEMMA PairOfBytes ==
  ASSUME NEW a \in Item, NEW b \in Item
  PROVE  /\ <<a>> \in Seq(Item) /\ <<b>> \in Seq(Item) /\ <<a, b>> \in Seq(Item)
         /\ Parts(<<a, b>>) = Parts(<<a>>) \o Parts(<<b>>)
<1>1. <<a>> \in Seq(Item) /\ <<b>> \in Seq(Item) /\ <<a, b>> \in Seq(Item)
  OBVIOUS
<1>2. <<a>> \o <<b>> \in Seq(Item) /\ Len(<<a>> \o <<b>>) = 2 
      /\ \A i \in 1 .. 2 : (<<a>> \o <<b>>)[i] = IF i <= 1 THEN <<a>>[i] ELSE <<b>>[i - 1]
  <2> DEFINE s == <<a>>
             t == <<b>>
  <2>1. s \in Seq(Item) /\ t \in Seq(Item) /\ Len(s) = 1 /\ Len(t) = 1
    BY <1>1
  <2> HIDE DEF s, t
  <2>2. /\ s \o t \in Seq(Item) /\ Len(s \o t) = Len(s) + Len(t)
        /\ \A i \in 1 .. Len(s) + Len(t) : (s \o t)[i] = IF i <= Len(s) THEN s[i] ELSE t[i - Len(s)]
    BY <2>1, ConcatProperties, Zenon
  <2>3. /\ s \o t \in Seq(Item) /\ Len(s \o t) = 2
        /\ \A i \in 1 .. 2 : (s \o t)[i] = IF i <= 1 THEN s[i] ELSE t[i - 1]
    BY <2>1, <2>2
  <2> QED BY <2>3 DEF s, t
<1>3. <<a, b>> = <<a>> \o <<b>>
  <2> DEFINE s == <<a, b>>
             t == <<a>> \o <<b>>
  <2>1. s \in Seq(Item) /\ Len(s) = 2 /\ \A i \in 1 .. 2 : s[i] = t[i]
    BY <1>1, <1>2
  <2>2. t \in Seq(Item) /\ Len(t) = 2
    BY <1>2
  <2> HIDE DEF s, t
  <2>3. s = t
    BY <2>1, <2>2, SeqEqual
  <2> QED BY <2>3 DEF s, t
<1> QED BY <1>1, <1>3, PartsConcat

\* A text is a string of bytes, no longer than the display is wide.
LEMMA TextIs ==
  ASSUME NEW text \in Text
  PROVE  /\ text \in Seq(Byte) /\ Len(text) \in 0 .. Columns
         /\ \A i \in 1 .. Len(text) : text[i] \in 1 .. 255
<1>1. PICK n \in 0 .. Columns : text \in [1 .. n -> 1 .. 255]
  BY DisplayAssumption
<1>2. n \in Nat /\ Columns \in 1 .. 16
  BY <1>1, DisplayAssumption
<1>3. text \in [1 .. n -> Byte]
  BY <1>1 DEF Byte
<1>4. text \in Seq(Byte) /\ Len(text) = n
  BY <1>2, <1>3
<1> QED BY <1>1, <1>2, <1>4

\* A page is two texts.
LEMMA PageIs ==
  ASSUME NEW p \in Page
  PROVE  p[0] \in Text /\ p[1] \in Text
BY DEF Page, Row

\* draw: a clear, and each line after its place.
LEMMA DrawIs ==
  ASSUME NEW p \in Page
  PROVE  /\ DrawBytes(p) \in Seq(Item) /\ Len(DrawBytes(p)) = 3 + Len(p[0]) + Len(p[1])
         /\ draw(p) = Parts(DrawBytes(p))
         /\ \A i \in 1 .. 3 + Len(p[0]) + Len(p[1]) :
              DrawBytes(p)[i] = IF i = 1 THEN Cmd(1)
                                ELSE IF i = 2 THEN Cmd(128)
                                ELSE IF i <= 2 + Len(p[0]) THEN [rs |-> TRUE, byte |-> p[0][i - 2]]
                                ELSE IF i = 3 + Len(p[0]) THEN Cmd(192)
                                ELSE [rs |-> TRUE, byte |-> p[1][i - 3 - Len(p[0])]]
<1> DEFINE a == <<Cmd(1), Cmd(128)>>
           b == Data(p[0])
           c == <<Cmd(192)>>
           d == Data(p[1])
           m == Len(p[0])
           n == Len(p[1])
<1>1. 1 \in Byte /\ 128 \in Byte /\ 192 \in Byte
  BY DEF Byte
<1>2. p[0] \in Seq(Byte) /\ p[1] \in Seq(Byte) /\ m \in Nat /\ n \in Nat
  BY PageIs, TextIs, DisplayAssumption
<1>3. /\ a \in Seq(Item) /\ Len(a) = 2 /\ a[1] = Cmd(1) /\ a[2] = Cmd(128)
      /\ c \in Seq(Item) /\ Len(c) = 1 /\ c[1] = Cmd(192)
      /\ Parts(a) = command(1) \o command(128) /\ Parts(c) = command(192)
  <2>1. Cmd(1) \in Item /\ Cmd(128) \in Item /\ Cmd(192) \in Item
    BY <1>1, CmdType
  <2>2. command(1) = Parts(<<Cmd(1)>>) /\ command(128) = Parts(<<Cmd(128)>>) /\ command(192) = Parts(c)
    BY <1>1, CommandIs
  <2>3. /\ a \in Seq(Item) /\ c \in Seq(Item) /\ <<Cmd(1)>> \in Seq(Item)
        /\ Parts(a) = Parts(<<Cmd(1)>>) \o Parts(<<Cmd(128)>>)
    BY <2>1, PairOfBytes, ZenonT(60)
  <2>4. Len(a) = 2 /\ a[1] = Cmd(1) /\ a[2] = Cmd(128) /\ Len(c) = 1 /\ c[1] = Cmd(192)
    OBVIOUS
  <2> QED BY <2>2, <2>3, <2>4, Zenon
<1>4. /\ b \in Seq(Item) /\ Len(b) = m /\ \A i \in 1 .. m : b[i] = [rs |-> TRUE, byte |-> p[0][i]]
      /\ d \in Seq(Item) /\ Len(d) = n /\ \A i \in 1 .. n : d[i] = [rs |-> TRUE, byte |-> p[1][i]]
  BY <1>2, DataIs
<1>5. Parts(b) = print(p[0]) /\ Parts(d) = print(p[1])
  BY <1>2, PrintIs
<1>6. draw(p) = Parts(a) \o Parts(b) \o Parts(c) \o Parts(d)
  <2>1. setCursor(0, 0) = command(128) /\ setCursor(0, 1) = command(192)
    BY DEF setCursor
  <2>2. draw(p) = command(1) \o command(128) \o print(p[0]) \o command(192) \o print(p[1])
    BY <2>1 DEF draw, clear
  <2> HIDE DEF a, b, c, d
  <2> QED BY <1>3, <1>5, <2>2, Zenon
<1>7. DrawBytes(p) = a \o b \o c \o d
  BY DEF DrawBytes
<1> HIDE DEF a, b, c, d
<1>13. /\ a \in Seq(Item) /\ Len(a) = 2 /\ b \in Seq(Item) /\ Len(b) = m
       /\ c \in Seq(Item) /\ Len(c) = 1 /\ d \in Seq(Item) /\ Len(d) = n
  BY <1>3, <1>4
<1>8. /\ a \o b \in Seq(Item) /\ Len(a \o b) = 2 + m
      /\ \A i \in 1 .. 2 + m : (a \o b)[i] = IF i <= 2 THEN a[i] ELSE b[i - 2]
  <2>1. /\ a \o b \in Seq(Item) /\ Len(a \o b) = Len(a) + Len(b)
        /\ \A i \in 1 .. Len(a) + Len(b) :
             (a \o b)[i] = IF i <= Len(a) THEN a[i] ELSE b[i - Len(a)]
    <3>1. a \in Seq(Item) /\ b \in Seq(Item)
      BY <1>13
    <3> QED BY <3>1, ConcatProperties, Zenon
  <2> HIDE DEF m, n
  <2> QED BY <1>13, <2>1
<1>9. /\ a \o b \o c \in Seq(Item) /\ Len(a \o b \o c) = 3 + m
      /\ \A i \in 1 .. 3 + m : (a \o b \o c)[i] = IF i <= 2 + m THEN (a \o b)[i] ELSE c[i - (2 + m)]
  <2>1. /\ a \o b \o c \in Seq(Item) /\ Len(a \o b \o c) = 2 + m + 1
        /\ \A i \in 1 .. 2 + m + 1 : (a \o b \o c)[i] = IF i <= 2 + m THEN (a \o b)[i] ELSE c[i - (2 + m)]
    <3>1. a \o b \in Seq(Item) /\ Len(a \o b) = 2 + m
      BY <1>8
    <3> DEFINE ab == a \o b
    <3>2. ab \in Seq(Item) /\ Len(ab) = 2 + m
      BY <3>1
    <3> HIDE DEF ab
    <3>3. /\ ab \o c \in Seq(Item) /\ Len(ab \o c) = Len(ab) + Len(c)
          /\ \A i \in 1 .. Len(ab) + Len(c) :
               (ab \o c)[i] = IF i <= Len(ab) THEN ab[i] ELSE c[i - Len(ab)]
      <4>1. ab \in Seq(Item) /\ c \in Seq(Item)
        BY <1>13, <3>2
      <4> QED BY <4>1, ConcatProperties, Zenon
    <3> HIDE DEF m, n
    <3>4. /\ ab \o c \in Seq(Item) /\ Len(ab \o c) = 2 + m + 1
          /\ \A i \in 1 .. 2 + m + 1 : (ab \o c)[i] = IF i <= 2 + m THEN ab[i] ELSE c[i - (2 + m)]
      BY <1>13, <3>2, <3>3
    <3> QED BY <3>4 DEF ab
  <2>2. 2 + m + 1 = 3 + m
    BY <1>2
  <2> QED BY <2>1, <2>2, Zenon
<1>10. /\ a \o b \o c \o d \in Seq(Item) /\ Len(a \o b \o c \o d) = 3 + m + n
       /\ \A i \in 1 .. 3 + m + n :
            (a \o b \o c \o d)[i] = IF i <= 3 + m THEN (a \o b \o c)[i] ELSE d[i - (3 + m)]
  <2>1. a \o b \o c \in Seq(Item) /\ Len(a \o b \o c) = 3 + m
    BY <1>9
  <2> DEFINE abc == a \o b \o c
  <2>2. abc \in Seq(Item) /\ Len(abc) = 3 + m
    BY <2>1
  <2> HIDE DEF abc
  <2>3. /\ abc \o d \in Seq(Item) /\ Len(abc \o d) = Len(abc) + Len(d)
        /\ \A i \in 1 .. Len(abc) + Len(d) :
             (abc \o d)[i] = IF i <= Len(abc) THEN abc[i] ELSE d[i - Len(abc)]
    <3>1. abc \in Seq(Item) /\ d \in Seq(Item)
      BY <1>13, <2>2
    <3> QED BY <3>1, ConcatProperties, Zenon
  <2> HIDE DEF m, n
  <2>4. /\ abc \o d \in Seq(Item) /\ Len(abc \o d) = 3 + m + n
        /\ \A i \in 1 .. 3 + m + n : (abc \o d)[i] = IF i <= 3 + m THEN abc[i] ELSE d[i - (3 + m)]
    BY <1>13, <2>2, <2>3
  <2> QED BY <2>4 DEF abc
<1>11. Parts(a \o b \o c \o d) = Parts(a) \o Parts(b) \o Parts(c) \o Parts(d)
  
  <2>1. Parts(a \o b) = Parts(a) \o Parts(b)
    BY <1>13, PartsConcat
  <2>2. Parts(a \o b \o c) = Parts(a \o b) \o Parts(c)
    BY <1>13, <1>8, PartsConcat
  <2>3. Parts(a \o b \o c \o d) = Parts(a \o b \o c) \o Parts(d)
    BY <1>13, <1>9, PartsConcat
  <2> QED BY <2>1, <2>2, <2>3, Zenon
<1>12. ASSUME NEW i \in 1 .. 3 + m + n
       PROVE  (a \o b \o c \o d)[i]
                = IF i = 1 THEN Cmd(1) ELSE IF i = 2 THEN Cmd(128)
                  ELSE IF i <= 2 + m THEN [rs |-> TRUE, byte |-> p[0][i - 2]]
                  ELSE IF i = 3 + m THEN Cmd(192)
                  ELSE [rs |-> TRUE, byte |-> p[1][i - 3 - m]]
  <2> HIDE DEF m, n
  <2>1. CASE i <= 2
    <3>1. i \in 1 .. 3 + m /\ i \in 1 .. 2 + m /\ (i = 1 \/ i = 2) /\ i <= 3 + m /\ i <= 2 + m
      BY <1>2, <2>1
    <3>2. (a \o b \o c \o d)[i] = a[i]
      <4>1. (a \o b \o c \o d)[i] = (a \o b \o c)[i]
        BY <1>10, <3>1, Zenon
      <4>2. (a \o b \o c)[i] = (a \o b)[i]
        BY <1>9, <3>1, Zenon
      <4>3. (a \o b)[i] = a[i]
        BY <1>8, <2>1, <3>1, Zenon
      <4> QED BY <4>1, <4>2, <4>3, Zenon
    <3> QED BY <1>3, <3>1, <3>2
  <2>2. CASE i > 2 /\ i <= 2 + m
    <3>1. i \in 1 .. 3 + m /\ i \in 1 .. 2 + m /\ i # 1 /\ i # 2 /\ ~(i <= 2) /\ i <= 3 + m /\ i - 2 \in 1 .. m
      BY <1>2, <2>2
    <3>2. (a \o b \o c \o d)[i] = b[i - 2]
      BY <1>8, <1>9, <1>10, <2>2, <3>1, Zenon
    <3> QED BY <1>4, <2>2, <3>1, <3>2
  <2>3. CASE i = 3 + m
    <3>1. i \in 1 .. 3 + m /\ i # 1 /\ i # 2 /\ ~(i <= 2 + m) /\ i <= 3 + m /\ i - (2 + m) = 1
      BY <1>2, <2>3
    <3>2. (a \o b \o c \o d)[i] = c[1]
      BY <1>9, <1>10, <3>1, Zenon
    <3> QED BY <1>3, <2>3, <3>1, <3>2
  <2>4. CASE i > 3 + m
    <3>1. i # 1 /\ i # 2 /\ ~(i <= 2 + m) /\ ~(i <= 3 + m) /\ i # 3 + m /\ i - (3 + m) = i - 3 - m
          /\ i - 3 - m \in 1 .. n
      BY <1>2, <2>4
    <3>2. (a \o b \o c \o d)[i] = d[i - (3 + m)]
      BY <1>10, <3>1, Zenon
    <3> QED BY <1>4, <3>1, <3>2
  <2>5. i <= 2 \/ (i > 2 /\ i <= 2 + m) \/ i = 3 + m \/ i > 3 + m
    BY <1>2
  <2> QED BY <2>1, <2>2, <2>3, <2>4, <2>5, Zenon
<1> QED BY <1>6, <1>7, <1>10, <1>11, <1>12, ZenonT(60)

\* createChar: a place and eight rows of dots.
LEMMA PatternIs ==
  /\ PatternBytes \in Seq(Item) /\ Len(PatternBytes) = 9
  /\ createChar(1) = Parts(PatternBytes)
  /\ PatternBytes[1] = Cmd(72)
  /\ \A i \in 2 .. 9 : PatternBytes[i] = [rs |-> TRUE, byte |-> 0]
<1> DEFINE z == [i \in 1 .. 8 |-> 0]
           a == <<Cmd(72)>>
           b == Data(z)
<1>1. z \in Seq(Byte) /\ Len(z) = 8 /\ \A i \in 1 .. 8 : z[i] = 0
  BY DEF Byte
<1>2. b \in Seq(Item) /\ Len(b) = 8 /\ \A i \in 1 .. 8 : b[i] = [rs |-> TRUE, byte |-> 0]
  BY <1>1, DataIs
<1>3. a \in Seq(Item) /\ Len(a) = 1 /\ a[1] = Cmd(72) /\ Parts(a) = command(72)
  <2>1. 72 \in Byte
    BY DEF Byte
  <2> QED BY <2>1, CommandIs
<1>4. createChar(1) = command(72) \o print(z)
  <2>1. [i \in 1 .. 8 |-> send(0, TRUE)] = [i \in 1 .. Len(z) |-> send(z[i], TRUE)]
    BY <1>1
  <2>2. 64 + 1 * 8 = 72
    OBVIOUS
  <2> QED BY <2>1, <2>2 DEF createChar, print
<1>5. print(z) = Parts(b)
  BY <1>1, PrintIs
<1>6. PatternBytes = a \o b
  BY DEF PatternBytes
<1> HIDE DEF a, b, z
<1>7. /\ a \o b \in Seq(Item) /\ Len(a \o b) = 1 + 8
      /\ \A i \in 1 .. 1 + 8 : (a \o b)[i] = IF i <= 1 THEN a[i] ELSE b[i - 1]
  
  <2>1. a \in Seq(Item) /\ Len(a) = 1 /\ b \in Seq(Item) /\ Len(b) = 8
    BY <1>2, <1>3
  <2>2. /\ a \o b \in Seq(Item) /\ Len(a \o b) = Len(a) + Len(b)
        /\ \A i \in 1 .. Len(a) + Len(b) :
             (a \o b)[i] = IF i <= Len(a) THEN a[i] ELSE b[i - Len(a)]
    BY <2>1, ConcatProperties, Zenon
  <2> QED BY <2>1, <2>2
<1>8. Parts(a \o b) = Parts(a) \o Parts(b)
  BY <1>2, <1>3, PartsConcat
<1>9. ASSUME NEW i \in 2 .. 9 PROVE PatternBytes[i] = [rs |-> TRUE, byte |-> 0]
  <2>1. i \in 1 .. 1 + 8 /\ ~(i <= 1) /\ i - 1 \in 1 .. 8
    OBVIOUS
  <2>2. (a \o b)[i] = b[i - 1]
    BY <1>7, <2>1, Zenon
  <2> QED BY <1>2, <1>6, <2>1, <2>2
<1>10. PatternBytes[1] = Cmd(72) /\ Len(PatternBytes) = 9
  BY <1>3, <1>6, <1>7
<1>11. createChar(1) = Parts(PatternBytes)
  BY <1>3, <1>4, <1>5, <1>6, <1>8, Zenon
<1> QED BY <1>6, <1>7, <1>9, <1>10, <1>11

Glued(s, t, u) ==
  /\ u \in Seq(Transfer) /\ Len(u) = Len(s) + Len(t)
  /\ \A i \in 1 .. Len(s) + Len(t) : u[i] = IF i <= Len(s) THEN s[i] ELSE t[i - Len(s)]

\* What joining two sequences of transfers gives.
LEMMA GluedIs ==
  ASSUME NEW s \in Seq(Transfer), NEW t \in Seq(Transfer)
  PROVE  Glued(s, t, s \o t)
<1>1. /\ s \o t \in Seq(Transfer) /\ Len(s \o t) = Len(s) + Len(t)
      /\ \A i \in 1 .. Len(s) + Len(t) : (s \o t)[i] = IF i <= Len(s) THEN s[i] ELSE t[i - Len(s)]
  BY ConcatProperties, Zenon
<1> QED BY <1>1 DEF Glued

WakeUp ==
  <<Quiet>> \o write4bits(3, FALSE) \o write4bits(3, FALSE) \o write4bits(3, FALSE)
    \o write4bits(2, FALSE)

\* The first part of begin(), transfer by transfer.
LEMMA WakeUpIs ==
  /\ WakeUp \in Seq(Transfer) /\ Len(WakeUp) = 13
  /\ \A m \in 1 .. 13 : WakeUp[m] = Wake(m)
<1> DEFINE q == <<Quiet>>
           x == write4bits(3, FALSE)
           y == write4bits(2, FALSE)
           a == q \o x
           b == a \o x
           c == b \o x
           d == c \o y
           z == Down(FALSE, 0)
           low3 == Down(FALSE, 3)
           up3 == Up(FALSE, 3)
           low2 == Down(FALSE, 2)
           up2 == Up(FALSE, 2)
<1>1. 0 \in Nibble /\ 2 \in Nibble /\ 3 \in Nibble
  BY DEF Nibble
<1>2. q \in Seq(Transfer) /\ Len(q) = 1 /\ q[1] = z
  <2>1. Quiet = z
    BY DEF Quiet, Down
  <2>2. z \in Transfer
    BY <1>1, LineType
  <2> HIDE DEF z
  <2> QED BY <2>1, <2>2
<1>3. /\ x \in Seq(Transfer) /\ Len(x) = 3
      /\ x[1] = low3 /\ x[2] = up3 /\ x[3] = low3
  BY <1>1, WriteIs
<1>4. /\ y \in Seq(Transfer) /\ Len(y) = 3
      /\ y[1] = low2 /\ y[2] = up2 /\ y[3] = low2
  BY <1>1, WriteIs
<1>5. d = WakeUp
  BY DEF WakeUp
<1> HIDE DEF q, x, y
<1>6. /\ a \in Seq(Transfer) /\ Len(a) = 1 + 3
      /\ \A i \in 1 .. 1 + 3 : a[i] = IF i <= 1 THEN q[i] ELSE x[i - 1]
  <2>1. q \in Seq(Transfer) /\ x \in Seq(Transfer) /\ Len(q) = 1 /\ Len(x) = 3
    BY <1>2, <1>3
  <2>2. q \in Seq(Transfer) /\ x \in Seq(Transfer)
    BY <2>1
  <2>3. Glued(q, x, a)
    BY <2>2, GluedIs
  <2> HIDE DEF a
  <2> QED BY <2>1, <2>3 DEF Glued
<1> HIDE DEF a
<1>7. /\ b \in Seq(Transfer) /\ Len(b) = 4 + 3
      /\ \A i \in 1 .. 4 + 3 : b[i] = IF i <= 4 THEN a[i] ELSE x[i - 4]
  <2>1. a \in Seq(Transfer) /\ x \in Seq(Transfer) /\ Len(a) = 4 /\ Len(x) = 3
    BY <1>3, <1>6
  <2>2. a \in Seq(Transfer) /\ x \in Seq(Transfer)
    BY <2>1
  <2>3. Glued(a, x, b)
    BY <2>2, GluedIs
  <2> HIDE DEF b
  <2> QED BY <2>1, <2>3 DEF Glued
<1> HIDE DEF b
<1>8. /\ c \in Seq(Transfer) /\ Len(c) = 7 + 3
      /\ \A i \in 1 .. 7 + 3 : c[i] = IF i <= 7 THEN b[i] ELSE x[i - 7]
  <2>1. b \in Seq(Transfer) /\ x \in Seq(Transfer) /\ Len(b) = 7 /\ Len(x) = 3
    BY <1>3, <1>7
  <2>2. b \in Seq(Transfer) /\ x \in Seq(Transfer)
    BY <2>1
  <2>3. Glued(b, x, c)
    BY <2>2, GluedIs
  <2> HIDE DEF c
  <2> QED BY <2>1, <2>3 DEF Glued
<1> HIDE DEF c
<1>9. /\ d \in Seq(Transfer) /\ Len(d) = 10 + 3
      /\ \A i \in 1 .. 10 + 3 : d[i] = IF i <= 10 THEN c[i] ELSE y[i - 10]
  <2>1. c \in Seq(Transfer) /\ y \in Seq(Transfer) /\ Len(c) = 10 /\ Len(y) = 3
    BY <1>4, <1>8
  <2>2. c \in Seq(Transfer) /\ y \in Seq(Transfer)
    BY <2>1
  <2>3. Glued(c, y, d)
    BY <2>2, GluedIs
  <2> HIDE DEF d
  <2> QED BY <2>1, <2>3 DEF Glued
<1> HIDE DEF d
<1>10. \A i \in 1 .. 13 :
         d[i] = IF i <= 1 THEN q[i] ELSE IF i <= 4 THEN x[i - 1] ELSE IF i <= 7 THEN x[i - 4]
                ELSE IF i <= 10 THEN x[i - 7] ELSE y[i - 10]
  BY <1>6, <1>7, <1>8, <1>9, SMTT(60)
<1>11. ASSUME NEW m \in 1 .. 13 PROVE d[m] = Wake(m)
  <2>1. Wake(m) = IF m \in {3, 6, 9} THEN up3 ELSE IF m = 12 THEN up2
                  ELSE IF m = 1 THEN z ELSE IF m <= 10 THEN low3 ELSE low2
    <3>1. CASE m \in {3, 6, 9, 12}
      <4>1. Wake(m) = Up(FALSE, WakeNibble(m))
        BY <3>1, Zenon DEF Wake
      <4>2. WakeNibble(m) = IF m \in {3, 6, 9} THEN 3 ELSE 2
        BY <3>1 DEF WakeNibble
      <4>3. m \in {3, 6, 9} \/ (m \notin {3, 6, 9} /\ m = 12)
        BY <3>1
      <4> QED BY <4>1, <4>2, <4>3, Zenon
    <3>2. CASE m \notin {3, 6, 9, 12}
      <4>1. Wake(m) = Down(FALSE, WakeNibble(m))
        BY <3>2, Zenon DEF Wake
      <4>2. m \notin {3, 6, 9} /\ m # 12
        BY <3>2
      <4> QED BY <4>1, <4>2, Zenon DEF WakeNibble
    <3> QED BY <3>1, <3>2
  <2> HIDE DEF z, low3, up3, low2, up2
  <2> QED BY <1>2, <1>3, <1>4, <1>10, <2>1
<1> QED BY <1>5, <1>9, <1>11

\* The second part of begin(): five commands.
LEMMA BeginBytesIs ==
  /\ BeginBytes \in Seq(Item) /\ Len(BeginBytes) = 5
  /\ Parts(BeginBytes) = command(40) \o command(12) \o command(1) \o command(6) \o command(2)
<1> DEFINE a == Cmd(40)
           b == Cmd(12)
           c == Cmd(1)
           d == Cmd(6)
           e == Cmd(2)
<1>1. a \in Item /\ b \in Item /\ c \in Item /\ d \in Item /\ e \in Item
  BY CmdType DEF Byte
<1>2. /\ Parts(<<a>>) = command(40) /\ Parts(<<b>>) = command(12) /\ Parts(<<c>>) = command(1)
      /\ Parts(<<d>>) = command(6) /\ Parts(<<e>>) = command(2)
  BY CommandIs DEF Byte
<1>3. BeginBytes = <<a, b, c, d, e>>
  BY DEF BeginBytes
<1> HIDE DEF a, b, c, d, e
<1>4. /\ <<a>> \in Seq(Item) /\ <<b>> \in Seq(Item) /\ <<c>> \in Seq(Item)
      /\ <<d>> \in Seq(Item) /\ <<e>> \in Seq(Item)
      /\ <<a, b>> \in Seq(Item) /\ <<a, b, c>> \in Seq(Item) /\ <<a, b, c, d>> \in Seq(Item)
      /\ <<a, b, c, d, e>> \in Seq(Item)
  BY <1>1
<1>5. /\ <<a, b>> = Append(<<a>>, b) /\ <<a, b, c>> = Append(<<a, b>>, c)
      /\ <<a, b, c, d>> = Append(<<a, b, c>>, d) /\ <<a, b, c, d, e>> = Append(<<a, b, c, d>>, e)
  OBVIOUS
<1>6. \A s \in Seq(Item), x \in Item : Append(s, x) = s \o <<x>>
  BY AppendIsConcat
<1>7. \A s \in Seq(Item), x \in Item : <<x>> \in Seq(Item) => Parts(Append(s, x)) = Parts(s) \o Parts(<<x>>)
  BY <1>6, PartsConcat
<1>8. /\ Parts(<<a, b>>) = Parts(<<a>>) \o Parts(<<b>>)
      /\ Parts(<<a, b, c>>) = Parts(<<a, b>>) \o Parts(<<c>>)
      /\ Parts(<<a, b, c, d>>) = Parts(<<a, b, c>>) \o Parts(<<d>>)
      /\ Parts(<<a, b, c, d, e>>) = Parts(<<a, b, c, d>>) \o Parts(<<e>>)
  BY <1>1, <1>4, <1>5, <1>7, ZenonT(60)
<1>9. Parts(<<a, b, c, d, e>>) = command(40) \o command(12) \o command(1) \o command(6) \o command(2)
  BY <1>2, <1>8, Zenon
<1> QED BY <1>3, <1>4, <1>9

Associative(s, t, u) == (s \o t) \o u = s \o (t \o u)

\* Joining is associative.
LEMMA JoinAssociative ==
  ASSUME NEW s \in Seq(Transfer), NEW t \in Seq(Transfer), NEW u \in Seq(Transfer)
  PROVE  Associative(s, t, u)
BY ConcatAssociative DEF Associative

EndsWith(s, t) == SubSeq(s \o t, Len(s) + 1, Len(s) + Len(t)) = t

\* A joined sequence ends with its second part.
LEMMA JoinEnds ==
  ASSUME NEW s \in Seq(Transfer), NEW t \in Seq(Transfer), Len(t) > 0
  PROVE  EndsWith(s, t)
<1> DEFINE m == Len(s)
           n == Len(t)
<1>1. m \in Nat /\ n \in Nat
  BY LenProperties
<1>2. m + 1 \in Len(s) + 1 .. Len(s) + Len(t) /\ m + n \in Len(s) + 1 .. Len(s) + Len(t)
      /\ (m + 1) - Len(s) = 1 /\ (m + n) - Len(s) = Len(t)
  BY <1>1
<1>3. SubSeq(s \o t, m + 1, m + n) = SubSeq(t, (m + 1) - Len(s), (m + n) - Len(s))
  BY <1>2, SubSeqOfConcat2
<1>4. SubSeq(t, 1, Len(t)) = t
  BY SubSeqFull
<1> QED BY <1>2, <1>3, <1>4 DEF EndsWith

JoinedFive(w, a, b, c, d, e) ==
  w \o a \o b \o c \o d \o e = w \o (a \o b \o c \o d \o e)

\* Joining five sequences to one, from either end.
LEMMA JoinFive ==
  ASSUME NEW w \in Seq(Transfer), NEW a \in Seq(Transfer), NEW b \in Seq(Transfer),
         NEW c \in Seq(Transfer), NEW d \in Seq(Transfer), NEW e \in Seq(Transfer)
  PROVE  JoinedFive(w, a, b, c, d, e)
<1> DEFINE ab == a \o b
           abc == ab \o c
           abcd == abc \o d
<1>1. ab \in Seq(Transfer) /\ abc \in Seq(Transfer) /\ abcd \in Seq(Transfer)
  BY ConcatProperties
<1> HIDE DEF ab, abc, abcd
<1>2. Associative(w, a, b) /\ Associative(w, ab, c) /\ Associative(w, abc, d) /\ Associative(w, abcd, e)
  BY <1>1, JoinAssociative
<1>3. w \o a \o b = w \o ab
  BY <1>2, Zenon DEF Associative, ab
<1>4. (w \o ab) \o c = w \o abc
  BY <1>2, Zenon DEF Associative, abc
<1>5. (w \o abc) \o d = w \o abcd
  BY <1>2, Zenon DEF Associative, abcd
<1>6. (w \o abcd) \o e = w \o (abcd \o e)
  BY <1>2, Zenon DEF Associative
<1> QED BY <1>3, <1>4, <1>5, <1>6, Zenon DEF JoinedFive, ab, abc, abcd

\* begin() wakes the controller up and sends its five commands.
LEMMA BeginIs ==
  /\ begin \in Seq(Transfer) /\ Len(begin) = 43
  /\ \A m \in 1 .. 13 : begin[m] = Wake(m)
  /\ Suffix(begin, 14) = Parts(BeginBytes)
<1> DEFINE p == Parts(BeginBytes)
           w == WakeUp
<1>1. p \in Seq(Transfer) /\ Len(p) = 30
  <2>1. p \in Seq(Transfer) /\ Len(p) = 6 * Len(BeginBytes)
    BY BeginBytesIs, PartsIs
  <2> QED BY <2>1, BeginBytesIs
<1>2. w \in Seq(Transfer) /\ Len(w) = 13
  BY WakeUpIs
<1>3. begin = w \o p
  <2> DEFINE a == command(40)
             b == command(12)
             c == command(1)
             d == command(6)
             e == command(2)
  <2>1. a \in Seq(Transfer) /\ b \in Seq(Transfer) /\ c \in Seq(Transfer) /\ d \in Seq(Transfer)
        /\ e \in Seq(Transfer)
    <3>1. 40 \in Byte /\ 12 \in Byte /\ 1 \in Byte /\ 6 \in Byte /\ 2 \in Byte
      BY DEF Byte
    <3>2. \A v \in Byte : send(v, FALSE) \in Seq(Transfer)
      BY SendIs
    <3> QED BY <3>1, <3>2 DEF command
  <2>2. begin = w \o a \o b \o c \o d \o e
    <3>1. 8 + OptionBits({"display"}) = 12 /\ 4 + ModeBits(Rightward) = 6
      BY DEF OptionBits, ModeBits, Rightward
    <3> QED BY <3>1, Zenon DEF begin, WakeUp, clear, home
  <2>3. p = a \o b \o c \o d \o e
    BY BeginBytesIs
  <2> HIDE DEF a, b, c, d, e, p, w
  <2>4. w \o a \o b \o c \o d \o e = w \o (a \o b \o c \o d \o e)
    <3>1. w \in Seq(Transfer)
      BY <1>2
    <3>2. JoinedFive(w, a, b, c, d, e)
      BY <2>1, <3>1, JoinFive
    <3> QED BY <3>2, Zenon DEF JoinedFive
  <2> QED BY <2>2, <2>3, <2>4, Zenon
<1> HIDE DEF p, w
<1>4. w \o p \in Seq(Transfer) /\ Len(w \o p) = 13 + 30
      /\ \A i \in 1 .. 13 + 30 : (w \o p)[i] = IF i <= 13 THEN w[i] ELSE p[i - 13]
  <2>1. w \in Seq(Transfer) /\ p \in Seq(Transfer)
    BY <1>1, <1>2
  <2>2. Glued(w, p, w \o p)
    BY <2>1, GluedIs
  <2> QED BY <1>1, <1>2, <2>2 DEF Glued
<1>5. \A m \in 1 .. 13 : (w \o p)[m] = Wake(m)
  <2>1. \A m \in 1 .. 13 : w[m] = Wake(m)
    BY WakeUpIs DEF w
  <2>2. \A m \in 1 .. 13 : m \in 1 .. 13 + 30 /\ m <= 13
    OBVIOUS
  <2> QED BY <1>4, <2>1, <2>2, Zenon
<1>6. SubSeq(w \o p, 14, 43) = p
  <2>1. w \in Seq(Transfer) /\ p \in Seq(Transfer) /\ Len(p) > 0
    BY <1>1, <1>2
  <2>2. EndsWith(w, p)
    BY <2>1, JoinEnds
  <2>3. Len(w) + 1 = 14 /\ Len(w) + Len(p) = 43
    BY <1>1, <1>2
  <2> QED BY <2>2, <2>3, Zenon DEF EndsWith
<1>7. Len(w \o p) = 43
  BY <1>4
<1> QED BY <1>3, <1>4, <1>5, <1>6, <1>7, Zenon DEF Suffix, p

TailIs(s, m) ==
  Suffix(s, m) # <<>> /\ Head(Suffix(s, m)) = s[m] /\ Tail(Suffix(s, m)) = Suffix(s, m + 1)

\* What is left of the transfers, before and after the next one.
LEMMA SuffixIs ==
  ASSUME NEW s \in Seq(Transfer)
  PROVE  /\ \A m \in 1 .. Len(s) : TailIs(s, m)
         /\ Suffix(s, 1) = s
         /\ Suffix(s, Len(s) + 1) = <<>>
<1>1. Len(s) \in Nat
  BY LenProperties
<1>2. ASSUME NEW m \in 1 .. Len(s) PROVE TailIs(s, m)
  <2>1. Len(s) \in m .. Len(s) /\ m \in Int
    BY <1>1
  <2>2. Head(SubSeq(s, m, Len(s))) = s[m] /\ Tail(SubSeq(s, m, Len(s))) = SubSeq(s, m + 1, Len(s))
    BY <2>1, HeadTailOfSubSeq
  <2>3. \A i \in m .. Len(s) : s[i] \in Transfer
    BY <1>1, ElementOfSeq
  <2>4. Len(SubSeq(s, m, Len(s))) = IF m <= Len(s) THEN Len(s) - m + 1 ELSE 0
    BY <2>1, <2>3, SubSeqProperties
  <2>5. Len(SubSeq(s, m, Len(s))) # 0
    BY <1>1, <2>4
  <2>6. SubSeq(s, m, Len(s)) # <<>>
    BY <2>5, EmptySeq
  <2> QED BY <2>2, <2>6, Zenon DEF TailIs, Suffix
<1>3. Suffix(s, 1) = s
  BY SubSeqFull DEF Suffix
<1>4. Suffix(s, Len(s) + 1) = <<>>
  <2>1. Len(s) + 1 \in Int /\ Len(s) \in Int /\ Len(s) < Len(s) + 1
    BY <1>1
  <2> QED BY <2>1, SubSeqEmpty DEF Suffix
<1> QED BY <1>2, <1>3, <1>4

\* The bits of the options.
LEMMA OptionBitsType ==
  \A options : OptionBits(options) \in 0 .. 7
BY DEF OptionBits

\* The bits of the mode.
LEMMA ModeBitsType ==
  \A mode : ModeBits(mode) \in 0 .. 3
BY DEF ModeBits

\* Each call makes the transfers of one byte or more.
LEMMA ScriptIs ==
  ASSUME NEW bytes \in Scripts
  PROVE  bytes \in Seq(Item) /\ Len(bytes) \in Nat /\ Len(bytes) > 0
<1>1. \A v \in Byte : <<Cmd(v)>> \in Seq(Item) /\ Len(<<Cmd(v)>>) = 1
  BY CmdType
<1>2. CASE bytes = BeginBytes
  BY <1>2, BeginBytesIs
<1>3. CASE bytes = OptionBytes
  <2>1. 8 + OptionBits(_displaycontrol) \in Byte
    BY OptionBitsType DEF Byte
  <2> QED BY <1>1, <1>3, <2>1 DEF OptionBytes
<1>4. CASE bytes = ModeBytes
  <2>1. 4 + ModeBits(_displaymode) \in Byte
    BY ModeBitsType DEF Byte
  <2> QED BY <1>1, <1>4, <2>1 DEF ModeBytes
<1>5. CASE bytes \in {<<Cmd(24)>>, <<Cmd(28)>>, <<Cmd(2)>>}
  <2>1. 24 \in Byte /\ 28 \in Byte /\ 2 \in Byte
    BY DEF Byte
  <2>2. PICK v \in Byte : bytes = <<Cmd(v)>>
    BY <1>5, <2>1, Zenon
  <2> QED BY <1>1, <2>2
<1>6. CASE bytes = PatternBytes
  BY <1>6, PatternIs
<1>7. CASE \E p \in Page : bytes = DrawBytes(p)
  <2>1. PICK p \in Page : bytes = DrawBytes(p)
    BY <1>7
  <2>2. Len(p[0]) \in Nat /\ Len(p[1]) \in Nat
    BY PageIs, TextIs, DisplayAssumption
  <2>3. bytes \in Seq(Item) /\ Len(bytes) = 3 + Len(p[0]) + Len(p[1])
    BY <2>1, DrawIs
  <2>4. 3 + Len(p[0]) + Len(p[1]) \in Nat /\ 3 + Len(p[0]) + Len(p[1]) > 0
    <3> DEFINE m == Len(p[0])
               n == Len(p[1])
    <3>1. m \in Nat /\ n \in Nat
      BY <2>2
    <3> HIDE DEF m, n
    <3>2. 3 + m + n \in Nat /\ 3 + m + n > 0
      BY <3>1
    <3> QED BY <3>2 DEF m, n
  <2> QED BY <2>3, <2>4, Zenon
<1> QED BY <1>2, <1>3, <1>4, <1>5, <1>6, <1>7 DEF Scripts, Others

-----------------------------------------------------------------------------
(* The controller.                                                         *)

Controller ==
  [four : BOOLEAN, half : Nibble \cup {-1}, cells : [Cell -> Byte],
   addr : 0 .. 127, ddram : BOOLEAN, options : SUBSET Option,
   mode : [right : BOOLEAN, moving : BOOLEAN], shift : 0 .. 39]

\* A character changes nothing of the modes.
LEMMA StoreIs ==
  ASSUME NEW l \in Controller, NEW byte \in Byte
  PROVE  /\ Store(l, byte) \in Controller
         /\ Store(l, byte).four = l.four /\ Store(l, byte).half = l.half
         /\ Store(l, byte).options = l.options /\ Store(l, byte).mode = l.mode
         /\ Store(l, byte).ddram = l.ddram
<1>1. /\ l.cells \in [Cell -> Byte] /\ l.addr \in 0 .. 127 /\ l.shift \in 0 .. 39
      /\ l.four \in BOOLEAN /\ l.half \in Nibble \cup {-1} /\ l.ddram \in BOOLEAN
      /\ l.options \in SUBSET Option /\ l.mode \in [right : BOOLEAN, moving : BOOLEAN]
  BY DEF Controller
<1> DEFINE cells == IF l.ddram /\ l.addr \in Cell THEN [l.cells EXCEPT ![l.addr] = byte] ELSE l.cells
           addr == (l.addr + (IF l.mode.right THEN 1 ELSE 127)) % 128
           shift == IF l.ddram /\ l.mode.moving
                      THEN (l.shift + (IF l.mode.right THEN 1 ELSE 39)) % 40 ELSE l.shift
<1>2. Store(l, byte) = [l EXCEPT !.cells = cells, !.addr = addr, !.shift = shift]
  BY DEF Store
<1>3. cells \in [Cell -> Byte] 
  BY <1>1
<1>4. addr \in 0 .. 127 /\ shift \in 0 .. 39
  BY <1>1
<1> HIDE DEF cells, addr, shift
<1>5. [l EXCEPT !.cells = cells, !.addr = addr, !.shift = shift] \in Controller
  BY <1>3, <1>4, ZenonT(60) DEF Controller
<1> QED BY <1>2, <1>5 DEF Controller

\* The commands, each by what it does.
SetCell(l, byte) == [l EXCEPT !.addr = byte % 128, !.ddram = TRUE]
SetPattern(l, byte) == [l EXCEPT !.addr = byte % 64, !.ddram = FALSE]
FunctionSet(l, byte) == [l EXCEPT !.four = ~Bit(byte, 16)]
Scroll(l, byte) == [l EXCEPT !.shift = (@ + (IF Bit(byte, 4) THEN 39 ELSE 1)) % 40]
MoveCursor(l, byte) == [l EXCEPT !.addr = (@ + (IF Bit(byte, 4) THEN 1 ELSE 127)) % 128]
OptionsOf(byte) == {o \in Option : Bit(byte, CASE o = "display" -> 4
                                               [] o = "cursor" -> 2
                                               [] o = "blink" -> 1)}
SetOptions(l, byte) == [l EXCEPT !.options = OptionsOf(byte)]
EntryMode(l, byte) == [l EXCEPT !.mode = [right |-> Bit(byte, 2), moving |-> Bit(byte, 1)]]
GoHome(l) == [l EXCEPT !.addr = 0, !.ddram = TRUE, !.shift = 0]
Cleared(l) == [l EXCEPT !.cells = [a \in Cell |-> Space], !.addr = 0, !.ddram = TRUE,
                        !.shift = 0, !.mode.right = TRUE]

\* What a command does is found from its highest bit.
LEMMA CommandCases ==
  ASSUME NEW l, NEW byte \in 0 .. 255
  PROVE  Command(l, byte) =
           IF byte >= 128 THEN SetCell(l, byte)
           ELSE IF byte >= 64 THEN SetPattern(l, byte)
           ELSE IF byte >= 32 THEN FunctionSet(l, byte)
           ELSE IF byte >= 24 THEN Scroll(l, byte)
           ELSE IF byte >= 16 THEN MoveCursor(l, byte)
           ELSE IF byte >= 8 THEN SetOptions(l, byte)
           ELSE IF byte >= 4 THEN EntryMode(l, byte)
           ELSE IF byte >= 2 THEN GoHome(l)
           ELSE IF byte = 1 THEN Cleared(l)
           ELSE l
<1>3. Command(l, byte) =
        CASE byte >= 128 -> SetCell(l, byte)
          [] byte \in 64 .. 127 -> SetPattern(l, byte)
          [] byte \in 32 .. 63 -> FunctionSet(l, byte)
          [] byte \in 24 .. 31 -> Scroll(l, byte)
          [] byte \in 16 .. 23 -> MoveCursor(l, byte)
          [] byte \in 8 .. 15 -> SetOptions(l, byte)
          [] byte \in 4 .. 7 -> EntryMode(l, byte)
          [] byte \in 2 .. 3 -> GoHome(l)
          [] byte = 1 -> Cleared(l)
          [] OTHER -> l
  BY DEF Command, SetCell, SetPattern, FunctionSet, Scroll, MoveCursor, SetOptions, OptionsOf,
         EntryMode, GoHome, Cleared
<1> QED BY <1>3

\* The fields of the controller.
LEMMA ControllerFields ==
  ASSUME NEW l \in Controller
  PROVE  /\ l.cells \in [Cell -> Byte] /\ l.addr \in 0 .. 127 /\ l.shift \in 0 .. 39
         /\ l.four \in BOOLEAN /\ l.half \in Nibble \cup {-1} /\ l.ddram \in BOOLEAN
         /\ l.options \in SUBSET Option /\ l.mode \in [right : BOOLEAN, moving : BOOLEAN]
BY DEF Controller

\* A bit is on or off.
LEMMA BitType == \A byte \in Byte, n \in {1, 2, 4, 16} : Bit(byte, n) \in BOOLEAN
BY DEF Bit

\* 128 and more: the place of the next character.
LEMMA SetCellIs ==
  ASSUME NEW l \in Controller, NEW byte \in 0 .. 255
  PROVE  SetCell(l, byte) \in Controller /\ SetCell(l, byte).half = l.half
         /\ SetCell(l, byte).four = l.four /\ SetCell(l, byte).options = l.options
         /\ SetCell(l, byte).mode = l.mode /\ SetCell(l, byte).shift = l.shift
         /\ SetCell(l, byte).cells = l.cells
         /\ SetCell(l, byte).addr = byte % 128 /\ SetCell(l, byte).ddram
<1> DEFINE x == byte % 128
<1>1. x \in 0 .. 127
  OBVIOUS
<1>2. SetCell(l, byte) = [l EXCEPT !.addr = x, !.ddram = TRUE]
  BY DEF SetCell
<1> HIDE DEF x
<1>3. [l EXCEPT !.addr = x, !.ddram = TRUE] \in Controller
  BY <1>1, ZenonT(60) DEF Controller
<1> QED BY <1>2, <1>3 DEF Controller, x

\* 64 to 127: a place in the characters' memory.
LEMMA SetPatternIs ==
  ASSUME NEW l \in Controller, NEW byte \in 64 .. 127
  PROVE  SetPattern(l, byte) \in Controller /\ SetPattern(l, byte).half = l.half
         /\ SetPattern(l, byte).four = l.four /\ SetPattern(l, byte).options = l.options
         /\ SetPattern(l, byte).mode = l.mode
<1> DEFINE x == byte % 64
<1>1. x \in 0 .. 127
  OBVIOUS
<1>2. SetPattern(l, byte) = [l EXCEPT !.addr = x, !.ddram = FALSE]
  BY DEF SetPattern
<1> HIDE DEF x
<1>3. [l EXCEPT !.addr = x, !.ddram = FALSE] \in Controller
  BY <1>1, ZenonT(60) DEF Controller
<1> QED BY <1>2, <1>3 DEF Controller

\* 32 to 63: the width of the bus.
LEMMA FunctionSetIs ==
  ASSUME NEW l \in Controller, NEW byte \in 0 .. 255
  PROVE  FunctionSet(l, byte) \in Controller /\ FunctionSet(l, byte).half = l.half
         /\ FunctionSet(l, byte).options = l.options /\ FunctionSet(l, byte).mode = l.mode
         /\ (FunctionSet(l, byte).four <=> ~Bit(byte, 16))
<1> DEFINE x == ~Bit(byte, 16)
<1>1. x \in BOOLEAN
  OBVIOUS
<1>2. FunctionSet(l, byte) = [l EXCEPT !.four = x]
  BY DEF FunctionSet
<1> HIDE DEF x
<1>3. [l EXCEPT !.four = x] \in Controller
  BY <1>1 DEF Controller
<1>4. FunctionSet(l, byte).four = x
  BY <1>2 DEF Controller
<1> QED BY <1>2, <1>3, <1>4 DEF Controller, x

\* 24 to 31: the display moves.
LEMMA ScrollIs ==
  ASSUME NEW l \in Controller, NEW byte \in 0 .. 255
  PROVE  Scroll(l, byte) \in Controller /\ Scroll(l, byte).half = l.half
         /\ Scroll(l, byte).four = l.four /\ Scroll(l, byte).options = l.options
         /\ Scroll(l, byte).mode = l.mode
<1> DEFINE x == (l.shift + (IF Bit(byte, 4) THEN 39 ELSE 1)) % 40
<1>1. x \in 0 .. 39
  BY ControllerFields
<1>2. Scroll(l, byte) = [l EXCEPT !.shift = x]
  BY DEF Scroll
<1> HIDE DEF x
<1>3. [l EXCEPT !.shift = x] \in Controller
  BY <1>1 DEF Controller
<1> QED BY <1>2, <1>3 DEF Controller

\* 16 to 23: the cursor moves.
LEMMA MoveCursorIs ==
  ASSUME NEW l \in Controller, NEW byte \in 0 .. 255
  PROVE  MoveCursor(l, byte) \in Controller /\ MoveCursor(l, byte).half = l.half
         /\ MoveCursor(l, byte).four = l.four
<1> DEFINE x == (l.addr + (IF Bit(byte, 4) THEN 1 ELSE 127)) % 128
<1>1. x \in 0 .. 127
  BY ControllerFields
<1>2. MoveCursor(l, byte) = [l EXCEPT !.addr = x]
  BY DEF MoveCursor
<1> HIDE DEF x
<1>3. [l EXCEPT !.addr = x] \in Controller
  BY <1>1 DEF Controller
<1> QED BY <1>2, <1>3 DEF Controller

\* 8 to 15: display, cursor and blinking.
LEMMA SetOptionsIs ==
  ASSUME NEW l \in Controller, NEW byte \in 0 .. 255
  PROVE  SetOptions(l, byte) \in Controller /\ SetOptions(l, byte).half = l.half
         /\ SetOptions(l, byte).four = l.four /\ SetOptions(l, byte).options = OptionsOf(byte)
         /\ SetOptions(l, byte).mode = l.mode /\ SetOptions(l, byte).shift = l.shift
         /\ SetOptions(l, byte).cells = l.cells
<1>1. OptionsOf(byte) \in SUBSET Option
  BY DEF OptionsOf
<1> DEFINE x == OptionsOf(byte)
<1>2. SetOptions(l, byte) = [l EXCEPT !.options = x]
  BY DEF SetOptions
<1> HIDE DEF x
<1>3. [l EXCEPT !.options = x] \in Controller
  BY <1>1 DEF Controller, x
<1> QED BY <1>2, <1>3 DEF Controller, x

\* 4 to 7: the direction of the text.
LEMMA EntryModeIs ==
  ASSUME NEW l \in Controller, NEW byte \in 0 .. 255
  PROVE  EntryMode(l, byte) \in Controller /\ EntryMode(l, byte).half = l.half
         /\ EntryMode(l, byte).four = l.four /\ EntryMode(l, byte).options = l.options
         /\ EntryMode(l, byte).mode = [right |-> Bit(byte, 2), moving |-> Bit(byte, 1)]
<1> DEFINE x == [right |-> Bit(byte, 2), moving |-> Bit(byte, 1)]
<1>1. x \in [right : BOOLEAN, moving : BOOLEAN]
  BY BitType DEF Byte
<1>2. EntryMode(l, byte) = [l EXCEPT !.mode = x]
  BY DEF EntryMode
<1> HIDE DEF x
<1>3. [l EXCEPT !.mode = x] \in Controller
  BY <1>1 DEF Controller
<1> QED BY <1>2, <1>3 DEF Controller, x

\* 2 and 3: the first place.
LEMMA GoHomeIs ==
  ASSUME NEW l \in Controller
  PROVE  GoHome(l) \in Controller /\ GoHome(l).half = l.half
         /\ GoHome(l).four = l.four /\ GoHome(l).options = l.options /\ GoHome(l).mode = l.mode
<1>1. GoHome(l) = [four |-> l.four, half |-> l.half, cells |-> l.cells, addr |-> 0, ddram |-> TRUE,
                   options |-> l.options, mode |-> l.mode, shift |-> 0]
  <2> DEFINE x == 0
             t == TRUE
  <2>1. GoHome(l) = [l EXCEPT !.addr = x, !.ddram = t, !.shift = x]
    BY DEF GoHome
  <2> HIDE DEF x, t
  <2>2. GoHome(l) = [four |-> l.four, half |-> l.half, cells |-> l.cells, addr |-> x, ddram |-> t,
                     options |-> l.options, mode |-> l.mode, shift |-> x]
    BY <2>1 DEF Controller
  <2> QED BY <2>2 DEF x, t
<1>2. GoHome(l) \in Controller
  BY <1>1, ControllerFields DEF Controller
<1> QED BY <1>1, <1>2

\* 1: all cells are blank.
LEMMA ClearedIs ==
  ASSUME NEW l \in Controller
  PROVE  Cleared(l) \in Controller /\ Cleared(l).half = l.half
         /\ Cleared(l).four = l.four /\ Cleared(l).options = l.options
         /\ Cleared(l).mode.moving = l.mode.moving /\ Cleared(l).mode.right
         /\ Cleared(l).shift = 0 /\ Cleared(l).addr = 0 /\ Cleared(l).ddram
         /\ Cleared(l).cells = [a \in Cell |-> Space]
<1> DEFINE x == [a \in Cell |-> Space]
           m == [l.mode EXCEPT !.right = TRUE]
<1>1. x \in [Cell -> Byte]
  BY DEF Space, Byte
<1>2. m \in [right : BOOLEAN, moving : BOOLEAN] /\ m.right /\ m.moving = l.mode.moving
  BY ControllerFields
<1>3. Cleared(l) = [l EXCEPT !.cells = x, !.addr = 0, !.ddram = TRUE, !.shift = 0, !.mode = m]
  BY DEF Cleared
<1> HIDE DEF x, m
<1>4. Cleared(l) = [four |-> l.four, half |-> l.half, cells |-> x, addr |-> 0, ddram |-> TRUE,
                    options |-> l.options, mode |-> m, shift |-> 0]
  BY <1>3 DEF Controller
<1>5. Cleared(l) \in Controller
  BY <1>1, <1>2, <1>4, ControllerFields DEF Controller
<1> QED BY <1>2, <1>4, <1>5 DEF x

\* A command keeps the controller within its types and within the byte.
LEMMA CommandType ==
  ASSUME NEW l \in Controller, NEW byte \in Byte
  PROVE  /\ Command(l, byte) \in Controller
         /\ Command(l, byte).half = l.half
         /\ byte \notin 32 .. 63 => Command(l, byte).four = l.four
<1>1. byte \in 0 .. 255
  BY DEF Byte
<1>2. byte >= 128 => Command(l, byte) = SetCell(l, byte)
  BY <1>1, CommandCases
<1>3. byte \in 64 .. 127 => Command(l, byte) = SetPattern(l, byte)
  BY <1>1, CommandCases
<1>4. byte \in 32 .. 63 => Command(l, byte) = FunctionSet(l, byte)
  BY <1>1, CommandCases
<1>5. byte \in 24 .. 31 => Command(l, byte) = Scroll(l, byte)
  BY <1>1, CommandCases
<1>6. byte \in 16 .. 23 => Command(l, byte) = MoveCursor(l, byte)
  BY <1>1, CommandCases
<1>7. byte \in 8 .. 15 => Command(l, byte) = SetOptions(l, byte)
  BY <1>1, CommandCases
<1>8. byte \in 4 .. 7 => Command(l, byte) = EntryMode(l, byte)
  BY <1>1, CommandCases
<1>9. byte \in 2 .. 3 => Command(l, byte) = GoHome(l)
  BY <1>1, CommandCases
<1>10. byte = 1 => Command(l, byte) = Cleared(l)
  BY <1>1, CommandCases
<1>11. byte = 0 => Command(l, byte) = l
  BY <1>1, CommandCases
<1>12. CASE byte >= 128
  <2>1. SetCell(l, byte) \in Controller /\ SetCell(l, byte).half = l.half /\ SetCell(l, byte).four = l.four
    BY <1>1, <1>12, SetCellIs, Zenon
  <2>2. Command(l, byte) = SetCell(l, byte)
    BY <1>2, <1>12
  <2> QED BY <1>12, <2>1, <2>2, Zenon
<1>13. CASE byte \in 64 .. 127
  <2>1. SetPattern(l, byte) \in Controller /\ SetPattern(l, byte).half = l.half /\ SetPattern(l, byte).four = l.four
    BY <1>1, <1>13, SetPatternIs, Zenon
  <2>2. Command(l, byte) = SetPattern(l, byte)
    BY <1>3, <1>13
  <2> QED BY <1>13, <2>1, <2>2, Zenon
<1>14. CASE byte \in 32 .. 63
  <2>1. FunctionSet(l, byte) \in Controller /\ FunctionSet(l, byte).half = l.half
    BY <1>1, <1>14, FunctionSetIs, Zenon
  <2>2. Command(l, byte) = FunctionSet(l, byte)
    BY <1>4, <1>14
  <2> QED BY <1>14, <2>1, <2>2, Zenon
<1>15. CASE byte \in 24 .. 31
  <2>1. Scroll(l, byte) \in Controller /\ Scroll(l, byte).half = l.half /\ Scroll(l, byte).four = l.four
    BY <1>1, <1>15, ScrollIs, Zenon
  <2>2. Command(l, byte) = Scroll(l, byte)
    BY <1>5, <1>15
  <2> QED BY <1>15, <2>1, <2>2, Zenon
<1>16. CASE byte \in 16 .. 23
  <2>1. MoveCursor(l, byte) \in Controller /\ MoveCursor(l, byte).half = l.half /\ MoveCursor(l, byte).four = l.four
    BY <1>1, <1>16, MoveCursorIs, Zenon
  <2>2. Command(l, byte) = MoveCursor(l, byte)
    BY <1>6, <1>16
  <2> QED BY <1>16, <2>1, <2>2, Zenon
<1>17. CASE byte \in 8 .. 15
  <2>1. SetOptions(l, byte) \in Controller /\ SetOptions(l, byte).half = l.half /\ SetOptions(l, byte).four = l.four
    BY <1>1, <1>17, SetOptionsIs, Zenon
  <2>2. Command(l, byte) = SetOptions(l, byte)
    BY <1>7, <1>17
  <2> QED BY <1>17, <2>1, <2>2, Zenon
<1>18. CASE byte \in 4 .. 7
  <2>1. EntryMode(l, byte) \in Controller /\ EntryMode(l, byte).half = l.half /\ EntryMode(l, byte).four = l.four
    BY <1>1, <1>18, EntryModeIs, Zenon
  <2>2. Command(l, byte) = EntryMode(l, byte)
    BY <1>8, <1>18
  <2> QED BY <1>18, <2>1, <2>2, Zenon
<1>19. CASE byte \in 2 .. 3
  <2>1. GoHome(l) \in Controller /\ GoHome(l).half = l.half /\ GoHome(l).four = l.four
    BY <1>1, <1>19, GoHomeIs, Zenon
  <2>2. Command(l, byte) = GoHome(l)
    BY <1>9, <1>19
  <2> QED BY <1>19, <2>1, <2>2, Zenon
<1>20. CASE byte = 1
  <2>1. Cleared(l) \in Controller /\ Cleared(l).half = l.half /\ Cleared(l).four = l.four
    BY <1>1, <1>20, ClearedIs, Zenon
  <2>2. Command(l, byte) = Cleared(l)
    BY <1>10, <1>20
  <2> QED BY <1>20, <2>1, <2>2, Zenon
<1>21. CASE byte = 0
  BY <1>11, <1>21
<1> QED BY <1>1, <1>12, <1>13, <1>14, <1>15, <1>16, <1>17, <1>18, <1>19, <1>20, <1>21

\* So does any byte.
LEMMA ExecuteType ==
  ASSUME NEW l \in Controller, NEW rs \in BOOLEAN, NEW byte \in Byte
  PROVE  Execute(l, rs, byte) \in Controller /\ Execute(l, rs, byte).half = l.half
<1>1. CASE rs
  <2>1. Execute(l, rs, byte) = Store(l, byte)
    BY <1>1, Zenon DEF Execute
  <2>2. Store(l, byte) \in Controller /\ Store(l, byte).half = l.half
    BY StoreIs
  <2> QED BY <2>1, <2>2, Zenon
<1>2. CASE ~rs
  <2>1. Execute(l, rs, byte) = Command(l, byte)
    BY <1>2, Zenon DEF Execute
  <2>2. Command(l, byte) \in Controller /\ Command(l, byte).half = l.half
    BY CommandType
  <2> QED BY <2>1, <2>2, Zenon
<1> QED BY <1>1, <1>2

\* What a falling edge of En does.
LEMMA LatchIs ==
  ASSUME NEW l \in Controller, NEW t \in Transfer
  PROVE  /\ ~l.four => Latch(l, t) = Execute(l, t.rs, t.nibble * 16)
         /\ l.four /\ l.half = -1 => Latch(l, t) = [l EXCEPT !.half = t.nibble]
         /\ l.four /\ l.half # -1 =>
              Latch(l, t) = Execute([l EXCEPT !.half = -1], t.rs, l.half * 16 + t.nibble)
<1> DEFINE a == Execute(l, t.rs, t.nibble * 16)
           b == [l EXCEPT !.half = t.nibble]
           c == Execute([l EXCEPT !.half = -1], t.rs, l.half * 16 + t.nibble)
           f == l.four
           g == l.half = -1
<1>1. Latch(l, t) = CASE ~f -> a [] f /\ g -> b [] OTHER -> c
  BY DEF Latch
<1> HIDE DEF a, b, c, f, g
<1>2. /\ ~f => Latch(l, t) = a
      /\ f /\ g => Latch(l, t) = b
      /\ f /\ ~g => Latch(l, t) = c
  BY <1>1
<1> QED BY <1>2 DEF a, b, c, f, g

\* And any pulse.
LEMMA LatchType ==
  ASSUME NEW l \in Controller, NEW t \in Transfer, l.half >= 0 => l.four
  PROVE  Latch(l, t) \in Controller /\ (Latch(l, t).half >= 0 => Latch(l, t).four)
<1>1. t.rs \in BOOLEAN /\ t.nibble \in Nibble
  BY DEF Transfer
<1>2. l.half \in Nibble \cup {-1} /\ l.four \in BOOLEAN
  BY ControllerFields
<1>3. CASE ~l.four
  <2>1. t.nibble * 16 \in Byte
    BY <1>1 DEF Nibble, Byte
  <2>2. Latch(l, t) = Execute(l, t.rs, t.nibble * 16)
    BY <1>3, LatchIs
  <2> DEFINE v == t.nibble * 16
  <2> HIDE DEF v
  <2>3. Execute(l, t.rs, v) \in Controller /\ Execute(l, t.rs, v).half = l.half
    BY <1>1, <2>1, ExecuteType DEF v
  <2>4. Latch(l, t) \in Controller /\ Latch(l, t).half = l.half
    BY <2>2, <2>3, Zenon DEF v
  <2>5. ~(l.half >= 0)
    BY <1>3
  <2> QED BY <2>4, <2>5
<1>4. CASE l.four /\ l.half = -1
  <2>1. Latch(l, t) = [l EXCEPT !.half = t.nibble]
    BY <1>4, LatchIs
  <2> DEFINE n == t.nibble
  <2>2. n \in Nibble
    BY <1>1
  <2> HIDE DEF n
  <2>3. [l EXCEPT !.half = n] \in Controller /\ [l EXCEPT !.half = n].four = l.four
    BY <2>2 DEF Controller
  <2> QED BY <1>4, <2>1, <2>3 DEF n
<1>5. CASE l.four /\ l.half # -1
  <2> DEFINE k == [l EXCEPT !.half = -1]
             v == l.half * 16 + t.nibble
  <2>1. Latch(l, t) = Execute(k, t.rs, v)
    BY <1>5, LatchIs
  <2>2. v \in Byte
    BY <1>1, <1>2, <1>5 DEF Nibble, Byte
  <2>3. k \in Controller /\ k.half = -1
    BY DEF Controller
  <2> HIDE DEF k, v
  <2>4. Execute(k, t.rs, v) \in Controller /\ Execute(k, t.rs, v).half = k.half
    BY <1>1, <2>2, <2>3, ExecuteType
  <2> QED BY <2>1, <2>3, <2>4
<1> QED BY <1>2, <1>3, <1>4, <1>5

-----------------------------------------------------------------------------
(* Types.                                                                  *)

\* The transfers of each call are lines of the expander.
LEMMA CallTypes ==
  /\ \A v \in Byte : command(v) \in Seq(Transfer)
  /\ \A p \in Page : draw(p) \in Seq(Transfer)
  /\ createChar(1) \in Seq(Transfer) /\ <<Quiet>> \in Seq(Transfer) /\ Quiet \in Transfer
<1>1. ASSUME NEW v \in Byte PROVE command(v) \in Seq(Transfer)
  BY CommandIs, PartsIs
<1>2. ASSUME NEW p \in Page PROVE draw(p) \in Seq(Transfer)
  <2>1. DrawBytes(p) \in Seq(Item) /\ draw(p) = Parts(DrawBytes(p))
    BY DrawIs, Zenon
  <2> QED BY <2>1, PartsIs
<1>3. createChar(1) \in Seq(Transfer)
  BY PatternIs, PartsIs
<1>4. Quiet \in Transfer
  <2>1. 0 \in Nibble
    BY DEF Nibble
  <2>2. Down(FALSE, 0) \in Transfer
    BY <2>1, LineType
  <2> QED BY <2>2, Zenon DEF Quiet, Down
<1>5. <<Quiet>> \in Seq(Transfer)
  BY <1>4
<1> QED BY <1>1, <1>2, <1>3, <1>4, <1>5

\* What a transfer changes, and what not.
LEMMA WriteFacts ==
  ASSUME TypeOK, LcdType, Write
  PROVE  /\ todo' \in Seq(Transfer) /\ lines' \in Transfer /\ lit' \in BOOLEAN
         /\ lcd' \in Controller /\ LcdType'
         /\ UNCHANGED <<started, _backlightval, _displaycontrol, _displaymode, page, intact,
                        resets, losses, blind>>
<1>1. lines' = Head(todo) /\ todo' = Tail(todo) /\ lit' = _backlightval
      /\ UNCHANGED <<started, _backlightval, _displaycontrol, _displaymode, page, history>>
      /\ todo # <<>>
  BY DEF Write
<1>2. todo \in Seq(Transfer) /\ lines \in Transfer /\ lcd \in Controller /\ _backlightval \in BOOLEAN
      /\ (lcd.half >= 0 => lcd.four)
  BY DEF TypeOK, LcdType, Controller
<1>3. todo' \in Seq(Transfer) /\ lines' \in Transfer
  BY <1>1, <1>2, HeadTailProperties
<1>4. (\E t \in {lines, lines'} : lcd' = Latch(lcd, t)) \/ lcd' = lcd
  BY DEF Write
<1>5. CASE lcd' = lcd
  BY <1>1, <1>2, <1>3, <1>5 DEF LcdType, history
<1>6. CASE \E t \in {lines, lines'} : lcd' = Latch(lcd, t)
  <2>1. PICK t \in Transfer : lcd' = Latch(lcd, t)
    BY <1>2, <1>3, <1>6
  <2>2. lcd' \in Controller /\ (lcd'.half >= 0 => lcd'.four)
    BY <1>2, <2>1, LatchType
  <2> QED BY <1>1, <1>2, <1>3, <2>2 DEF LcdType, history
<1> QED BY <1>4, <1>5, <1>6

\* A transfer keeps the types.
LEMMA WriteType ==
  ASSUME TypeOK, LcdType, Write
  PROVE  TypeOK' /\ LcdType'
<1>1. /\ todo' \in Seq(Transfer) /\ lines' \in Transfer /\ lit' \in BOOLEAN
      /\ lcd' \in Controller /\ LcdType'
      /\ UNCHANGED <<started, _backlightval, _displaycontrol, _displaymode, page, intact,
                     resets, losses, blind>>
  BY WriteFacts
<1> QED BY <1>1 DEF TypeOK, Controller

\* The bounds are numbers.
LEMMA Bounds == MaxResets \in Nat /\ MaxLosses \in Nat
BY DisplayAssumption

\* The types hold at first.
LEMMA InitType == Init => TypeOK /\ LcdType
<1> SUFFICES ASSUME Init PROVE TypeOK /\ LcdType
  OBVIOUS
<1>1. lcd \in Controller
  <2>1. [a \in Cell |-> Space] \in [Cell -> Byte]
    BY DEF Space, Byte
  <2> DEFINE blank == [a \in Cell |-> Space]
  <2>2. lcd \in [four : BOOLEAN, half : Nibble \cup {-1}, cells : {blank},
                 addr : {0}, ddram : BOOLEAN, options : {{}, Option},
                 mode : [right : BOOLEAN, moving : BOOLEAN], shift : {0}]
    BY DEF Init
  <2> HIDE DEF blank
  <2> QED BY <2>1, <2>2 DEF Controller, blank
<1>2. Quiet \in Transfer
  BY CallTypes
<1>3. lcd.half >= 0 => lcd.four
  BY <1>1, ControllerFields DEF Init
<1>4. _displaymode \in [right : BOOLEAN, moving : BOOLEAN]
  BY DEF Init, Unset
<1>5. todo \in Seq(Transfer) /\ lines \in Transfer
  BY <1>2 DEF Init
<1>6. resets \in 0 .. MaxResets /\ losses \in 0 .. MaxLosses /\ intact \in BOOLEAN
  <2>1. resets = 0 /\ losses = 0
    BY DEF Init
  <2>2. intact \in BOOLEAN
    BY Zenon DEF Init
  <2> QED BY <2>1, <2>2, Bounds
<1> QED BY <1>1, <1>3, <1>4, <1>5, <1>6 DEF Init, TypeOK, Controller, LcdType

\* A call keeps the types.
LEMMA CallType ==
  ASSUME TypeOK, LcdType, NEW bytes \in Seq(Transfer), Call(bytes),
         _displaycontrol' \subseteq Option,
         _displaymode' \in [right : BOOLEAN, moving : BOOLEAN],
         page' \in Page \cup {NoPage}, _backlightval' \in BOOLEAN
  PROVE  TypeOK' /\ LcdType'
BY DEF Call, TypeOK, LcdType, expander

\* Every step keeps the types.
LEMMA TypeStep ==
  ASSUME TypeOK, LcdType, [Next]_vars
  PROVE  TypeOK' /\ LcdType'
<1>1. CASE Start
  <2>1. begin \in Seq(Transfer)
    BY BeginIs
  <2>2. Rightward \in [right : BOOLEAN, moving : BOOLEAN]
    BY DEF Rightward
  <2> QED BY <1>1, <2>1, <2>2 DEF Start, TypeOK, LcdType, expander, Option
<1>2. CASE Write
  BY <1>2, WriteType
<1>3. CASE Lose
  <2>1. Tail(todo) \in Seq(Transfer)
    BY <1>3, HeadTailProperties DEF TypeOK, Lose
  <2>2. losses' \in 0 .. MaxLosses /\ intact' \in BOOLEAN
    <3>1. losses < MaxLosses /\ losses' = losses + 1
      BY <1>3 DEF Lose
    <3>2. losses \in 0 .. MaxLosses
      BY DEF TypeOK
    <3>3. intact' \in BOOLEAN
      BY <1>3, Zenon DEF Lose
    <3> QED BY <3>1, <3>2, <3>3, Bounds
  <2> QED BY <1>3, <2>1, <2>2 DEF Lose, TypeOK, LcdType, expander
<1>4. CASE \E p \in Page : Draw(p)
  <2>1. PICK p \in Page : Draw(p)
    BY <1>4
  <2>2. draw(p) \in Seq(Transfer)
    BY CallTypes
  <2> QED BY <2>1, <2>2, CallType DEF Draw, TypeOK
<1>5. CASE \E b \in BOOLEAN : Light(b)
  <2>1. PICK b \in BOOLEAN : Light(b)
    BY <1>5
  <2>2. <<Quiet>> \in Seq(Transfer)
    BY CallTypes
  <2> QED BY <2>1, <2>2, CallType DEF Light, TypeOK
<1>6. CASE ExtraCalls
  <2>1. CASE \E o \in Option \cap Extra : \E on \in BOOLEAN : SetOption(o, on)
    <3>1. PICK o \in Option, on \in BOOLEAN : SetOption(o, on)
      BY <2>1
    <3>2. 8 + OptionBits(_displaycontrol') \in Byte
      BY OptionBitsType DEF Byte
    <3>3. command(8 + OptionBits(_displaycontrol')) \in Seq(Transfer)
      BY <3>2, CallTypes
    <3>4. _displaycontrol' \subseteq Option
      BY <3>1 DEF SetOption, TypeOK
    <3> QED BY <3>1, <3>3, <3>4, CallType DEF SetOption, TypeOK
  <2>2. ASSUME NEW mode \in [right : BOOLEAN, moving : BOOLEAN], SetMode(mode)
        PROVE  TypeOK' /\ LcdType'
    <3>1. 4 + ModeBits(mode) \in Byte
      BY ModeBitsType DEF Byte
    <3>2. command(4 + ModeBits(mode)) \in Seq(Transfer)
      BY <3>1, CallTypes
    <3> QED BY <2>2, <3>2, CallType DEF SetMode, TypeOK
  <2>3. CASE \E b \in BOOLEAN : SetMode([_displaymode EXCEPT !.right = b])
    <3>1. PICK b \in BOOLEAN : SetMode([_displaymode EXCEPT !.right = b])
      BY <2>3
    <3>2. [_displaymode EXCEPT !.right = b] \in [right : BOOLEAN, moving : BOOLEAN]
      BY DEF TypeOK
    <3> QED BY <2>2, <3>1, <3>2
  <2>4. CASE \E b \in BOOLEAN : SetMode([_displaymode EXCEPT !.moving = b])
    <3>1. PICK b \in BOOLEAN : SetMode([_displaymode EXCEPT !.moving = b])
      BY <2>4
    <3>2. [_displaymode EXCEPT !.moving = b] \in [right : BOOLEAN, moving : BOOLEAN]
      BY DEF TypeOK
    <3> QED BY <2>2, <3>1, <3>2
  <2>5. CASE \E bytes \in {command(24), command(28), createChar(1), home} : Send(bytes)
    <3>1. PICK bytes \in {command(24), command(28), createChar(1), home} : Send(bytes)
      BY <2>5
    <3>2. 24 \in Byte /\ 28 \in Byte /\ 2 \in Byte
      BY DEF Byte
    <3>3. command(24) \in Seq(Transfer) /\ command(28) \in Seq(Transfer) /\ home \in Seq(Transfer)
          /\ createChar(1) \in Seq(Transfer)
      BY <3>2, CallTypes DEF home
    <3>4. bytes \in Seq(Transfer)
      BY <3>1, <3>3
    <3> QED BY <3>1, <3>4, CallType DEF Send, TypeOK
  <2> QED BY <1>6, <2>1, <2>3, <2>4, <2>5 DEF ExtraCalls
<1>7. CASE Reset
  <2>1. Unset \in [right : BOOLEAN, moving : BOOLEAN]
    BY DEF Unset
  <2>2. resets' \in 0 .. MaxResets /\ intact' \in BOOLEAN /\ <<>> \in Seq(Transfer)
    <3>1. resets < MaxResets /\ resets' = resets + 1
      BY <1>7 DEF Reset
    <3>2. resets \in 0 .. MaxResets
      BY DEF TypeOK
    <3>3. intact' \in BOOLEAN
      BY <1>7, Zenon DEF Reset
    <3>4. resets' \in 0 .. MaxResets
      BY <3>1, <3>2, Bounds
    <3> QED BY <3>3, <3>4
  <2> QED BY <1>7, <2>1, <2>2 DEF Reset, TypeOK, LcdType, expander
<1>8. CASE UNCHANGED vars
  BY <1>8 DEF vars, driver, expander, history, TypeOK, LcdType
<1> QED BY <1>1, <1>2, <1>3, <1>4, <1>5, <1>6, <1>7, <1>8 DEF Next, Spent

\* The fields of the lines.
LEMMA LineFields ==
  ASSUME NEW rs \in BOOLEAN, NEW n
  PROVE  /\ Up(rs, n).en /\ Up(rs, n).rs = rs /\ Up(rs, n).nibble = n
         /\ ~Down(rs, n).en /\ Down(rs, n).rs = rs /\ Down(rs, n).nibble = n
BY Zenon DEF Up, Down, Bits

\* The fields of a transfer of a byte.
LEMMA PartFields ==
  ASSUME NEW b \in Item, NEW j \in 1 .. 6
  PROVE  /\ Part(b, j).en <=> j \in {2, 5}
         /\ Part(b, j).rs = b.rs /\ Part(b, j).nibble = Half(b.byte, j)
<1>1. b.rs \in BOOLEAN
  BY DEF Item
<1>2. CASE j \in {2, 5}
  BY <1>1, <1>2, LineFields, ZenonT(60) DEF Part
<1>3. CASE j \notin {2, 5}
  BY <1>1, <1>3, LineFields, ZenonT(60) DEF Part
<1> QED BY <1>2, <1>3

\* What the controller shows and how is as it was.
SameButHalf(l, r) ==
  /\ r.four = l.four /\ r.cells = l.cells /\ r.addr = l.addr /\ r.ddram = l.ddram
  /\ r.options = l.options /\ r.mode = l.mode /\ r.shift = l.shift

\* One transfer of a byte.
LEMMA ByteStep ==
  ASSUME TypeOK, LcdType, Write, NEW bytes \in Scripts, NEW k \in 0 .. Len(bytes) - 1,
         NEW j \in 0 .. 5, Sending(bytes, k, j)
  PROVE  /\ lit' = _backlightval
         /\ j < 5 => Sending(bytes, k, j + 1)' /\ SameButHalf(lcd, lcd')
         /\ j = 5 =>
              /\ todo' = Suffix(Parts(bytes), 6 * (k + 1) + 1)
              /\ ~lines'.en
              /\ lcd' = Execute([lcd EXCEPT !.half = -1], bytes[k + 1].rs, bytes[k + 1].byte)
<1> DEFINE b == bytes[k + 1]
           F == Parts(bytes)
           m == 6 * k + j + 1
           hi == b.byte \div 16
           lo == b.byte % 16
<1>1. bytes \in Seq(Item) /\ Len(bytes) \in Nat
  BY ScriptIs
<1>2. b \in Item /\ b.rs \in BOOLEAN /\ b.byte \in Byte
  <2>1. k + 1 \in 1 .. Len(bytes)
    BY <1>1
  <2>2. b \in Item
    BY <1>1, <2>1, ElementOfSeq
  <2> QED BY <2>2 DEF Item
<1>3. F \in Seq(Transfer) /\ Len(F) = 6 * Len(bytes) /\ F[m] = Part(b, j + 1)
  <2>1. F \in Seq(Transfer) /\ Len(F) = 6 * Len(bytes)
    BY <1>1, PartsIs
  <2>2. \A i \in 0 .. Len(bytes) - 1, n \in 1 .. 6 : F[6 * i + n] = Part(bytes[i + 1], n)
    BY <1>1, PartsIs, Zenon
  <2>3. F[6 * k + (j + 1)] = Part(bytes[k + 1], j + 1)
    <3>1. j + 1 \in 1 .. 6
      OBVIOUS
    <3> QED BY <2>2, <3>1, Zenon
  <2>4. 6 * k + (j + 1) = m
    BY <1>1
  <2> QED BY <2>1, <2>3, <2>4
<1>4. m \in 1 .. Len(F)
  BY <1>1, <1>3
<1>5. TailIs(F, m)
  BY <1>3, <1>4, SuffixIs
<1>6. /\ todo = Suffix(F, m) /\ lcd.four
      /\ lcd.half = (IF j < 3 THEN -1 ELSE hi)
      /\ IF j = 0 THEN ~lines.en ELSE lines = Part(b, j)
  BY DEF Sending
<1>7. /\ lines' = Part(b, j + 1) /\ todo' = Suffix(F, m + 1) /\ lit' = _backlightval
  BY <1>3, <1>5, <1>6 DEF Write, TailIs
<1>8. lines'.en <=> j + 1 \in {2, 5}
  <2>1. j + 1 \in 1 .. 6
    OBVIOUS
  <2> QED BY <1>2, <1>7, <2>1, PartFields
<1>9. lines.en <=> j \in {2, 5}
  <2>1. CASE j = 0
    BY <1>6, <2>1
  <2>2. CASE j # 0
    <3>1. j \in 1 .. 6
      BY <2>2
    <3> QED BY <1>2, <1>6, <2>2, <3>1, PartFields
  <2> QED BY <2>1, <2>2
<1>10. lcd \in Controller /\ lines \in Transfer
  BY DEF TypeOK, Controller
<1>11. hi \in Nibble /\ lo \in Nibble /\ b.byte = hi * 16 + lo
  BY <1>2, Halves
<1>12. CASE j \notin {2, 5}
  <2>1. lcd' = lcd
    BY <1>9, <1>12 DEF Write
  <2>2. j < 5 /\ (j < 3 <=> j + 1 < 3) /\ j + 1 # 0 /\ 6 * k + (j + 1) + 1 = m + 1
    BY <1>1, <1>12
  <2>3. Sending(bytes, k, j + 1)'
    BY <1>6, <1>7, <2>1, <2>2 DEF Sending
  <2> QED BY <1>7, <2>1, <2>2, <2>3 DEF SameButHalf
<1>13. CASE j \in {2, 5}
  <2>1. lines.en /\ ~lines'.en
    BY <1>8, <1>9, <1>13
  <2>2. PICK t \in {lines, lines'} : lcd' = Latch(lcd, t)
    BY <2>1 DEF Write
  <2>3. t \in Transfer /\ t.rs = b.rs /\ t.nibble = Half(b.byte, j)
    <3>1. j \in 1 .. 6 /\ j + 1 \in 1 .. 6 /\ j # 0
      BY <1>13
    <3>2. lines = Part(b, j)
      BY <1>6, <3>1
    <3>3. /\ lines \in Transfer /\ lines.rs = b.rs /\ lines.nibble = Half(b.byte, j)
          /\ lines' \in Transfer /\ lines'.rs = b.rs /\ lines'.nibble = Half(b.byte, j + 1)
      BY <1>2, <1>7, <3>1, <3>2, PartFields, PartType
    <3>4. Half(b.byte, j + 1) = Half(b.byte, j)
      BY <1>13 DEF Half
    <3> QED BY <2>2, <3>3, <3>4, Zenon
  <2>4. CASE j = 2
    <3>1. Half(b.byte, j) = hi
      BY <2>4 DEF Half
    <3>2. lcd.four /\ lcd.half = -1
      BY <1>6, <2>4
    <3>3. lcd' = [lcd EXCEPT !.half = t.nibble]
      BY <1>10, <2>2, <2>3, <3>2, LatchIs
    <3> HIDE DEF hi, lo
    <3>4. lcd' = [lcd EXCEPT !.half = hi]
      BY <2>3, <3>1, <3>3, Zenon
    <3>5. lcd'.half = hi /\ SameButHalf(lcd, lcd')
      BY <1>10, <3>4 DEF SameButHalf, Controller
    <3>6. j + 1 = 3 /\ m + 1 = 6 * k + (j + 1) + 1
      BY <2>4
    <3>7. Sending(bytes, k, j + 1)'
      BY <1>6, <1>7, <3>5, <3>6 DEF Sending, SameButHalf, hi
    <3> QED BY <1>7, <2>4, <3>5, <3>7
  <2>5. CASE j = 5
    <3>1. Half(b.byte, j) = lo
      BY <2>5 DEF Half
    <3>2. lcd.four /\ lcd.half = hi /\ lcd.half # -1
      <4>1. lcd.half = hi
        BY <1>6, <2>5
      <4> HIDE DEF hi
      <4> QED BY <1>6, <1>11, <4>1, SMTT(60) DEF Nibble
    <3>3. lcd' = Execute([lcd EXCEPT !.half = -1], t.rs, lcd.half * 16 + t.nibble)
      BY <1>10, <2>2, <2>3, <3>2, LatchIs
    <3>4. lcd' = Execute([lcd EXCEPT !.half = -1], b.rs, b.byte)
      <4> HIDE DEF hi, lo
      <4> QED BY <1>11, <2>3, <3>1, <3>2, <3>3, Zenon
    <3>5. m + 1 = 6 * (k + 1) + 1
      BY <2>5
    <3> QED BY <1>7, <2>1, <2>5, <3>4, <3>5
  <2> QED BY <1>13, <2>4, <2>5
<1> QED BY <1>12, <1>13

\* The options and the mode that a byte carries.
LEMMA OptionsSent ==
  ASSUME NEW options \in SUBSET Option
  PROVE  /\ 8 + OptionBits(options) \in 8 .. 15
         /\ OptionsOf(8 + OptionBits(options)) = options
<1> DEFINE d == IF "display" \in options THEN 4 ELSE 0
           c == IF "cursor" \in options THEN 2 ELSE 0
           k == IF "blink" \in options THEN 1 ELSE 0
           v == 8 + OptionBits(options)
<1>1. /\ d \in {0, 4} /\ c \in {0, 2} /\ k \in {0, 1}
      /\ (d = 4 <=> "display" \in options) /\ (c = 2 <=> "cursor" \in options)
      /\ (k = 1 <=> "blink" \in options)
  OBVIOUS
<1>2. v = 8 + (d + c + k)
  BY DEF OptionBits
<1> HIDE DEF d, c, k, v
<1>3. /\ v \in 8 .. 15
      /\ Bit(v, 4) <=> "display" \in options
      /\ Bit(v, 2) <=> "cursor" \in options
      /\ Bit(v, 1) <=> "blink" \in options
  <2>1. v \in 8 .. 15
    BY <1>1, <1>2
  <2>2. (v \div 4) % 2 = 1 <=> d = 4
    BY <1>1, <1>2
  <2>3. (v \div 2) % 2 = 1 <=> c = 2
    BY <1>1, <1>2
  <2>4. (v \div 1) % 2 = 1 <=> k = 1
    BY <1>1, <1>2
  <2> QED BY <1>1, <2>1, <2>2, <2>3, <2>4 DEF Bit
<1>4. ASSUME NEW o \in Option PROVE o \in OptionsOf(v) <=> o \in options
  <2>1. CASE o = "display"
    BY <1>3, <2>1 DEF OptionsOf, Option
  <2>2. CASE o = "cursor"
    BY <1>3, <2>2 DEF OptionsOf, Option
  <2>3. CASE o = "blink"
    BY <1>3, <2>3 DEF OptionsOf, Option
  <2> QED BY <2>1, <2>2, <2>3 DEF Option
<1>5. OptionsOf(v) \subseteq Option
  BY DEF OptionsOf
<1>6. OptionsOf(v) = options
  BY <1>4, <1>5
<1> QED BY <1>3, <1>6 DEF v

\* The same for the entry mode.
LEMMA ModeSent ==
  ASSUME NEW mode \in [right : BOOLEAN, moving : BOOLEAN]
  PROVE  /\ 4 + ModeBits(mode) \in 4 .. 7
         /\ [right |-> Bit(4 + ModeBits(mode), 2), moving |-> Bit(4 + ModeBits(mode), 1)] = mode
<1> DEFINE r == IF mode.right THEN 2 ELSE 0
           g == IF mode.moving THEN 1 ELSE 0
           v == 4 + ModeBits(mode)
<1>1. r \in {0, 2} /\ g \in {0, 1} /\ (r = 2 <=> mode.right) /\ (g = 1 <=> mode.moving)
  OBVIOUS
<1>2. v = 4 + (r + g)
  BY DEF ModeBits
<1> HIDE DEF r, g, v
<1>3. v \in 4 .. 7
  BY <1>1, <1>2
<1>4. (v \div 2) % 2 = 1 <=> r = 2
  BY <1>1, <1>2
<1>5. (v \div 1) % 2 = 1 <=> g = 1
  BY <1>1, <1>2
<1>6. Bit(v, 2) <=> mode.right
  BY <1>1, <1>4 DEF Bit
<1>7. Bit(v, 1) <=> mode.moving
  BY <1>1, <1>5 DEF Bit
<1>8. Bit(v, 2) \in BOOLEAN /\ Bit(v, 1) \in BOOLEAN /\ mode.right \in BOOLEAN /\ mode.moving \in BOOLEAN
  BY DEF Bit
<1>9. Bit(v, 2) = mode.right /\ Bit(v, 1) = mode.moving
  BY <1>6, <1>7, <1>8
<1>10. [right |-> Bit(v, 2), moving |-> Bit(v, 1)] = mode
  BY <1>9
<1> QED BY <1>3, <1>10 DEF v

\* With text to the right, a character goes to its cell and the next to the next.
LEMMA StoreAt ==
  ASSUME NEW l \in Controller, NEW byte \in Byte, l.ddram, l.mode.right, l.addr \in Cell
  PROVE  /\ Store(l, byte).cells = [l.cells EXCEPT ![l.addr] = byte]
         /\ Store(l, byte).addr = (l.addr + 1) % 128
         /\ ~l.mode.moving => Store(l, byte).shift = l.shift
<1> DEFINE cells == [l.cells EXCEPT ![l.addr] = byte]
           addr == (l.addr + 1) % 128
           shift == IF l.mode.moving THEN (l.shift + 1) % 40 ELSE l.shift
<1>1. Store(l, byte) = [l EXCEPT !.cells = cells, !.addr = addr, !.shift = shift]
  BY DEF Store
<1>2. ~l.mode.moving => shift = l.shift
  OBVIOUS
<1> HIDE DEF cells, addr, shift
<1>3. Store(l, byte).cells = cells /\ Store(l, byte).addr = addr /\ Store(l, byte).shift = shift
  BY <1>1 DEF Controller
<1> QED BY <1>2, <1>3 DEF cells, addr

\* The bytes of a page, one by one.
LEMMA ByteOfPage ==
  ASSUME NEW p \in Page, NEW k \in 0 .. 2 + Len(p[0]) + Len(p[1])
  PROVE  /\ k = 0 => DrawBytes(p)[k + 1] = Cmd(1)
         /\ k = 1 => DrawBytes(p)[k + 1] = Cmd(128)
         /\ k \in 2 .. 1 + Len(p[0]) => DrawBytes(p)[k + 1] = [rs |-> TRUE, byte |-> p[0][k - 1]]
         /\ k = 2 + Len(p[0]) => DrawBytes(p)[k + 1] = Cmd(192)
         /\ k > 2 + Len(p[0]) => DrawBytes(p)[k + 1] = [rs |-> TRUE, byte |-> p[1][k - 2 - Len(p[0])]]
<1> DEFINE a == Len(p[0])
           n == Len(p[1])
           x(i) == [rs |-> TRUE, byte |-> p[0][i]]
           y(i) == [rs |-> TRUE, byte |-> p[1][i]]
           c1 == Cmd(1)
           c2 == Cmd(128)
           c3 == Cmd(192)
           d == DrawBytes(p)
<1>1. \A i \in 1 .. 3 + a + n :
        d[i] = IF i = 1 THEN c1 ELSE IF i = 2 THEN c2 ELSE IF i <= 2 + a THEN x(i - 2)
               ELSE IF i = 3 + a THEN c3 ELSE y(i - 3 - a)
  BY DrawIs, Zenon
<1>2. a \in Nat /\ n \in Nat
  BY PageIs, TextIs, DisplayAssumption
<1>3. k \in 0 .. 2 + a + n
  OBVIOUS
<1> HIDE DEF a, n, x, y, c1, c2, c3, d
<1>4. k + 1 \in 1 .. 3 + a + n /\ (k + 1) - 2 = k - 1 /\ (k + 1) - 3 - a = k - 2 - a
  BY <1>2, <1>3
<1>5. /\ k = 0 => d[k + 1] = c1
      /\ k = 1 => d[k + 1] = c2
      /\ k \in 2 .. 1 + a => d[k + 1] = x(k - 1)
      /\ k = 2 + a => d[k + 1] = c3
      /\ k > 2 + a => d[k + 1] = y(k - 2 - a)
  BY <1>1, <1>2, <1>3, <1>4
<1> QED BY <1>5, Zenon DEF a, n, x, y, c1, c2, c3, d

\* The cells of two places are two.
LEMMA CellOf ==
  /\ \A r \in Row, c \in 0 .. Columns - 1 : r * 64 + c \in Cell
  /\ \A r \in Row, c \in 0 .. Columns - 1, s \in Row, d \in 0 .. Columns - 1 :
       r * 64 + c = s * 64 + d => r = s /\ c = d
<1>1. Columns \in 1 .. 16
  BY DisplayAssumption
<1>2. \A r \in Row, c \in 0 .. Columns - 1 : r * 64 + c \in Cell
  BY DEF Cell
<1>3. ASSUME NEW r \in Row, NEW c \in 0 .. Columns - 1, NEW s \in Row, NEW d \in 0 .. Columns - 1,
             r * 64 + c = s * 64 + d
      PROVE  r = s /\ c = d
  BY <1>1, <1>3 DEF Row
<1> QED BY <1>2, <1>3

\* The controller, as l says but for a byte it has begun, takes the byte b.
Executes(l, b) == SameButHalf(lcd, l) /\ lcd' = Execute(l, b.rs, b.byte)

\* A byte of a page: it clears the display, sets a place or fills a column.
LEMMA DrawStep ==
  ASSUME TypeOK, UNCHANGED <<_displaycontrol, _displaymode, page>>, NEW p \in Page,
         NEW k \in 0 .. 2 + Len(p[0]) + Len(p[1]), DrawDone(p, k), NEW l \in Controller,
         Executes(l, DrawBytes(p)[k + 1])
  PROVE  lcd'.four = lcd.four /\ DrawDone(p, k + 1)'
<1> DEFINE a == Len(p[0])
           n == Len(p[1])
           b == DrawBytes(p)[k + 1]
           Filling(r, c, i) == c < Len(p[r]) /\ c < Filled(p, r, i)
<1>1. /\ p[0] \in Seq(Byte) /\ p[1] \in Seq(Byte) /\ a \in 0 .. Columns /\ n \in 0 .. Columns
      /\ Columns \in 1 .. 16
  BY PageIs, TextIs, DisplayAssumption
<1>12. a \in Nat /\ n \in Nat /\ a <= Columns /\ n <= Columns /\ Columns \in 1 .. 16 /\ k \in 0 .. 2 + a + n
  <2>1. a \in 0 .. Columns /\ n \in 0 .. Columns /\ Columns \in 1 .. 16
    BY <1>1
  <2>2. k \in 0 .. 2 + a + n
    OBVIOUS
  <2> HIDE DEF a, n
  <2> QED BY <2>1, <2>2
<1>13. Executes(l, b)
  OBVIOUS
<1>2. /\ page = p /\ lcd.options = _displaycontrol /\ lcd.mode.moving = _displaymode.moving
      /\ (_displaymode.right => lcd.mode.right)
  BY DEF DrawDone, Copied, ModeCopied
<1>3. k > 0 =>
       /\ lcd.ddram /\ lcd.mode.right /\ (~_displaymode.moving => lcd.shift = 0)
       /\ lcd.addr = IF k = 1 THEN 0 ELSE IF k <= 2 + a THEN k - 2 ELSE 64 + (k - 3 - a)
       /\ \A r \in Row, c \in 0 .. Columns - 1 :
            lcd.cells[r * 64 + c] = IF Filling(r, c, k) THEN p[r][c + 1] ELSE Space
  BY DEF DrawDone, Drawn, Shows
<1>4. /\ l.four = lcd.four /\ l.cells = lcd.cells /\ l.addr = lcd.addr /\ l.ddram = lcd.ddram
      /\ l.options = lcd.options /\ l.mode = lcd.mode /\ l.shift = lcd.shift
  BY DEF Executes, SameButHalf
<1>5. /\ k = 0 => b = Cmd(1)
      /\ k = 1 => b = Cmd(128)
      /\ k \in 2 .. 1 + a => b = [rs |-> TRUE, byte |-> p[0][k - 1]]
      /\ k = 2 + a => b = Cmd(192)
      /\ k > 2 + a => b = [rs |-> TRUE, byte |-> p[1][k - 2 - a]]
  BY ByteOfPage, Zenon
<1>6. SUFFICES
        /\ lcd'.four = l.four /\ lcd'.options = l.options
        /\ lcd'.mode.moving = l.mode.moving /\ lcd'.mode.right /\ lcd'.ddram
        /\ ~_displaymode.moving => lcd'.shift = 0
        /\ lcd'.addr = IF k = 0 THEN 0 ELSE IF k <= 1 + a THEN k - 1 ELSE 64 + (k - 2 - a)
        /\ \A r \in Row, c \in 0 .. Columns - 1 :
             lcd'.cells[r * 64 + c] = IF Filling(r, c, k + 1) THEN p[r][c + 1] ELSE Space
  <2>1. ASSUME lcd'.addr = IF k = 0 THEN 0 ELSE IF k <= 1 + a THEN k - 1 ELSE 64 + (k - 2 - a)
        PROVE  lcd'.addr = IF k + 1 = 1 THEN 0 ELSE IF k + 1 <= 2 + a THEN (k + 1) - 2
                           ELSE 64 + ((k + 1) - 3 - a)
    <3> HIDE DEF a, n
    <3> QED BY <1>12, <2>1
  <2>2. lcd'.options = _displaycontrol' /\ lcd'.mode.moving = _displaymode'.moving
        /\ lcd'.mode.right /\ page' = p
    BY <1>2, <1>4
  <2>3. k + 1 > 0
    OBVIOUS
  <2>4. /\ lcd'.ddram /\ (~_displaymode'.moving => lcd'.shift = 0)
        /\ lcd'.addr = IF k + 1 = 1 THEN 0 ELSE IF k + 1 <= 2 + a THEN (k + 1) - 2
                       ELSE 64 + ((k + 1) - 3 - a)
        /\ \A r \in Row, c \in 0 .. Columns - 1 :
             lcd'.cells[r * 64 + c] = IF c < Len(p[r]) /\ c < Filled(p, r, k + 1) THEN p[r][c + 1] ELSE Space
    BY <2>1
  <2>5. Copied'
    BY <2>2 DEF Copied, ModeCopied
  <2>6. Drawn(p, k + 1)'
    <3>1. lcd'.ddram /\ lcd'.mode.right /\ (~_displaymode'.moving => lcd'.shift = 0)
      BY <2>2, <2>4
    <3>2. lcd'.addr = IF k + 1 = 1 THEN 0 ELSE IF k + 1 <= 2 + Len(p[0]) THEN (k + 1) - 2
                      ELSE 64 + ((k + 1) - 3 - Len(p[0]))
      BY <2>1
    <3>3. \A r \in Row, c \in 0 .. Columns - 1 :
            lcd'.cells[r * 64 + c] = IF c < Len(p[r]) /\ c < Filled(p, r, k + 1) THEN p[r][c + 1] ELSE Space
      BY <2>4
    <3>4. Shows(lcd', _displaymode'.moving, p, k + 1)
      <4> DEFINE i == k + 1
                 q == lcd'
      <4>1. q.ddram /\ q.mode.right /\ (~_displaymode'.moving => q.shift = 0)
        BY <3>1
      <4>2. q.addr = IF i = 1 THEN 0 ELSE IF i <= 2 + Len(p[0]) THEN i - 2 ELSE 64 + (i - 3 - Len(p[0]))
        BY <3>2
      <4>3. \A r \in Row, c \in 0 .. Columns - 1 :
              q.cells[r * 64 + c] = IF c < Len(p[r]) /\ c < Filled(p, r, i) THEN p[r][c + 1] ELSE Space
        BY <3>3
      <4> HIDE DEF i, q
      <4>4. Shows(q, _displaymode'.moving, p, i)
        BY <4>1, <4>2, <4>3 DEF Shows
      <4> QED BY <4>4, Zenon DEF i, q
    <3> QED BY <3>4, Zenon DEF Drawn
  <2>7. DrawDone(p, k + 1)'
    BY <2>2, <2>5, <2>6 DEF DrawDone
  <2> QED BY <1>4, <2>7
<1> HIDE DEF a, n, b
<1>7. \A c \in 0 .. Columns - 1 :
        /\ Filling(0, c, k) <=> c < a /\ c < k - 2
        /\ Filling(1, c, k) <=> c < n /\ c < k - 3 - a
        /\ Filling(0, c, k + 1) <=> c < a /\ c < k - 1
        /\ Filling(1, c, k + 1) <=> c < n /\ c < k - 2 - a
  BY <1>1 DEF Filled, a, n
<1> HIDE DEF Filling
<1>8. CASE k = 0
  <2>1. b.rs = FALSE /\ b.byte = 1
    BY <1>5, <1>8 DEF Cmd
  <2>2. lcd' = Cleared(l)
    <3>1. lcd' = Command(l, 1)
      BY <1>13, <2>1, Zenon DEF Execute, Executes
    <3>2. Command(l, 1) = Cleared(l)
      BY CommandCases
    <3> QED BY <3>1, <3>2
  <2>3. \A r \in Row, c \in 0 .. Columns - 1 : ~Filling(r, c, k + 1)
    BY <1>1, <1>7, <1>8 DEF Row
  <2>4. \A r \in Row, c \in 0 .. Columns - 1 : lcd'.cells[r * 64 + c] = Space
    BY <2>2, ClearedIs, CellOf
  <2> QED BY <1>8, <2>2, <2>3, <2>4, ClearedIs
<1>9. CASE k = 1 \/ k = 2 + a
  <2> DEFINE v == IF k = 1 THEN 128 ELSE 192
  <2>1. b.rs = FALSE /\ b.byte = v /\ v \in 0 .. 255 /\ v >= 128
    BY <1>1, <1>5, <1>9 DEF Cmd
  <2>2. v % 128 = IF k <= 1 + a THEN k - 1 ELSE 64 + (k - 2 - a)
    BY <1>1, <1>9
  <2> HIDE DEF v
  <2>3. lcd' = SetCell(l, v)
    <3>1. lcd' = Command(l, v)
      BY <1>13, <2>1, Zenon DEF Execute, Executes
    <3>2. Command(l, v) = SetCell(l, v)
      BY <2>1, CommandCases
    <3> QED BY <3>1, <3>2
  <2>4. \A r \in Row, c \in 0 .. Columns - 1 : Filling(r, c, k + 1) <=> Filling(r, c, k)
    BY <1>1, <1>7, <1>9 DEF Row
  <2>5. /\ lcd'.four = l.four /\ lcd'.options = l.options /\ lcd'.mode = l.mode
        /\ lcd'.shift = l.shift /\ lcd'.cells = l.cells /\ lcd'.addr = v % 128 /\ lcd'.ddram
    <3>1. v \in 0 .. 255
      BY <2>1
    <3>2. /\ SetCell(l, v).four = l.four /\ SetCell(l, v).options = l.options
          /\ SetCell(l, v).mode = l.mode /\ SetCell(l, v).shift = l.shift
          /\ SetCell(l, v).cells = l.cells /\ SetCell(l, v).addr = v % 128 /\ SetCell(l, v).ddram
      BY <3>1, SetCellIs, ZenonT(60)
    <3> QED BY <2>3, <3>2, Zenon
  <2>6. k > 0
    BY <1>1, <1>9
  <2> QED BY <1>3, <1>4, <2>2, <2>4, <2>5, <2>6
<1>10. CASE k \in 2 .. 1 + a \/ k > 2 + a
  <2> DEFINE r0 == IF k <= 1 + a THEN 0 ELSE 1
             c0 == IF k <= 1 + a THEN k - 2 ELSE k - 3 - a
             v == p[r0][c0 + 1]
  <2>1. /\ k > 0 /\ k # 1 /\ k # 0 /\ (k <= 1 + a <=> k <= 2 + a) /\ k # 2 + a
        /\ c0 + 1 = (IF k <= 1 + a THEN k - 1 ELSE k - 2 - a)
        /\ r0 * 64 + c0 = (IF k <= 2 + a THEN k - 2 ELSE 64 + (k - 3 - a))
        /\ r0 * 64 + c0 + 1 = (IF k <= 1 + a THEN k - 1 ELSE 64 + (k - 2 - a))
        /\ r0 \in Row /\ c0 \in 0 .. Columns - 1
    BY <1>12, <1>10 DEF Row
  <2>10. c0 < Len(p[r0])
    <3>1. CASE k <= 1 + a
      <4>1. r0 = 0 /\ c0 < a
        BY <1>12, <3>1
      <4> QED BY <4>1, Zenon DEF a
    <3>2. CASE ~(k <= 1 + a)
      <4>1. r0 = 1 /\ c0 < n
        BY <1>12, <1>10, <3>2
      <4> QED BY <4>1, Zenon DEF n
    <3> QED BY <3>1, <3>2
  <2>2. b = [rs |-> TRUE, byte |-> v]
    <3>1. CASE k <= 1 + a
      BY <1>5, <2>1, <3>1
    <3>2. CASE ~(k <= 1 + a)
      BY <1>5, <1>10, <1>12, <2>1, <3>2
    <3> QED BY <3>1, <3>2
  <2>3. v \in Byte
    <3> HIDE DEF r0, c0
    <3>2. p[r0] \in Seq(Byte)
      BY <1>1, <2>1 DEF Row
    <3>1. p[r0] \in Seq(Byte) /\ c0 + 1 \in 1 .. Len(p[r0])
      <4>1. Len(p[r0]) \in Nat
        BY <3>2, LenProperties
      <4> QED BY <1>12, <2>1, <2>10, <3>2, <4>1
    <3> QED BY <3>1, ElementOfSeq
  <2> HIDE DEF r0, c0
  <2>4. \A r \in Row, c \in 0 .. Columns - 1 :
          Filling(r, c, k + 1) <=> (Filling(r, c, k) \/ (r = r0 /\ c = c0))
    <3>1. \A c \in 0 .. Columns - 1 : Filling(0, c, k + 1) <=> (Filling(0, c, k) \/ (r0 = 0 /\ c = c0))
      BY <1>12, <1>7, <1>10 DEF r0, c0
    <3>2. \A c \in 0 .. Columns - 1 : Filling(1, c, k + 1) <=> (Filling(1, c, k) \/ (r0 = 1 /\ c = c0))
      BY <1>12, <1>7, <1>10 DEF r0, c0
    <3> QED BY <3>1, <3>2 DEF Row
  <2> HIDE DEF v
  <2>5. lcd' = Store(l, v)
    <3>1. b.rs /\ b.byte = v
      BY <2>2
    <3> QED BY <1>13, <3>1, Zenon DEF Execute, Executes
  <2>6. l.ddram /\ l.mode.right /\ l.addr = r0 * 64 + c0 /\ l.addr \in Cell
    BY <1>3, <1>4, <2>1, CellOf
  <2>7. /\ lcd'.cells = [l.cells EXCEPT ![l.addr] = v] /\ lcd'.addr = (l.addr + 1) % 128
        /\ (~l.mode.moving => lcd'.shift = l.shift)
        /\ lcd'.four = l.four /\ lcd'.options = l.options /\ lcd'.mode = l.mode /\ lcd'.ddram = l.ddram
    <3>1. /\ Store(l, v).cells = [l.cells EXCEPT ![l.addr] = v] /\ Store(l, v).addr = (l.addr + 1) % 128
          /\ (~l.mode.moving => Store(l, v).shift = l.shift)
      BY <2>3, <2>6, StoreAt
    <3>2. /\ Store(l, v).four = l.four /\ Store(l, v).options = l.options /\ Store(l, v).mode = l.mode
          /\ Store(l, v).ddram = l.ddram
      BY <2>3, StoreIs
    <3> QED BY <2>5, <3>1, <3>2, Zenon
  <2>8. lcd'.addr = IF k <= 1 + a THEN k - 1 ELSE 64 + (k - 2 - a)
    <3>1. (r0 * 64 + c0 + 1) % 128 = r0 * 64 + c0 + 1
      BY <1>12, <2>1 DEF Row
    <3> QED BY <2>1, <2>6, <2>7, <3>1
  <2>9. ASSUME NEW r \in Row, NEW c \in 0 .. Columns - 1
        PROVE  lcd'.cells[r * 64 + c] = IF Filling(r, c, k + 1) THEN p[r][c + 1] ELSE Space
    <3>1. r * 64 + c \in Cell /\ (r * 64 + c = l.addr => r = r0 /\ c = c0)
      BY <2>1, <2>6, CellOf
    <3>2. l.cells \in [Cell -> Byte]
      BY ControllerFields
    <3>3. CASE r = r0 /\ c = c0
      BY <2>4, <2>6, <2>7, <3>1, <3>2, <3>3 DEF v
    <3>4. CASE ~(r = r0 /\ c = c0)
      <4>1. lcd'.cells[r * 64 + c] = lcd.cells[r * 64 + c]
        BY <1>4, <2>7, <3>1, <3>2, <3>4
      <4> QED BY <1>3, <2>1, <2>4, <3>4, <4>1
    <3> QED BY <3>3, <3>4
  <2> QED BY <1>2, <1>3, <1>4, <2>1, <2>6, <2>7, <2>8, <2>9
<1>11. k = 0 \/ (k = 1 \/ k = 2 + a) \/ (k \in 2 .. 1 + a \/ k > 2 + a)
  BY <1>1
<1> QED BY <1>8, <1>9, <1>10, <1>11

\* What the bytes have done does not change while the next one is begun.
LEMMA DoneSame ==
  ASSUME UNCHANGED <<_displaycontrol, _displaymode, page>>, SameButHalf(lcd, lcd'),
         NEW bytes, NEW k, Done(bytes, k)
  PROVE  Done(bytes, k)'
<1>1. /\ _displaycontrol' = _displaycontrol /\ _displaymode' = _displaymode /\ page' = page
      /\ lcd'.options = lcd.options /\ lcd'.mode = lcd.mode /\ lcd'.shift = lcd.shift
      /\ lcd'.cells = lcd.cells /\ lcd'.addr = lcd.addr /\ lcd'.ddram = lcd.ddram
  BY DEF SameButHalf
<1>2. /\ Copied => Copied'
      /\ ModeCopied => ModeCopied'
      /\ Showing => Showing'
  BY <1>1 DEF Copied, ModeCopied, Showing
<1>3. BeginDone(k) => BeginDone(k)'
  BY <1>1 DEF BeginDone
<1>4. ASSUME NEW p PROVE DrawDone(p, k) => DrawDone(p, k)'
  <2>1. Drawn(p, k) => Drawn(p, k)'
    BY <1>1 DEF Drawn, Shows
  <2> QED BY <1>1, <1>2, <2>1 DEF DrawDone
<1>5. OptionBytes' = OptionBytes /\ ModeBytes' = ModeBytes
  BY <1>1 DEF OptionBytes, ModeBytes
<1> QED BY <1>1, <1>2, <1>3, <1>4, <1>5, Zenon DEF Done

\* Each byte of a call does what the call has it do.
LEMMA ContentStep ==
  ASSUME TypeOK, UNCHANGED <<_displaycontrol, _displaymode, page>>, lcd.four,
         NEW bytes \in Scripts, NEW k \in 0 .. Len(bytes) - 1, Done(bytes, k),
         NEW l \in Controller, l.half = -1, Executes(l, bytes[k + 1])
  PROVE  lcd'.four /\ lcd'.half = -1 /\ Done(bytes, k + 1)'
<1> DEFINE b == bytes[k + 1]
<1>1. b.rs \in BOOLEAN /\ b.byte \in Byte
  <2>1. bytes \in Seq(Item) /\ Len(bytes) \in Nat
    BY ScriptIs
  <2>2. k + 1 \in 1 .. Len(bytes)
    BY <2>1
  <2>3. b \in Item
    BY <2>1, <2>2, ElementOfSeq
  <2> QED BY <2>3 DEF Item
<1>2. lcd' = Execute(l, b.rs, b.byte)
  BY DEF Executes
<1>3. lcd'.half = -1
  <2>1. Execute(l, b.rs, b.byte).half = l.half
    BY <1>1, ExecuteType
  <2> QED BY <1>2, <2>1
<1>4. l.four /\ l.options = lcd.options /\ l.mode = lcd.mode /\ l.shift = lcd.shift /\ l.cells = lcd.cells
  BY DEF Executes, SameButHalf
<1> DEFINE Takes(v) == b.rs = FALSE /\ b.byte = v
<1>5. ASSUME NEW v \in Byte, b = Cmd(v) PROVE lcd' = Command(l, v)
  <2>1. b.rs = FALSE /\ b.byte = v
    BY <1>5, CmdType
  <2> QED BY <1>2, <2>1, Zenon DEF Execute
<1>6. /\ 40 \in Byte /\ 12 \in Byte /\ 1 \in Byte /\ 6 \in Byte /\ 2 \in Byte
      /\ 24 \in Byte /\ 28 \in Byte /\ 72 \in Byte
  BY DEF Byte
<1>7. \A v \in Byte : <<Cmd(v)>>[1] = Cmd(v) /\ Len(<<Cmd(v)>>) = 1
  OBVIOUS
<1>8. CASE bytes = BeginBytes /\ BeginDone(k)
  <2>1. k \in 0 .. 4
    BY <1>8, BeginBytesIs
  <2>2. b = IF k = 0 THEN Cmd(40) ELSE IF k = 1 THEN Cmd(12) ELSE IF k = 2 THEN Cmd(1)
            ELSE IF k = 3 THEN Cmd(6) ELSE Cmd(2)
    BY <1>8, <2>1 DEF BeginBytes
  <2> HIDE DEF b
  <2>3. /\ _displaycontrol = {"display"} /\ _displaymode = Rightward /\ page = NoPage
        /\ k >= 2 => lcd.options = {"display"}
        /\ k >= 4 => lcd.mode = Rightward
    BY <1>8 DEF BeginDone
  <2>4. SUFFICES /\ lcd'.four
                 /\ k + 1 >= 2 => lcd'.options = {"display"}
                 /\ k + 1 >= 4 => lcd'.mode = Rightward
    BY <1>3, <1>8, <2>3, Zenon DEF Done, BeginDone
  <2>5. CASE k = 0
    <3>1. lcd' = FunctionSet(l, 40)
      <4>1. lcd' = Command(l, 40)
        BY <1>5, <1>6, <2>2, <2>5
      <4>2. Command(l, 40) = FunctionSet(l, 40)
        BY CommandCases
      <4> QED BY <4>1, <4>2
    <3>2. ~Bit(40, 16)
      BY DEF Bit
    <3>3. FunctionSet(l, 40).four
      BY <3>2, FunctionSetIs
    <3> QED BY <2>5, <3>1, <3>3
  <2>6. CASE k = 1
    <3>1. lcd' = SetOptions(l, 12)
      <4>1. lcd' = Command(l, 12)
        BY <1>5, <1>6, <2>2, <2>6
      <4>2. Command(l, 12) = SetOptions(l, 12)
        BY CommandCases
      <4> QED BY <4>1, <4>2
    <3>2. OptionsOf(12) = {"display"}
      <4>1. 8 + OptionBits({"display"}) = 12
        BY DEF OptionBits
      <4>2. {"display"} \in SUBSET Option
        BY DEF Option
      <4>3. OptionsOf(8 + OptionBits({"display"})) = {"display"}
        BY <4>2, OptionsSent
      <4> QED BY <4>1, <4>3
    <3>3. SetOptions(l, 12).four = l.four /\ SetOptions(l, 12).options = {"display"}
      <4>1. 12 \in 0 .. 255
        OBVIOUS
      <4> QED BY <3>2, <4>1, SetOptionsIs, Zenon
    <3>4. lcd'.four /\ lcd'.options = {"display"}
      BY <1>4, <3>1, <3>3, Zenon
    <3>5. ~(k + 1 >= 4)
      BY <2>6
    <3> QED BY <3>4, <3>5, Zenon
  <2>7. CASE k = 2
    <3>1. lcd' = Cleared(l)
      <4>1. lcd' = Command(l, 1)
        BY <1>5, <1>6, <2>2, <2>7
      <4>2. Command(l, 1) = Cleared(l)
        BY CommandCases
      <4> QED BY <4>1, <4>2
    <3>2. Cleared(l).four = l.four /\ Cleared(l).options = l.options
      BY ClearedIs
    <3> QED BY <1>4, <2>3, <2>7, <3>1, <3>2
  <2>8. CASE k = 3
    <3>1. lcd' = EntryMode(l, 6)
      <4>1. lcd' = Command(l, 6)
        BY <1>5, <1>6, <2>2, <2>8
      <4>2. Command(l, 6) = EntryMode(l, 6)
        BY CommandCases
      <4> QED BY <4>1, <4>2
    <3>2. [right |-> Bit(6, 2), moving |-> Bit(6, 1)] = Rightward
      <4>1. 4 + ModeBits(Rightward) = 6 /\ Rightward \in [right : BOOLEAN, moving : BOOLEAN]
        BY DEF ModeBits, Rightward
      <4>2. [right |-> Bit(4 + ModeBits(Rightward), 2), moving |-> Bit(4 + ModeBits(Rightward), 1)]
              = Rightward
        BY <4>1, ModeSent
      <4> QED BY <4>1, <4>2, Zenon
    <3>3. EntryMode(l, 6).four = l.four /\ EntryMode(l, 6).options = l.options
          /\ EntryMode(l, 6).mode = Rightward
      <4>1. 6 \in 0 .. 255
        OBVIOUS
      <4> QED BY <3>2, <4>1, EntryModeIs, Zenon
    <3>4. lcd'.four /\ lcd'.options = lcd.options /\ lcd'.mode = Rightward
      BY <1>4, <3>1, <3>3, Zenon
    <3>5. k >= 2
      BY <2>8
    <3> QED BY <2>3, <3>4, <3>5, Zenon
  <2>9. CASE k = 4
    <3>1. lcd' = GoHome(l)
      <4>1. lcd' = Command(l, 2)
        BY <1>5, <1>6, <2>2, <2>9
      <4>2. Command(l, 2) = GoHome(l)
        BY CommandCases
      <4> QED BY <4>1, <4>2
    <3>2. GoHome(l).four = l.four /\ GoHome(l).options = l.options /\ GoHome(l).mode = l.mode
      BY GoHomeIs
    <3> QED BY <1>4, <2>3, <2>9, <3>1, <3>2
  <2> QED BY <2>1, <2>5, <2>6, <2>7, <2>8, <2>9
<1>9. CASE \E p \in Page : bytes = DrawBytes(p) /\ DrawDone(p, k)
  <2>1. PICK p \in Page : bytes = DrawBytes(p) /\ DrawDone(p, k)
    BY <1>9
  <2>2. k \in 0 .. 2 + Len(p[0]) + Len(p[1])
    <3> DEFINE m == Len(p[0])
               n == Len(p[1])
    <3>1. Len(bytes) = 3 + m + n
      BY <2>1, DrawIs
    <3>2. m \in Nat /\ n \in Nat
      BY PageIs, TextIs, DisplayAssumption
    <3> HIDE DEF m, n
    <3>3. k \in 0 .. 2 + m + n
      BY <3>1, <3>2
    <3> QED BY <3>3 DEF m, n
  <2>3. Executes(l, DrawBytes(p)[k + 1])
    BY <2>1
  <2>4. lcd'.four = lcd.four /\ DrawDone(p, k + 1)'
    BY <2>1, <2>2, <2>3, DrawStep
  <2> QED BY <1>3, <2>1, <2>4 DEF Done
<1>10. CASE bytes = OptionBytes /\ ModeCopied /\ Showing
  <2> DEFINE v == 8 + OptionBits(_displaycontrol)
  <2>1. v \in 8 .. 15 /\ OptionsOf(v) = _displaycontrol
    BY OptionsSent DEF TypeOK
  <2>2. k = 0 /\ b = Cmd(v)
    <3>1. v \in Byte
      BY <2>1 DEF Byte
    <3>2. bytes = <<Cmd(v)>>
      BY <1>10 DEF OptionBytes
    <3> HIDE DEF v
    <3>3. k = 0
      BY <1>7, <3>1, <3>2
    <3> QED BY <1>7, <3>1, <3>2, <3>3
  <2> HIDE DEF v, b
  <2>3. lcd' = SetOptions(l, v)
    <3>1. lcd' = Command(l, v)
      <4>1. v \in Byte
        BY <2>1 DEF Byte
      <4> QED BY <1>5, <2>2, <4>1, Zenon
    <3>2. Command(l, v) = SetOptions(l, v)
      BY <2>1, CommandCases
    <3> QED BY <3>1, <3>2
  <2>4. /\ SetOptions(l, v).four = l.four /\ SetOptions(l, v).options = OptionsOf(v)
        /\ SetOptions(l, v).mode = l.mode /\ SetOptions(l, v).shift = l.shift
        /\ SetOptions(l, v).cells = l.cells
    <3>1. v \in 0 .. 255
      BY <2>1
    <3> QED BY <3>1, SetOptionsIs
  <2>5. /\ lcd'.four /\ lcd'.options = _displaycontrol' /\ lcd'.mode = lcd.mode
        /\ lcd'.shift = lcd.shift /\ lcd'.cells = lcd.cells
    BY <1>4, <2>1, <2>3, <2>4
  <2>6. ModeCopied' /\ Showing'
    BY <1>10, <2>5 DEF ModeCopied, Showing
  <2>7. bytes = OptionBytes'
    BY <1>10 DEF OptionBytes
  <2> QED BY <1>3, <2>5, <2>6, <2>7 DEF Done
<1>11. CASE bytes = ModeBytes /\ lcd.options = _displaycontrol /\ page = NoPage
  <2> DEFINE v == 4 + ModeBits(_displaymode)
  <2>1. v \in 4 .. 7 /\ [right |-> Bit(v, 2), moving |-> Bit(v, 1)] = _displaymode
    BY ModeSent DEF TypeOK
  <2>2. k = 0 /\ b = Cmd(v)
    <3>1. v \in Byte
      BY <2>1 DEF Byte
    <3>2. bytes = <<Cmd(v)>>
      BY <1>11 DEF ModeBytes
    <3> HIDE DEF v
    <3>3. k = 0
      BY <1>7, <3>1, <3>2
    <3> QED BY <1>7, <3>1, <3>2, <3>3
  <2> HIDE DEF v, b
  <2>3. lcd' = EntryMode(l, v)
    <3>1. lcd' = Command(l, v)
      <4>1. v \in Byte
        BY <2>1 DEF Byte
      <4> QED BY <1>5, <2>2, <4>1, Zenon
    <3>2. Command(l, v) = EntryMode(l, v)
      BY <2>1, CommandCases
    <3> QED BY <3>1, <3>2
  <2>4. /\ EntryMode(l, v).four = l.four /\ EntryMode(l, v).options = l.options
        /\ EntryMode(l, v).mode = _displaymode
    <3>1. v \in 0 .. 255
      BY <2>1
    <3>2. /\ EntryMode(l, v).four = l.four /\ EntryMode(l, v).options = l.options
          /\ EntryMode(l, v).mode = [right |-> Bit(v, 2), moving |-> Bit(v, 1)]
      BY <3>1, EntryModeIs, Zenon
    <3> QED BY <2>1, <3>2, Zenon
  <2>5. lcd'.four /\ lcd'.options = _displaycontrol' /\ lcd'.mode = _displaymode'
    BY <1>4, <1>11, <2>3, <2>4
  <2>6. ModeCopied' /\ page' = NoPage
    BY <1>11, <2>5 DEF ModeCopied
  <2>7. bytes = ModeBytes'
    BY <1>11 DEF ModeBytes
  <2> QED BY <1>3, <2>5, <2>6, <2>7 DEF Done
<1>12. CASE bytes \in Others /\ Copied /\ page = NoPage
  <2>1. SUFFICES lcd'.four /\ lcd'.options = lcd.options /\ lcd'.mode = lcd.mode
    <3>1. Copied'
      BY <1>12, <2>1 DEF Copied, ModeCopied
    <3> QED BY <1>3, <1>12, <2>1, <3>1, Zenon DEF Done
  <2>2. b \in {Cmd(24), Cmd(28), Cmd(2), Cmd(72), [rs |-> TRUE, byte |-> 0]}
    <3>1. CASE bytes = PatternBytes
      <4>1. k + 1 = 1 \/ k + 1 \in 2 .. 9
        BY <3>1, PatternIs
      <4> QED BY <3>1, <4>1, PatternIs, Zenon
    <3>2. CASE bytes \in {<<Cmd(24)>>, <<Cmd(28)>>, <<Cmd(2)>>}
      <4>1. PICK v \in {24, 28, 2} : bytes = <<Cmd(v)>>
        BY <3>2, Zenon
      <4>2. v \in Byte
        BY <1>6
      <4>3. k = 0 /\ b = Cmd(v)
        BY <1>7, <4>1, <4>2
      <4> QED BY <4>3
    <3> QED BY <1>12, <3>1, <3>2 DEF Others
  <2> HIDE DEF b
  <2>3. CASE b = [rs |-> TRUE, byte |-> 0]
    <3>1. b.rs /\ b.byte = 0
      BY <2>3
    <3>2. lcd' = Store(l, 0)
      BY <1>2, <3>1, Zenon DEF Execute
    <3>3. 0 \in Byte
      BY DEF Byte
    <3>4. Store(l, 0).four = l.four /\ Store(l, 0).options = l.options /\ Store(l, 0).mode = l.mode
      BY <3>3, StoreIs
    <3> QED BY <1>4, <3>2, <3>4
  <2>4. CASE b = Cmd(72)
    <3>1. lcd' = Command(l, 72)
      BY <1>5, <1>6, <2>4
    <3>2. Command(l, 72) = SetPattern(l, 72)
      BY CommandCases
    <3>3. SetPattern(l, 72).four = l.four /\ SetPattern(l, 72).options = l.options
          /\ SetPattern(l, 72).mode = l.mode
      BY SetPatternIs
    <3> QED BY <1>4, <3>1, <3>2, <3>3
  <2>5. ASSUME NEW v \in {24, 28}, b = Cmd(v)
        PROVE  lcd'.four /\ lcd'.options = lcd.options /\ lcd'.mode = lcd.mode
    <3>1. lcd' = Command(l, v)
      BY <1>5, <1>6, <2>5
    <3>2. Command(l, v) = Scroll(l, v)
      BY CommandCases
    <3>3. Scroll(l, v).four = l.four /\ Scroll(l, v).options = l.options
          /\ Scroll(l, v).mode = l.mode
      <4>1. v \in 0 .. 255
        BY <2>5
      <4> QED BY <4>1, ScrollIs, Zenon
    <3> QED BY <1>4, <3>1, <3>2, <3>3
  <2>6. CASE b = Cmd(2)
    <3>1. lcd' = Command(l, 2)
      BY <1>5, <1>6, <2>6
    <3>2. Command(l, 2) = GoHome(l)
      BY CommandCases
    <3>3. GoHome(l).four = l.four /\ GoHome(l).options = l.options /\ GoHome(l).mode = l.mode
      BY GoHomeIs
    <3> QED BY <1>4, <3>1, <3>2, <3>3
  <2> QED BY <2>2, <2>3, <2>4, <2>5, <2>6
<1> QED BY <1>8, <1>9, <1>10, <1>11, <1>12 DEF Done

\* When all bytes were sent, the controller is what the driver takes it for
\* and shows the page that was drawn.
LEMMA DoneEnds ==
  ASSUME TypeOK', NEW bytes \in Scripts, Done(bytes, Len(bytes))'
  PROVE  Copied' /\ Showing'
<1>1. CASE bytes = BeginBytes /\ BeginDone(Len(bytes))'
  BY <1>1, BeginBytesIs DEF BeginDone, Copied, ModeCopied, Showing
<1>2. CASE \E p \in Page : bytes = DrawBytes(p) /\ DrawDone(p, Len(bytes))'
  <2>1. PICK p \in Page : bytes = DrawBytes(p) /\ DrawDone(p, Len(bytes))'
    BY <1>2
  <2> DEFINE a == Len(p[0])
             n == Len(p[1])
             k == Len(bytes)
  <2>2. a \in Nat /\ n \in Nat
    BY PageIs, TextIs, DisplayAssumption
  <2>3. k = 3 + a + n
    BY <2>1, DrawIs
  <2>4. page' = p /\ Copied' /\ (k > 0 => Drawn(p, k)')
    BY <2>1 DEF DrawDone
  <2>5. k > 0
    <3> HIDE DEF a, n, k
    <3> QED BY <2>2, <2>3
  <2>6. Shows(lcd', _displaymode'.moving, p, k)
    BY <2>4, <2>5, Zenon DEF Drawn
  <2>7. /\ (~_displaymode'.moving => lcd'.shift = 0)
        /\ \A r \in Row, c \in 0 .. Columns - 1 :
             lcd'.cells[r * 64 + c] = IF c < Len(p[r]) /\ c < Filled(p, r, k) THEN p[r][c + 1] ELSE Space
    BY <2>6, Zenon DEF Shows
  <2>8. ASSUME NEW r \in Row, NEW c \in 0 .. Columns - 1
        PROVE  c < Len(p[r]) => c < Filled(p, r, k)
    <3>1. Filled(p, r, k) = IF r = 0 THEN k - 2 ELSE k - 3 - a
      BY DEF Filled
    <3>2. Columns \in 1 .. 16
      BY DisplayAssumption
    <3>3. CASE r = 0
      <4>1. Len(p[r]) = a
        BY <3>3
      <4> HIDE DEF a, n, k
      <4> QED BY <2>2, <2>3, <3>1, <3>2, <3>3, <4>1
    <3>4. CASE r = 1
      <4>1. Len(p[r]) = n
        BY <3>4
      <4> HIDE DEF a, n, k
      <4> QED BY <2>2, <2>3, <3>1, <3>2, <3>4, <4>1
    <3> QED BY <3>3, <3>4 DEF Row
  <2>9. \A r \in Row, c \in 0 .. Columns - 1 :
          lcd'.cells[r * 64 + c] = IF c < Len(p[r]) THEN p[r][c + 1] ELSE Space
    <3> HIDE DEF k
    <3> QED BY <2>7, <2>8, Zenon
  <2> QED BY <2>4, <2>7, <2>9, Zenon DEF Showing
<1>3. CASE bytes = OptionBytes' /\ ModeCopied' /\ Showing' /\ (Len(bytes) = 1 => lcd'.options = _displaycontrol')
  BY <1>3 DEF OptionBytes, Copied
<1>4. CASE bytes = ModeBytes' /\ lcd'.options = _displaycontrol' /\ page' = NoPage /\ (Len(bytes) = 1 => ModeCopied')
  BY <1>4 DEF ModeBytes, Copied, Showing
<1>5. CASE bytes \in Others /\ Copied' /\ page' = NoPage
  BY <1>5 DEF Showing
<1> QED BY <1>1, <1>2, <1>3, <1>4, <1>5, Zenon DEF Done

-----------------------------------------------------------------------------
(* Waking up.                                                              *)

\* A command between 32 and 63 sets the width of the bus.
LEMMA WidthSet ==
  ASSUME NEW l \in Controller, NEW v \in 32 .. 63
  PROVE  (Execute(l, FALSE, v).four <=> ~Bit(v, 16)) /\ Execute(l, FALSE, v).half = l.half
<1>1. v \in 0 .. 255
  OBVIOUS
<1>2. Command(l, v) = FunctionSet(l, v)
  BY CommandCases
<1>3. Execute(l, FALSE, v) = Command(l, v)
  BY Zenon DEF Execute
<1>4. (FunctionSet(l, v).four <=> ~Bit(v, 16)) /\ FunctionSet(l, v).half = l.half
  BY <1>1, FunctionSetIs, Zenon
<1> QED BY <1>2, <1>3, <1>4, Zenon

\* A pulse with the nibble 3 is a command for 8-bit mode, half of one, or the
\* end of another byte.
LEMMA PulseThree ==
  ASSUME NEW l \in Controller, NEW t \in Transfer, ~t.rs, t.nibble = 3
  PROVE  /\ ~l.four => ~Latch(l, t).four
         /\ l.four /\ l.half = -1 => Latch(l, t).half = 3
         /\ l.four /\ l.half # -1 => Latch(l, t).half = -1
         /\ l.four /\ l.half = 3 => ~Latch(l, t).four
<1>1. t.rs = FALSE
  BY DEF Transfer
<1>2. /\ ~l.four => Latch(l, t) = Execute(l, FALSE, 3 * 16)
      /\ l.four /\ l.half = -1 => Latch(l, t) = [l EXCEPT !.half = 3]
      /\ l.four /\ l.half # -1 => Latch(l, t) = Execute([l EXCEPT !.half = -1], FALSE, l.half * 16 + 3)
  BY <1>1, LatchIs
<1>3. ASSUME ~l.four PROVE ~Latch(l, t).four
  <2>1. Latch(l, t) = Execute(l, FALSE, 48)
    <3>1. 3 * 16 = 48
      OBVIOUS
    <3> QED BY <1>2, <1>3, <3>1, Zenon
  <2>2. 48 \in 32 .. 63 /\ Bit(48, 16)
    BY DEF Bit
  <2>3. ~Execute(l, FALSE, 48).four
    BY <2>2, WidthSet, Zenon
  <2> QED BY <2>1, <2>3, Zenon
<1>4. ASSUME l.four, l.half = -1 PROVE Latch(l, t).half = 3
  BY <1>2, <1>4 DEF Controller
<1>5. ASSUME l.four, l.half # -1
      PROVE  Latch(l, t).half = -1 /\ (l.half = 3 => ~Latch(l, t).four)
  <2> DEFINE k == [l EXCEPT !.half = -1]
             v == l.half * 16 + 3
  <2>1. l.half \in Nibble
    BY <1>5, ControllerFields
  <2>2. k \in Controller /\ k.half = -1
    BY DEF Controller
  <2>3. v \in Byte
    BY <2>1 DEF Nibble, Byte
  <2>4. Latch(l, t) = Execute(k, FALSE, v)
    BY <1>2, <1>5
  <2> HIDE DEF k
  <2>5. Latch(l, t).half = -1
    <3> HIDE DEF v
    <3>1. FALSE \in BOOLEAN
      OBVIOUS
    <3>2. Execute(k, FALSE, v).half = k.half
      BY <2>2, <2>3, <3>1, ExecuteType, Zenon
    <3> QED BY <2>2, <2>4, <3>2, Zenon
  <2>6. ASSUME l.half = 3 PROVE ~Latch(l, t).four
    <3>1. v = 51
      BY <2>6
    <3>2. 51 \in 32 .. 63 /\ Bit(51, 16)
      BY DEF Bit
    <3>3. ~Execute(k, FALSE, 51).four
      BY <2>2, <3>2, WidthSet, Zenon
    <3> QED BY <2>4, <3>1, <3>3, Zenon
  <2> QED BY <2>5, <2>6
<1> QED BY <1>3, <1>4, <1>5

\* The lines in the first part of begin().
LEMMA WakeFields ==
  ASSUME NEW m \in 1 .. 13
  PROVE  /\ Wake(m).en <=> m \in {3, 6, 9, 12}
         /\ ~Wake(m).rs /\ Wake(m).nibble = WakeNibble(m) /\ Wake(m) \in Transfer
<1>1. WakeNibble(m) \in Nibble
  BY DEF WakeNibble, Nibble
<1>2. FALSE \in BOOLEAN
  OBVIOUS
<1>3. CASE m \in {3, 6, 9, 12}
  <2>1. Wake(m) = Up(FALSE, WakeNibble(m))
    BY <1>3, Zenon DEF Wake
  <2>2. Up(FALSE, WakeNibble(m)).en /\ Up(FALSE, WakeNibble(m)).rs = FALSE
        /\ Up(FALSE, WakeNibble(m)).nibble = WakeNibble(m) /\ Up(FALSE, WakeNibble(m)) \in Transfer
    BY <1>1, <1>2, LineFields, LineType, Zenon
  <2> QED BY <1>3, <2>1, <2>2, Zenon
<1>4. CASE m \notin {3, 6, 9, 12}
  <2>1. Wake(m) = Down(FALSE, WakeNibble(m))
    BY <1>4, Zenon DEF Wake
  <2>2. ~Down(FALSE, WakeNibble(m)).en /\ Down(FALSE, WakeNibble(m)).rs = FALSE
        /\ Down(FALSE, WakeNibble(m)).nibble = WakeNibble(m) /\ Down(FALSE, WakeNibble(m)) \in Transfer
    BY <1>1, <1>2, LineFields, LineType, Zenon
  <2> QED BY <1>4, <2>1, <2>2, Zenon
<1> QED BY <1>3, <1>4

\* One transfer of the first part of begin(): three pulses find the
\* controller in 8-bit mode, wherever it was, and the fourth leaves it.
LEMMA WakeStep ==
  ASSUME TypeOK, LcdType, Write, Waking
  PROVE  Waking' \/ (Sending(BeginBytes, 0, 0)' /\ BeginDone(0)')
<1>1. PICK m \in 1 .. 13 : todo = Suffix(begin, m) /\ WakeState(m)
  BY DEF Waking
<1>2. /\ _displaycontrol' = {"display"} /\ _displaymode' = Rightward /\ page' = NoPage
  BY DEF Waking, Write
<1>3. TailIs(begin, m) /\ begin[m] = Wake(m)
  <2>1. m \in 1 .. Len(begin)
    BY BeginIs
  <2> QED BY <2>1, BeginIs, SuffixIs
<1>4. todo' = Suffix(begin, m + 1) /\ lines' = Wake(m)
  BY <1>1, <1>3 DEF TailIs, Write
<1>5. /\ lines'.en <=> m \in {3, 6, 9, 12}
      /\ ~lines'.rs /\ lines'.nibble = WakeNibble(m) /\ lines' \in Transfer
  BY <1>4, WakeFields
<1>6. m > 1 =>
        /\ lines.en <=> m - 1 \in {3, 6, 9, 12}
        /\ ~lines.rs /\ lines.nibble = WakeNibble(m - 1) /\ lines \in Transfer
  <2> SUFFICES ASSUME m > 1
               PROVE  /\ lines.en <=> m - 1 \in {3, 6, 9, 12}
                      /\ ~lines.rs /\ lines.nibble = WakeNibble(m - 1) /\ lines \in Transfer
    OBVIOUS
  <2>1. m - 1 \in 1 .. 13
    OBVIOUS
  <2>2. lines = Wake(m - 1)
    BY <1>1 DEF WakeState
  <2> QED BY <2>1, <2>2, WakeFields
<1>7. lcd \in Controller /\ (lcd.half >= 0 => lcd.four)
  BY DEF TypeOK, LcdType, Controller
<1>8. /\ m \in 5 .. 7 /\ lcd.four => lcd.half \in {-1, 3}
      /\ m \in 8 .. 10 /\ lcd.four => lcd.half = 3
      /\ m > 10 => ~lcd.four
  BY <1>1 DEF WakeState
<1>9. ASSUME m < 13,
             /\ m + 1 \in 5 .. 7 /\ lcd'.four => lcd'.half \in {-1, 3}
             /\ m + 1 \in 8 .. 10 /\ lcd'.four => lcd'.half = 3
             /\ m + 1 > 10 => ~lcd'.four
      PROVE  Waking'
  <2>1. m + 1 \in 1 .. 13 /\ (m + 1) - 1 = m
    BY <1>9
  <2>2. WakeState(m + 1)'
    BY <1>4, <1>9, <2>1 DEF WakeState
  <2>3. (todo = Suffix(begin, m + 1) /\ WakeState(m + 1))'
    BY <1>4, <2>2
  <2> QED BY <1>2, <2>1, <2>3, Zenon DEF Waking
<1>10. CASE m = 1
  BY <1>9, <1>10
<1>11. CASE m \in {2, 3, 5, 6, 8, 9, 11, 12}
  <2>1. m > 1 /\ m - 1 \notin {3, 6, 9, 12}
    BY <1>11
  <2>2. ~lines.en
    BY <1>6, <2>1
  <2>3. lcd' = lcd
    BY <2>2 DEF Write
  <2> QED BY <1>8, <1>9, <1>11, <2>3
<1>12. CASE m \in {4, 7, 10, 13}
  <2>1. m > 1 /\ m - 1 \in {3, 6, 9, 12} /\ m \notin {3, 6, 9, 12}
        /\ WakeNibble(m) = WakeNibble(m - 1) /\ WakeNibble(m) = IF m = 13 THEN 2 ELSE 3
    BY <1>12 DEF WakeNibble
  <2>2. lines.en /\ ~lines'.en
    BY <1>5, <1>6, <2>1
  <2>3. PICK t \in {lines, lines'} : lcd' = Latch(lcd, t)
    BY <2>2 DEF Write
  <2>4. t \in Transfer /\ ~t.rs /\ t.nibble = IF m = 13 THEN 2 ELSE 3
    BY <1>5, <1>6, <2>1, <2>3
  <2>5. CASE m # 13
    <3>1. t.nibble = 3
      BY <2>4, <2>5
    <3>2. /\ ~lcd.four => ~lcd'.four
          /\ lcd.four /\ lcd.half = -1 => lcd'.half = 3
          /\ lcd.four /\ lcd.half # -1 => lcd'.half = -1
          /\ lcd.four /\ lcd.half = 3 => ~lcd'.four
      BY <1>7, <2>3, <2>4, <3>1, PulseThree
    <3>3. lcd.half # -1 => lcd.four
      BY <1>7, ControllerFields DEF Nibble
    <3>4. lcd'.half \in {-1, 3} \/ ~lcd'.four
      BY <3>2, <3>3
    <3> QED BY <1>8, <1>9, <1>12, <2>5, <3>2, <3>4
  <2>6. CASE m = 13
    <3>1. ~lcd.four /\ lcd.half = -1
      <4>1. ~lcd.four
        BY <1>8, <2>6
      <4> QED BY <1>7, <4>1, ControllerFields DEF Nibble
    <3>2. t.rs = FALSE /\ t.nibble * 16 = 32
      BY <2>4, <2>6 DEF Transfer
    <3>3. lcd' = Execute(lcd, FALSE, 32)
      <4>1. lcd' = Execute(lcd, t.rs, t.nibble * 16)
        BY <1>7, <2>3, <2>4, <3>1, LatchIs
      <4> QED BY <3>2, <4>1, Zenon
    <3>4. lcd'.four /\ lcd'.half = -1
      <4>1. 32 \in 32 .. 63 /\ ~Bit(32, 16)
        BY DEF Bit
      <4>2. Execute(lcd, FALSE, 32).four /\ Execute(lcd, FALSE, 32).half = lcd.half
        BY <1>7, <4>1, WidthSet, Zenon
      <4> QED BY <3>1, <3>3, <4>2, Zenon
    <3>5. todo' = Suffix(Parts(BeginBytes), 6 * 0 + 0 + 1)
      <4>1. Parts(BeginBytes) \in Seq(Transfer)
        BY BeginBytesIs, PartsIs
      <4>2. Suffix(Parts(BeginBytes), 1) = Parts(BeginBytes)
        BY <4>1, SuffixIs
      <4>3. todo' = Suffix(begin, 14)
        BY <1>4, <2>6
      <4> QED BY <4>2, <4>3, BeginIs
    <3>6. Sending(BeginBytes, 0, 0)'
      BY <2>2, <3>4, <3>5 DEF Sending
    <3>7. BeginDone(0)'
      BY <1>2 DEF BeginDone
    <3> QED BY <3>6, <3>7
  <2> QED BY <2>5, <2>6
<1> QED BY <1>10, <1>11, <1>12

-----------------------------------------------------------------------------
(* The invariant.                                                          *)

\* What may be sent depends on the options and the mode only.
LEMMA ScriptsSame ==
  ASSUME UNCHANGED <<_displaycontrol, _displaymode>>
  PROVE  Scripts' = Scripts
BY DEF Scripts, OptionBytes, ModeBytes

\* A transfer of a call leaves the call going on, or ends it.
LEMMA SendStep ==
  ASSUME TypeOK, LcdType, Write, TypeOK', NEW bytes \in Scripts, NEW k \in 0 .. Len(bytes) - 1,
         NEW j \in 0 .. 5, Sending(bytes, k, j), Done(bytes, k)
  PROVE  \/ Resting'
         \/ \E i \in 0 .. Len(bytes) - 1, n \in 0 .. 5 : Sending(bytes, i, n)' /\ Done(bytes, i)'
<1> DEFINE b == bytes[k + 1]
<1>1. UNCHANGED <<_backlightval, _displaycontrol, _displaymode, page>>
  BY DEF Write
<1>2. /\ lit' = _backlightval
      /\ j < 5 => Sending(bytes, k, j + 1)' /\ SameButHalf(lcd, lcd')
      /\ j = 5 =>
           /\ todo' = Suffix(Parts(bytes), 6 * (k + 1) + 1)
           /\ ~lines'.en
           /\ lcd' = Execute([lcd EXCEPT !.half = -1], b.rs, b.byte)
  BY ByteStep
<1>3. bytes \in Seq(Item) /\ Len(bytes) \in Nat
  BY ScriptIs
<1>4. CASE j < 5
  <2>1. Sending(bytes, k, j + 1)' /\ SameButHalf(lcd, lcd')
    BY <1>2, <1>4
  <2>2. Done(bytes, k)'
    BY <1>1, <2>1, DoneSame
  <2>3. j + 1 \in 0 .. 5
    BY <1>4
  <2> QED BY <2>1, <2>2, <2>3, Zenon
<1>5. CASE j = 5
  <2> DEFINE l == [lcd EXCEPT !.half = -1]
  <2>1. l \in Controller /\ l.half = -1 /\ SameButHalf(lcd, l)
    BY ZenonT(60) DEF TypeOK, Controller, SameButHalf
  <2>2. Executes(l, b)
    BY <1>2, <1>5, <2>1, Zenon DEF Executes
  <2>3. lcd.four
    BY DEF Sending
  <2> HIDE DEF l
  <2>4. lcd'.four /\ lcd'.half = -1 /\ Done(bytes, k + 1)'
    BY <1>1, <2>1, <2>2, <2>3, ContentStep
  <2>5. todo' = Suffix(Parts(bytes), 6 * (k + 1) + 1) /\ ~lines'.en
    BY <1>2, <1>5
  <2>6. CASE k + 1 = Len(bytes)
    <3>1. todo' = <<>>
      <4>1. Parts(bytes) \in Seq(Transfer) /\ Len(Parts(bytes)) = 6 * Len(bytes)
        BY <1>3, PartsIs
      <4>2. Suffix(Parts(bytes), Len(Parts(bytes)) + 1) = <<>>
        BY <4>1, SuffixIs
      <4> QED BY <2>5, <2>6, <4>1, <4>2
    <3>2. Done(bytes, Len(bytes))'
      BY <2>4, <2>6
    <3>3. Copied' /\ Showing'
      BY <3>2, DoneEnds
    <3> QED BY <1>1, <1>2, <2>4, <2>5, <3>1, <3>3 DEF Resting
  <2>7. CASE k + 1 # Len(bytes)
    <3>1. k + 1 \in 0 .. Len(bytes) - 1
      BY <1>3, <2>7
    <3>2. 6 * (k + 1) + 0 + 1 = 6 * (k + 1) + 1
      OBVIOUS
    <3>3. Sending(bytes, k + 1, 0)'
      BY <2>4, <2>5, <3>2 DEF Sending
    <3>4. 0 \in 0 .. 5
      OBVIOUS
    <3> QED BY <2>4, <3>1, <3>3, <3>4, Zenon
  <2> QED BY <2>6, <2>7
<1> QED BY <1>4, <1>5

\* A call begins when none is going on, with a controller that agrees.
LEMMA Rests ==
  ASSUME TypeOK, LinkInv, Idle, intact
  PROVE  Resting
<1>1. started /\ todo = <<>>
  BY DEF Idle
<1>2. ~Waking
  <2> SUFFICES ASSUME Waking PROVE FALSE
    OBVIOUS
  <2>1. PICK m \in 1 .. 13 : todo = Suffix(begin, m)
    BY DEF Waking
  <2>2. m \in 1 .. Len(begin)
    BY BeginIs
  <2>3. TailIs(begin, m)
    BY <2>2, BeginIs, SuffixIs
  <2> QED BY <1>1, <2>1, <2>3 DEF TailIs
<1>3. ASSUME NEW bytes \in Scripts, NEW k \in 0 .. Len(bytes) - 1, NEW j \in 0 .. 5
      PROVE  ~Sending(bytes, k, j)
  <2> DEFINE m == 6 * k + j + 1
             F == Parts(bytes)
  <2>1. bytes \in Seq(Item) /\ Len(bytes) \in Nat
    BY ScriptIs
  <2>2. F \in Seq(Transfer) /\ Len(F) = 6 * Len(bytes)
    BY <2>1, PartsIs
  <2>3. m \in 1 .. Len(F)
    <3> HIDE DEF F
    <3> QED BY <2>1, <2>2
  <2>4. TailIs(F, m)
    BY <2>2, <2>3, SuffixIs
  <2> QED BY <1>1, <2>4 DEF TailIs, Sending
<1> QED BY <1>1, <1>2, <1>3 DEF LinkInv

\* A call begins by having sent nothing.
LEMMA CallStep ==
  ASSUME TypeOK, LinkInv, NEW bytes \in Seq(Item), Len(bytes) > 0, Call(Parts(bytes)), bytes \in Scripts',
         intact, Resting => Done(bytes, 0)'
  PROVE  LinkInv'
<1>1. Resting
  BY Rests DEF Call
<1>2. todo' = Parts(bytes) /\ lcd' = lcd /\ lines' = lines
  BY DEF Call, expander
<1>3. Parts(bytes) = Suffix(Parts(bytes), 6 * 0 + 0 + 1)
  <2>1. Parts(bytes) \in Seq(Transfer)
    BY PartsIs
  <2>2. Suffix(Parts(bytes), 1) = Parts(bytes)
    BY <2>1, SuffixIs
  <2>3. 6 * 0 + 0 + 1 = 1
    OBVIOUS
  <2> QED BY <2>2, <2>3, Zenon
<1>4. lcd.four /\ lcd.half = -1 /\ ~lines.en
  BY <1>1 DEF Resting
<1>5. Sending(bytes, 0, 0)'
  BY <1>2, <1>3, <1>4 DEF Sending
<1>6. 0 \in 0 .. Len(bytes) - 1 /\ 0 \in 0 .. 5
  <2>1. Len(bytes) \in Nat
    BY LenProperties
  <2> QED BY <2>1
<1> QED BY <1>1, <1>5, <1>6, Zenon DEF LinkInv

\* A transfer keeps the invariant.
LEMMA WriteKeeps ==
  ASSUME TypeOK, LcdType, LinkInv, Write
  PROVE  LinkInv'
<1> SUFFICES ASSUME started, intact PROVE LinkInv'
  BY WriteFacts DEF LinkInv
<1>1. /\ UNCHANGED <<_backlightval, _displaycontrol, _displaymode, page>>
      /\ todo' = Tail(todo) /\ lines' = Head(todo) /\ lit' = _backlightval /\ todo # <<>>
  BY DEF Write
<1>2. Scripts' = Scripts
  BY <1>1, ScriptsSame
<1>3. TypeOK'
  BY WriteType
<1>4. CASE Waking
  <2>1. Waking' \/ (Sending(BeginBytes, 0, 0)' /\ BeginDone(0)')
    BY <1>4, WakeStep
  <2>2. CASE Waking'
    BY <2>2, Zenon DEF LinkInv
  <2>3. CASE Sending(BeginBytes, 0, 0)' /\ BeginDone(0)'
    <3>1. BeginBytes \in Scripts'
      BY <1>2, Zenon DEF Scripts
    <3>2. Done(BeginBytes, 0)'
      BY <2>3, Zenon DEF Done
    <3>3. 0 \in 0 .. Len(BeginBytes) - 1 /\ 0 \in 0 .. 5
      BY BeginBytesIs
    <3> QED BY <2>3, <3>1, <3>2, <3>3, Zenon DEF LinkInv
  <2> QED BY <2>1, <2>2, <2>3
<1>5. CASE Resting
  <2>1. todo = <<Quiet>> /\ ~lines.en
    BY <1>1, <1>5 DEF Resting
  <2>2. lcd' = lcd
    BY <2>1 DEF Write
  <2>3. todo' = <<>> /\ lines' = Quiet
    BY <1>1, <2>1
  <2>4. ~Quiet.en
    BY Zenon DEF Quiet, Bits
  <2>5. Copied' /\ Showing'
    BY <1>1, <1>5, <2>2 DEF Resting, Copied, ModeCopied, Showing
  <2>6. Resting'
    BY <1>1, <1>5, <2>2, <2>3, <2>4, <2>5 DEF Resting
  <2> QED BY <2>6, Zenon DEF LinkInv
<1>6. CASE \E bytes \in Scripts : \E k \in 0 .. Len(bytes) - 1, j \in 0 .. 5 :
             Sending(bytes, k, j) /\ Done(bytes, k)
  <2>4. PICK bytes \in Scripts :
          \E k \in 0 .. Len(bytes) - 1, j \in 0 .. 5 : Sending(bytes, k, j) /\ Done(bytes, k)
    BY <1>6
  <2>1. PICK k \in 0 .. Len(bytes) - 1, j \in 0 .. 5 : Sending(bytes, k, j) /\ Done(bytes, k)
    BY <2>4
  <2>2. \/ Resting'
        \/ \E i \in 0 .. Len(bytes) - 1, n \in 0 .. 5 : Sending(bytes, i, n)' /\ Done(bytes, i)'
    BY <1>3, <2>1, SendStep
  <2>3. bytes \in Scripts'
    BY <1>2
  <2> QED BY <2>2, <2>3, Zenon DEF LinkInv
<1> QED BY <1>4, <1>5, <1>6 DEF LinkInv

\* begin() starts by waking the controller up, in whatever state it is.
LEMMA StartKeeps ==
  ASSUME Fresh, Start
  PROVE  LinkInv'
<1>1. /\ todo' = begin /\ _displaycontrol' = {"display"} /\ _displaymode' = Rightward
      /\ page' = NoPage
  BY DEF Start, Fresh
<1>2. begin = Suffix(begin, 1)
  BY BeginIs, SuffixIs
<1>3. WakeState(1)'
  BY DEF WakeState
<1>4. (todo = Suffix(begin, 1) /\ WakeState(1))'
  BY <1>1, <1>2, <1>3
<1>5. 1 \in 1 .. 13
  OBVIOUS
<1>6. Waking'
  BY <1>1, <1>4, <1>5, Zenon DEF Waking
<1> QED BY <1>6, Zenon DEF LinkInv

\* So does the start of a page,
LEMMA DrawKeeps ==
  ASSUME TypeOK, LinkInv, intact, NEW p \in Page, Draw(p)
  PROVE  LinkInv'
<1> DEFINE bytes == DrawBytes(p)
<1>1. bytes \in Seq(Item) /\ draw(p) = Parts(bytes)
  BY DrawIs, Zenon
<1>2. bytes \in Scripts
  BY DEF Scripts
<1>3. Len(bytes) > 0
  BY <1>2, ScriptIs
<1>4. UNCHANGED <<_displaycontrol, _displaymode>> /\ page' = p /\ lcd' = lcd
  BY DEF Draw, Call
<1>5. bytes \in Scripts'
  BY <1>2, <1>4, ScriptsSame
<1>6. Resting => Done(bytes, 0)'
  <2> SUFFICES ASSUME Resting PROVE Done(bytes, 0)'
    OBVIOUS
  <2>1. Copied'
    BY <1>4 DEF Resting, Copied, ModeCopied
  <2>2. ~(0 > 0)
    OBVIOUS
  <2>3. DrawDone(p, 0)'
    BY <1>4, <2>1, <2>2, Zenon DEF DrawDone
  <2> QED BY <2>3, Zenon DEF Done
<1>7. Call(Parts(bytes))
  BY <1>1 DEF Draw
<1> HIDE DEF bytes
<1> QED BY <1>1, <1>3, <1>5, <1>6, <1>7, CallStep

\* of a change of the backlight,
LEMMA LightKeeps ==
  ASSUME TypeOK, LinkInv, intact, NEW b \in BOOLEAN, Light(b)
  PROVE  LinkInv'
<1>1. Resting
  BY Rests DEF Light, Call
<1>2. /\ todo' = <<Quiet>> /\ lcd' = lcd /\ lines' = lines
      /\ UNCHANGED <<_displaycontrol, _displaymode, page>>
  BY DEF Light, Call, expander
<1>3. todo' # <<>>
  BY <1>2
<1>4. Copied' /\ Showing'
  BY <1>1, <1>2 DEF Resting, Copied, ModeCopied, Showing
<1>5. Resting'
  BY <1>1, <1>2, <1>3, <1>4 DEF Resting
<1> QED BY <1>5, Zenon DEF LinkInv

\* of an option,
LEMMA OptionKeeps ==
  ASSUME TypeOK, LinkInv, intact, NEW o \in Option, NEW on \in BOOLEAN, SetOption(o, on)
  PROVE  LinkInv'
<1>1. PICK v \in Byte : v = 8 + OptionBits(_displaycontrol')
  BY OptionBitsType DEF Byte
<1> DEFINE bytes == <<Cmd(v)>>
<1>2. Call(command(v)) /\ UNCHANGED <<_displaymode, page>> /\ lcd' = lcd
  BY <1>1 DEF SetOption, Call
<1>3. bytes = OptionBytes'
  BY <1>1 DEF OptionBytes
<1>4. bytes \in Scripts'
  BY <1>3, Zenon DEF Scripts
<1>5. Call(Parts(bytes)) /\ bytes \in Seq(Item) /\ Len(bytes) > 0
  BY <1>1, <1>2, CommandIs
<1>6. Resting => Done(bytes, 0)'
  <2> SUFFICES ASSUME Resting PROVE Done(bytes, 0)'
    OBVIOUS
  <2>1. ModeCopied' /\ Showing'
    BY <1>2 DEF Resting, Copied, ModeCopied, Showing
  <2>2. 0 # 1
    OBVIOUS
  <2> QED BY <1>3, <2>1, <2>2, Zenon DEF Done
<1> HIDE DEF bytes
<1> QED BY <1>4, <1>5, <1>6, CallStep

\* of the mode,
LEMMA ModeKeeps ==
  ASSUME TypeOK, LinkInv, intact, NEW mode \in [right : BOOLEAN, moving : BOOLEAN], SetMode(mode)
  PROVE  LinkInv'
<1>1. PICK v \in Byte : v = 4 + ModeBits(_displaymode')
  BY ModeBitsType DEF Byte
<1> DEFINE bytes == <<Cmd(v)>>
<1>2. Call(command(v)) /\ UNCHANGED <<_displaycontrol>> /\ page' = NoPage /\ lcd' = lcd
  BY <1>1 DEF SetMode, Call
<1>3. bytes = ModeBytes'
  BY <1>1 DEF ModeBytes
<1>4. bytes \in Scripts'
  BY <1>3, Zenon DEF Scripts
<1>5. Call(Parts(bytes)) /\ bytes \in Seq(Item) /\ Len(bytes) > 0
  BY <1>1, <1>2, CommandIs
<1>6. Resting => Done(bytes, 0)'
  <2> SUFFICES ASSUME Resting PROVE Done(bytes, 0)'
    OBVIOUS
  <2>1. lcd'.options = _displaycontrol'
    BY <1>2 DEF Resting, Copied
  <2>2. 0 # 1
    OBVIOUS
  <2> QED BY <1>2, <1>3, <2>1, <2>2, Zenon DEF Done
<1> HIDE DEF bytes
<1> QED BY <1>4, <1>5, <1>6, CallStep

\* and of any other call.
LEMMA OtherKeeps ==
  ASSUME TypeOK, LinkInv, intact,
         Send(command(24)) \/ Send(command(28)) \/ Send(createChar(1)) \/ Send(home)
  PROVE  LinkInv'
<1>1. 24 \in Byte /\ 28 \in Byte /\ 2 \in Byte
  BY DEF Byte
<1>2. PICK bytes \in Others : Send(Parts(bytes))
  <2>1. /\ command(24) = Parts(<<Cmd(24)>>) /\ command(28) = Parts(<<Cmd(28)>>)
        /\ command(2) = Parts(<<Cmd(2)>>) /\ createChar(1) = Parts(PatternBytes)
    BY <1>1, CommandIs, PatternIs, Zenon
  <2> QED BY <2>1, Zenon DEF Others, home
<1>3. bytes \in Scripts
  BY <1>2 DEF Scripts
<1>4. bytes \in Seq(Item) /\ Len(bytes) > 0
  BY <1>3, ScriptIs
<1>5. /\ Call(Parts(bytes)) /\ UNCHANGED <<_displaycontrol, _displaymode>> /\ page' = NoPage
      /\ lcd' = lcd
  BY <1>2 DEF Send, Call
<1>6. bytes \in Scripts'
  BY <1>3, <1>5, ScriptsSame
<1>7. Resting => Done(bytes, 0)'
  <2> SUFFICES ASSUME Resting PROVE Done(bytes, 0)'
    OBVIOUS
  <2>1. Copied'
    BY <1>5 DEF Resting, Copied, ModeCopied
  <2> QED BY <1>2, <1>5, <2>1, Zenon DEF Done
<1> QED BY <1>4, <1>5, <1>6, <1>7, CallStep

\* And nothing done changes nothing.
LEMMA IdleKeeps ==
  ASSUME LinkInv, UNCHANGED vars
  PROVE  LinkInv'
<1>1. /\ todo' = todo /\ started' = started /\ _backlightval' = _backlightval
      /\ _displaycontrol' = _displaycontrol /\ _displaymode' = _displaymode /\ page' = page
      /\ lines' = lines /\ lit' = lit /\ lcd' = lcd /\ intact' = intact
  BY DEF vars, driver, expander, history
<1>2. Scripts' = Scripts
  BY <1>1, ScriptsSame
<1>3. SameButHalf(lcd, lcd')
  BY <1>1 DEF SameButHalf
<1>4. Waking => Waking'
  BY <1>1 DEF Waking, WakeState
<1>5. Resting => Resting'
  BY <1>1 DEF Resting, Copied, ModeCopied, Showing
<1>6. ASSUME NEW bytes, NEW k, NEW j, Sending(bytes, k, j), Done(bytes, k)
      PROVE  Sending(bytes, k, j)' /\ Done(bytes, k)'
  <2>1. Done(bytes, k)'
    BY <1>1, <1>3, <1>6, DoneSame
  <2>2. Sending(bytes, k, j)'
    BY <1>1, <1>6 DEF Sending
  <2> QED BY <2>1, <2>2
<1> QED BY <1>1, <1>2, <1>4, <1>5, <1>6, Zenon DEF LinkInv

\* The invariant holds at first.
LEMMA InitLink == Init => IInv
<1> SUFFICES ASSUME Init PROVE LinkInv /\ Fresh
  BY InitType DEF IInv
<1>1. intact = FALSE /\ page = NoPage
  BY Zenon DEF Init
<1> QED BY <1>1, Zenon DEF LinkInv, Fresh

\* No page is drawn before begin().
LEMMA FreshStep ==
  ASSUME Fresh, [Next]_vars
  PROVE  Fresh'
<1>1. CASE Start
  BY <1>1, Zenon DEF Start, Fresh
<1>2. CASE Write \/ Lose
  BY <1>2 DEF Write, Lose, Fresh
<1>3. ASSUME NEW bytes, Call(bytes) PROVE Fresh'
  BY <1>3 DEF Call, Idle, Fresh
<1>4. CASE \E p \in Page : Draw(p)
  BY <1>3, <1>4 DEF Draw
<1>5. CASE \E b \in BOOLEAN : Light(b)
  BY <1>3, <1>5 DEF Light
<1>6. CASE ExtraCalls
  BY <1>3, <1>6 DEF ExtraCalls, SetOption, SetMode, Send
<1>7. CASE Reset
  BY <1>7 DEF Reset, Fresh
<1>8. CASE Spent \/ UNCHANGED vars
  BY <1>8 DEF Spent, vars, driver, Fresh
<1> QED BY <1>1, <1>2, <1>4, <1>5, <1>6, <1>7, <1>8 DEF Next

\* Every step keeps the invariant.
LEMMA LinkStep ==
  ASSUME IInv, [Next]_vars
  PROVE  LinkInv'
<1> USE DEF IInv
<1>1. CASE Start
  BY <1>1, StartKeeps
<1>2. CASE Write
  BY <1>2, WriteKeeps
<1>3. CASE Lose \/ Reset
  <2>1. intact' = FALSE
    BY <1>3, Zenon DEF Lose, Reset
  <2> QED BY <2>1, Zenon DEF LinkInv
<1>4. ASSUME NEW bytes, Call(bytes), ~intact PROVE LinkInv'
  <2>1. intact' = intact
    BY <1>4 DEF Call
  <2> QED BY <1>4, <2>1, Zenon DEF LinkInv
<1>5. CASE \E p \in Page : Draw(p)
  BY <1>4, <1>5, DrawKeeps DEF Draw
<1>6. CASE \E b \in BOOLEAN : Light(b)
  BY <1>4, <1>6, LightKeeps DEF Light
<1>7. CASE ExtraCalls
  <2>1. intact
    BY <1>7 DEF ExtraCalls
  <2>2. CASE \E o \in Option \cap Extra : \E on \in BOOLEAN : SetOption(o, on)
    <3>1. PICK o \in Option, on \in BOOLEAN : SetOption(o, on)
      BY <2>2
    <3> QED BY <2>1, <3>1, OptionKeeps
  <2>3. CASE \E b \in BOOLEAN : SetMode([_displaymode EXCEPT !.right = b])
    <3>1. PICK b \in BOOLEAN : SetMode([_displaymode EXCEPT !.right = b])
      BY <2>3
    <3>2. [_displaymode EXCEPT !.right = b] \in [right : BOOLEAN, moving : BOOLEAN]
      BY DEF TypeOK
    <3> QED BY <2>1, <3>1, <3>2, ModeKeeps
  <2>4. CASE \E b \in BOOLEAN : SetMode([_displaymode EXCEPT !.moving = b])
    <3>1. PICK b \in BOOLEAN : SetMode([_displaymode EXCEPT !.moving = b])
      BY <2>4
    <3>2. [_displaymode EXCEPT !.moving = b] \in [right : BOOLEAN, moving : BOOLEAN]
      BY DEF TypeOK
    <3> QED BY <2>1, <3>1, <3>2, ModeKeeps
  <2>5. CASE \E byte \in {24, 28} : Send(command(byte))
    <3>1. Send(command(24)) \/ Send(command(28))
      BY <2>5, Zenon
    <3> QED BY <2>1, <3>1, OtherKeeps
  <2>6. CASE Send(createChar(1)) \/ Send(home)
    BY <2>1, <2>6, OtherKeeps
  <2> QED BY <1>7, <2>2, <2>3, <2>4, <2>5, <2>6 DEF ExtraCalls
<1>8. CASE UNCHANGED vars
  BY <1>8, IdleKeeps
<1> QED BY <1>1, <1>2, <1>3, <1>5, <1>6, <1>7, <1>8 DEF Next, Spent

\* The invariant always holds.
LEMMA InvCorrect == Spec => []IInv
<1>1. Init => IInv
  BY InitLink
<1>2. IInv /\ [Next]_vars => IInv'
  BY TypeStep, FreshStep, LinkStep DEF IInv
<1> QED BY <1>1, <1>2, PTL DEF Spec

\* The types: addresses, shift and halves of a byte are in range, and the
\* transfers still to be made are lines of the expander.
THEOREM TypeCorrect == Spec => []TypeOK
<1>1. IInv => TypeOK
  BY DEF IInv
<1> QED BY <1>1, InvCorrect, PTL

\* At rest after a begin() that lost nothing, the invariant says all three
\* properties.
LEMMA RestsInOrder ==
  ASSUME IInv, InOrder
  PROVE  Resting /\ todo = <<>>
BY Rests DEF IInv, InOrder, Idle

\* begin() and whatever follows it leave library and controller agreed on
\* what the next pulse is (LiquidCrystal_I2C::begin, send, write4bits).
THEOREM InStepCorrect == Spec => []InStep
<1>1. IInv => InStep
  BY RestsInOrder DEF InStep, Resting
<1> QED BY <1>1, InvCorrect, PTL

\* The driver's copies of the modes and the backlight are true
\* (_displaycontrol, _displaymode, _backlightval).
THEOREM CopiesCorrect == Spec => []CopiesAreTrue
<1>1. IInv => CopiesAreTrue
  BY RestsInOrder DEF CopiesAreTrue, Resting, Copied, ModeCopied
<1> QED BY <1>1, InvCorrect, PTL

\* A page that was drawn is what the display shows (displayNowTime and
\* displayEditModeUI, with any texts that fit).
THEOREM ShowsCorrect == Spec => []ShowsThePage
<1>1. ASSUME IInv, InOrder, page # NoPage, "display" \in _displaycontrol, ~_displaymode.moving,
             NEW r \in Row, NEW c \in 0 .. Columns - 1
      PROVE  Shown(r, c) = IF c < Len(page[r]) THEN page[r][c + 1] ELSE Space
  <2>1. Resting
    BY <1>1, RestsInOrder
  <2>2. lcd.options = _displaycontrol /\ Showing
    BY <2>1 DEF Resting, Copied
  <2>3. "display" \in lcd.options /\ lcd.shift = 0
        /\ lcd.cells[r * 64 + c] = IF c < Len(page[r]) THEN page[r][c + 1] ELSE Space
    BY <1>1, <2>2 DEF Showing
  <2> QED BY <2>3, Zenon DEF Shown
<1>2. IInv => ShowsThePage
  BY <1>1 DEF ShowsThePage
<1> QED BY <1>2, InvCorrect, PTL

=============================================================================

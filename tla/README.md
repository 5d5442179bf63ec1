# Verification of the Sprinklers alarm clock

TLA+ models, model-checking runs and machine-checked proofs for the firmware in
this repository: an ESP32 alarm clock that rings, waters the sleeper after ten
seconds and reports to LINE after twenty.

## 1. Inventory

The program is `src/main.cpp` of the PlatformIO project and the libraries under
`lib/` that it links. (Paths below leave out the leading `src/`.)

| Component | State | Operations | Modelled in |
|---|---|---|---|
| Sketch, `src/main.cpp` | protothread positions, `lastTime` of each thread, `throwEdit`, loop index, pins | `setup`, `loop`, `ptUIDisplay`, `ptIO`, `ptSprinklers` | `AlarmClock` |
| Button reader, `lib/IOStream` | none that is read | `isClickedEditBtn`, `runEditAlarmMode` | `AlarmClock` |
| Edited date, `lib/TimeSystemData` | the `uint8_t` fields of one date | `updatedData`, `addHour`, `addMinute` | `AlarmClock` |
| Alarm display, `lib/AlarmDisplay` | the page on the LCD | `displayNowTime`, `displayEditModeUI` | `AlarmClock`, bytes in `LcdLink` |
| Protothreads, `lib/Protothreads` | continuation of each thread | `PT_BEGIN`, `PT_WAIT_UNTIL` | `AlarmClock` (what the sketch uses) |
| LINE notifications, `lib/Line-Notify-ESP32` | the HTTP client, locals of a call | `sendLineMessage`, `sendLineSticker`, `sendLineImageURL`, the uploads `sendLineImageData/SPIF/SD`, `waitLineResponse` | `LineNotify` |
| HTTP client, `lib/HTTPClientESP32Ex` | the socket object it keeps | `http_begin`, `http_connect`, `http_connected`, `http_sendHeader`, `http_sendRequest`, `http_getStreamPtr` | `LineNotify`, `TlsClient` |
| TLS socket and engine, `WiFiClientSecureESP32`, `ssl_client32` | socket number, `_connected`, `_peek`, mbedTLS contexts | `connect`, `connected`, `available`, `peek`, `read`, `write`, `stop`, `socket`; `start_ssl_client`, `stop_ssl_socket`, `send_ssl_data` | `TlsClient` |
| PWM channels, `lib/ESP32Servo` (`ESP32PWM`) | `ChannelUsed`, `timerFreqSet`, `timerCount`, `PWMCount` | `allocateTimer`, `allocatenext`, `deallocate`, `attachPin`, `detachPin`, `writeTone` | `PwmTimers` |
| `tone()`, `noTone()`, `analogWrite()` | none of their own | the three calls | `PwmTimers`, `AlarmSystem` |
| Class `Servo` | frequency and timer width of an object | `attach`, `detach`, `write`, `setTimerWidth`, `setPeriodHertz` | `Servo` |
| Clock driver, `lib/Arduino-DS3231-master`: alarms | chip registers and flags | `setAlarm1/2`, `armAlarm1/2`, `isAlarm1/2`, `clearAlarm1/2`, `getAlarm1/2`, `getAlarmType1/2` | `RtcAlarm` |
| Clock driver: square wave, 32 kHz, battery, temperature | control and status registers, shared with the alarms | `setBattery`, `enableOutput`, `setOutput`, `enable32kHz`, `forceConversion`, `readTemperature` | `RtcAlarm` |
| Clock driver: dates | none | `dow`, `date2days`, `dayInYear`, `daysInMonth`, `setDateTime(t)` | `RtcCalendar` |
| Display driver, `lib/LiquidCrystal_I2C-master` | `_backlightval`, `_displaycontrol`, `_displaymode`; expander and HD44780 | every call that sends something | `LcdLink` |
| Firebase clients, two of them, `lib/Firebase*` | - | not used by the program | - |

How they interact. One processor runs `setup()` and then `loop()`, which calls
the three protothreads in turn. All calls into the libraries are synchronous;
a protothread gives the processor back only at its `PT_WAIT_UNTIL`. Threads
share the edited date (`TimeSystemData`), the LCD and the clock chip:
`ptUIDisplay` copies the chip's time into the date, `ptIO` edits that copy and
stores it as Alarm 2, `ptSprinklers` polls and clears the flag the chip sets.
Buzzer and relay are driven through the PWM library, the LCD and the chip over
I2C, LINE over one kept TLS connection. `AlarmSystem` composes the sketch with
the PWM library; for the clock chip and LINE the sketch's own model holds the
outcomes that `RtcAlarm` and `LineNotify` show possible.

What is hard here:

- **Concurrency** with things nobody synchronises with: the chip sets its flag
  between any two bus transfers, `millis()` moves and wraps, buttons go down and
  up while a loop of the program looks at one of them at a time.
- **Starvation**: the edit loop, the ring loop and the busy-waits on held
  buttons keep the other threads from running.
- **Resets** in the middle of a ring, of an I2C byte, of a half-written alarm;
  chip, controller and expander keep their state, RAM and pins do not.
- **The network** delays, splits and loses, and an answer carries no mark of its
  request. Setting up a TLS connection can fail in a dozen places, each with
  other things to give back, and socket numbers are reused by other tasks.
- **Tables kept by several functions** in any order of calls (PWM), and packed
  digits and mask bits (registers).

What makes each component correct is listed per module in section 3; the
hazards, with line and property, are in `PROJECT.json`.

## 2. Modules

| Module | What it is |
|---|---|
| `Millis` | the wrapping counter: sums and differences |
| `AlarmClock` | the sketch with buttons, date, display page and the chip |
| `AlarmPromise` | what the clock promises, without threads or counters; `AlarmClock` refines it |
| `AlarmClockProofs` | TLAPS proofs about `AlarmClock` |
| `AlarmSystem` | `AlarmClock` and `PwmTimers` composed: each step of the sketch that drives a pin makes its calls of the library |
| `AlarmSystemProofs` | TLAPS proofs about `AlarmSystem`, from those of its two parts |
| `LineNotify` | notifier, HTTP client, socket, network and LINE server |
| `LinePromise` | what the notifier promises the sketch, without headers, pieces and sockets; `LineNotify` refines it |
| `LineNotifyProofs` | TLAPS proofs about `LineNotify` |
| `TlsClient` | one TLS connection after another: every step and exit of `start_ssl_client`, and `stop()` in its two halves |
| `TlsClientProofs` | TLAPS proofs about `TlsClient` |
| `PwmTimers` | `tone`, `noTone`, `analogWrite` on shared timers |
| `Servo` | `PwmTimers` and the class `Servo` |
| `ServoProofs` | TLAPS proofs about `PwmTimers` and `Servo` |
| `RtcAlarm` | alarm, control and status registers, one bus transfer at a time |
| `RtcPromise` | the two alarms as a program would have them, without bytes, registers and transfers; `RtcAlarm` refines it |
| `RtcAlarmProofs` | TLAPS proofs about `RtcAlarm` |
| `RtcCalendar` | the date arithmetic against a calendar |
| `RtcCalendarProofs` | TLAPS proofs about `RtcCalendar` |
| `LcdLink` | the display driver, transfer by transfer, and the controller |
| `LcdLinkProofs` | TLAPS proofs about `LcdLink` |
| `MC*` | the values of constants that a configuration cannot write |

A definition commented *Slip* is the mutated form of the one after it. No
specification uses a slip; each is a plausible mistake that one property must
notice, and `PROJECT.json` says which.

## 3. Models and runs

### 3.1 `AlarmClock`

`pc` is where the single thread of control is. Each action is a stretch of code
between two points at which the environment matters: `UIRefresh` is the body of
`ptUIDisplay` with the first test of its wait, `IOPoll` the wait of `ptIO`,
`EditScan`/`EditAdd` a turn of the edit loop up to and after the busy-wait on an
Add button, `EditWrite` and `EditClear` the two bus accesses of `setAlarm2`,
`SprRing` the successful `isAlarm2()`, `RingScan` to `NotifyCheck` a round of
the ring loop with its two inner `for` loops, `RingEnd` what follows the loop.
Between any two of them the environment may tick `millis()`, advance the chip by
a minute, press or release buttons, or reset the processor.

What is abstracted:

- a `delay()` has no length: anything may happen in it. The same goes for the
  wait for WiFi in `setup()`, which ends by connection or timeout in every case;
- one pass over the four pins is one step. A pass takes microseconds, between
  passes there are delays;
- sending the messages is one step of the sketch. What happens inside is
  `LineNotify`; the crash it may end in is a `Reset` here. The messages go out
  in every turn after 20 s and also in the turn that ends the ring
  (`main.cpp:150`); nothing in the repository says whether that is wanted;
- `isAlarm2()` finding the flag up and clearing it is one step; the window
  between its transfers is the subject of `RtcAlarm`, which shows that the call
  takes effect in one moment (`KeepsPromise` in 3.5);
- `NoAlarm` stands for register contents no time matches;
- `MaxHeld` (buttons down at once) and `MaxResets` are bounds.

| Property | What it says |
|---|---|
| `QuietOutsideRing` | buzzer, relay and backlight are put back on every way out of a ring |
| `WaterAfterGrace`, `NotifyAfterGrace` | watering and messages wait for *true* ring time, though the program computes with a counter that wraps; messages never start with the relay on |
| `AlarmCanRing` | edited and stored alarms are times of day |
| `ConfirmsWhatIsShown` | what is stored is what the person sees |
| `DismissalKept` | a dismissal once read is lost only to an Add button |
| `ImplementsPromise` | refinement of `AlarmPromise`: a due alarm is neither lost nor served twice, not through resets either |
| `OutputsFollow` | `AlarmSystem`: what the LEDC channels put out is what the sketch asked for, after any number of turns of the relay, and the library never halts the processor |
| `AlarmServed`, `PumpStops`, `HeldEditSilences` | liveness: a due alarm rings unless the clock is in edit mode; the relay's pin does not stay driven; holding Edit ends the ring |

Runs:

- `alarm_timing`: `Wrap` 5, grace times 2 and 3, two iterations per loop, one
  time of day. The counter wraps inside a ring and during a round; a wider
  calendar would multiply the states without adding an order of events.
- `alarm_editing`: two hours of two minutes and bytes modulo 3, so both carries,
  both at once, and the wrap of the day field occur.
- `alarm_system`: `AlarmSystem` under `SysFairSpec` with the smallest clock and
  two timers of one channel, which is exactly the two channels the sketch needs:
  a channel not given back halts the processor at once. With the library's
  sixteen channels a leak would show only after as many turns.

Two buttons at once are enough: a pass distinguishes only the first pressed
button in its order, so a third changes nothing. One reset is enough for the
safety properties, as a reset leaves nothing of RAM that a second could meet.

`AlarmSystem` runs a step of the sketch (`Run`) only when the calls of the step
before it have returned, and each `LibraryCall` is an action of `PwmTimers`,
taken as it stands through `INSTANCE`; time, chip, buttons and resets go on in
between.

Fairness (`SysFairSpec`), and why the code has it. The processor always takes
its next step, of the sketch or of the library (`WF(Step \/ LibraryCall)`; every
I2C call is taken to return). `millis()` goes on (`WF(Outside(Tick))`). A
busy-wait on a button samples its pin every few microseconds, so it ends if the
button is up again and again (`SF(Run(Holding))`). Refreshing the page is
repeated without yielding while `lastTime + 1000` wraps below the counter;
refreshes take tens of milliseconds, so one of them ends outside that second
(`SF(Run(UIYield))`). A person lets the two Add buttons go in the end
(`WF(Outside(Release(b)))`). Edit is *not* assumed to be released, and nobody is
assumed to leave the edit mode: `AlarmServed` excepts it, since the code lets it
last.

### 3.2 `LineNotify`

A call goes `connect`, `header`, `payload`, `stream`, `wait`, `read`; each action
is one call into the HTTP client or one decision of `waitLineResponse`. Over a
kept connection `http_connect` first throws away what has arrived (`Reuse`);
`FailHeader` and `FailPayload` are writes that fail and stop the socket;
`GetStream` is `http_getStreamPtr`, null unless connected. The network side is
external: `Answer` takes whole requests off the stream, `Arrive` delivers pieces
of answers (start of the status line, its rest, everything after it), `Break`
ends the connection so that the client can notice (`closed`) or cannot (`gone`).

A write can also come short. `send_ssl_data` (`ssl_client32.cpp:505-515`) makes
one call of `mbedtls_ssl_write`, which takes one TLS record at most, and hands
the count on; the socket stays open, `http_sendRequest` returns
`SEND_PAYLOAD_FAILED` (`HTTPClientESP32Ex.cpp:125-127`) and nobody writes the
rest. `Long` are the calls whose text is longer than a record: their message
ends as a `short` one. The server waits for what is missing and takes it from
the requests that follow (`Misread`, external): the message so completed is
judged, and what then stands on the connection is the next header, if the
filling ended with a request, or nothing a server can read.

`Tolerant` are the calls of `sendLineMessage`, which goes on after a failed
header; the others are stickers or image URLs, which return
`HTTPC_ERROR_CONNECTION_REFUSED`, truncated to a `uint8_t`. `Upload` are the
calls that send an image from a file: after the header the text goes out
(`text`), then the image in up to `MaxPieces` writes (`imageStream`, `image`),
each of which may fail. A card that is not there is `SENT_FAILED` before
anything is sent; a file that is not there runs the function off its end
without a `return`, so the status is any value or the program crashes
(`NoFile`). The content length of an upload leaves out the two characters of
the line end after the image, so an empty line stays in front of the next
header; the server skips it.

| Property | What it says |
|---|---|
| `RequestsAreFramed` | a write that fails leaves no header to be read as the rest of a message or of an image; excepted is a text longer than a record, after which the code lets exactly that happen |
| `KeepsPromise` | refinement of `LinePromise`: a message is judged once at most, that of a refused call never, and a success on a connection that owed no answer is this call's (`CompletedIsOwn`); a message too long may be lost or judged with the text of later ones |
| `CallReturns` | every call ends, in a result or in a crash |
| `MessageCallReturns`, `CompletedMeansSent` | violated, see section 5 |

`line_calls` makes four calls: image, sticker, message, image; the sticker's text
is longer than a record (191,668 states). A request of one
call, a failure of the next and a reuse by the third is the longest chain in
which one call disturbs another, because a socket that was stopped or drained
remembers nothing; the image comes first and last, so that it is both the
disturbing and the disturbed one. Its fairness is `WF(Client)`: the client's
waits are bounded by `tcpTimeout`; nothing is assumed of network or server.

### 3.3 `TlsClient`

One `HTTPClientESP32Ex` makes connection after connection. `HttpConnect`
replaces the socket object: the old one is destroyed (`Close`, `Free`), the new
one constructed (`Create`). `OpenSocket`, `SetUp` and `Handshake` are the steps
of `start_ssl_client`; each can go on or take its own early exit, with the
contexts it had initialised by then (`Initialised`, `Filled`). `stop()` is two
actions, because it closes the socket itself and then calls `stop_ssl_socket`,
which closes the number again unless it is -1; `OtherTask` may open a socket of
the same number in between. `Peek`, `Read`, `Probe`, `Send`, `AskSocket` are the
calls on a connection. Server, lwIP and mbedTLS are the outcomes of their calls.
Client certificate and key are given separately, as the code takes them
(`setCertificate`, `setPrivateKey`): `SetUp` initialises and loads the two only if
both were given, `FreeCertificates` frees each on its own pointer (`Pointers`).

| Property | What it says |
|---|---|
| `OwnSocketOnly` | the sockets open in the client's name are the one it knows of and those `socket()` lost; it closes no other's |
| `Settled` | between calls a client is connected in full or holds nothing but certificates of a failed attempt |
| `FreedAfterMade` | a context is freed uninitialised in two cases only: the entropy context after a failure before the generator was seeded, and a certificate given without its key or a key without its certificate |
| `NothingLost` | the bytes of a session are read in order and once; an orderly end is noticed after the last |
| `CallReturns` | every call returns, the loop of `send_ssl_data` included |

What the properties except is what the code does, found while they were stated:

- `LateVerdict`: a verdict that comes after the handshake stops the session but
  returns the handshake's 0, which `connect()` takes for success; the client
  then is connected to nothing, and the next write notices. With
  `MBEDTLS_SSL_VERIFY_REQUIRED` mbedTLS refuses during the handshake, so the
  branch is hardly reached.
- `early`: `ssl_init` does not initialise `entropy_ctx`, and a connection that
  fails before `mbedtls_entropy_init` still frees it.
- the contexts of certificate and key are initialised if both were given
  (`ssl_client32.cpp:290`) and freed each if its own pointer was (439-447): with
  one of the two, a successful connection frees what nobody initialised.
- certificates and key are not freed on the error exits after they were parsed.
- `socket()` returns the value of the assignment `sslclient->socket = -1`: it
  loses the socket it is asked for.
- a byte that was peeked at is dropped when the session ends.
- `send_ssl_data` asks again without a pause as long as mbedTLS wants to write.

`tls_client` has two socket numbers (one to be reused, one for the other task),
two connections, two bytes (one peeked, one behind it), a timeout of one tick
and four settings: the sketch's, with nothing verified; CA, client certificate
with key and STARTTLS; a shared key; a certificate without its key. Between them
every step is taken (200,488 states). Fairness:
`WF(Client)`, and TCP gives a stalled connection up (`WF(stalled /\ GiveUp)`),
as lwIP does after its retransmissions; without it `send_ssl_data` spins.

### 3.4 `PwmTimers` and `Servo`

State is the library's static tables and the LEDC timers they program; `asked`
remembers what each pin was told. `Allocate` is `attachPin` down to
`allocatenext`, `Deallocate` is `detachPin`, `ToneChange` is `writeTone` on an
attached pin with its loop over the first `timerCount` channels. `Servo` adds
the class: `AttachPin` takes a channel or sets the hardware timer of the one it
has up again; `SetTimerWidth` and `SetPeriodHertz` end in `SetTimer` and
`Reattach`, which give the channel back and take another. `told` remembers what
the caller of a `Servo` set: its frequency, its width since `attach()`, its pulse
since the last set-up.

| Property | What it says |
|---|---|
| `Books` | counts, frequencies and channels agree, no pin has two objects |
| `HaltsOnlyWhenFull` | the endless loop of `allocatenext` is reached only when no timer can serve |
| `Honoured` | each pin puts out what it was last told, whatever the others do (`PinsHonoured`), and a `Servo` the frequency, width and pulse its caller set |
| `ToneHeard` | violated, see section 5 |

`Honoured` excepts three things:

- the resolution of a pin whose frequency another pin uses at a different one:
  both may land on one LEDC timer, and the second attach changes the width of
  the first one's pulses (`Alone`);
- a width set before `attach()`: `attach()` resets it, while the comment at
  `ESP32Servo.cpp:114` asks for just that order;
- the pulse written before a set-up: `setTimerWidth` and `setPeriodHertz` attach
  the pin again, `setTimerWidth` having converted the ticks of the pulse, and
  neither writes them to the channel, while `ESP32Servo.h:60` has the pulse width
  recomputed.

`pwm_channels` has two timers of three channels, the third on a hardware timer
of its own (the library's 4 x 4 with groups of two, cut down to one full and
one half group), and five pins that together want more frequencies and channels
than there are: a buzzer at 835 Hz, a horn at the 1000 Hz of two relays, and a
servo at 50 or 835 Hz and 16 or 20 bits, so that it clashes with the buzzer.
Every table fills up, and every slot is freed and reused. Tones keep their
frequency; a tone that changes is `pwm_retune`. `allocateTimer` is called before
a channel is in use, as in the examples. The two relays are model values that no
definition tells apart, hence the symmetry (538,466 states).

### 3.5 `RtcAlarm` and `RtcCalendar`

`RtcAlarm` translates `setAlarm1/2` into register bytes (`Encode`), gives the
chip's comparison (`Matches`, from how the driver uses it) and the decoding of
the getters. Every call that changes a bit of the control or status register is
a read and a write (`Read`, `WriteControl`, `WriteStatus`) of an `edit`; what
follows the write is in `edit.then`. Between any two transfers the chip may
match (`Tick`), end a conversion (`Converted`), or the program be reset and
`begin()` call `setBattery` (`Restart`).

| Property | What it says |
|---|---|
| `KeepsPromise` | refinement of `RtcPromise`: an alarm rings at exactly the times it was set for, each call takes effect in one moment, and a flag is taken down by its own call only, one window excepted |
| `NoFalseAlarm` | between calls a raised flag is a match of the present setting |
| `OtherAlarmKept` | a call drops the other alarm's match only inside one bus transfer |
| `AsAsked` | no call's mask undoes what another call has set, but for `INTCN` |
| `ReadsBack` | the getters return what was set; exactly when the mode reads back; the temperature is right from 0 degrees up |

`AsAsked` excepts `INTCN`: `setBattery`, and so `begin()`, clears it unasked, and
a clock that was set to interrupt puts out the square wave after a restart.
`KeepsPromise` excepts the same window as `OtherAlarmKept`: a match that falls
between the read and the write of the status register may be lost, which
`RtcPromise` allows for (`recent`).
`ReadsBack` states the condition under which `getAlarmType1/2` decode before
they look for mask bits without harm (ignored seconds and minutes below 48, days
below 16, a day of the week below 24; `DS3231.cpp:818`), and that `readTemperature` is 256 degrees too high
below zero, since it takes the signed upper byte for unsigned.

`rtc_alarms` sets every mode with values on both sides of each BCD and mask bit
(0, 9, 48, 59; 7, 19; 5, 16). Bound: the calls that change the other registers,
and resets, are made only while the registers hold a setting of `Plain`, since
what they do does not depend on the alarm; the run's value has one, of Alarm 2. `setDateTime`
writes one byte too many, into the seconds of Alarm 1; `SetDateTime` models it,
and the setting of Alarm 1 counts as gone after it.

`RtcCalendar` counts days from 2000 to 2032, which covers a century start and
eight whole leap cycles of the driver's `% 4` rule, and compares the driver's
arithmetic each day: `WeekdayRight`, `MonthLengthRight`, `TimestampRight`,
`DayOfYearRight`. The proofs cover the years to 2099, the last that the chip's
two digits can hold.

- `fromTimestamp` is all of `setDateTime(t)` for a `uint32_t` up to its writes: the
  subtraction, the divisions into seconds, minutes and hours, and the loops over
  years and months (`fromDays`). The driver subtracts 946681200 (`Epoch`,
  `DS3231.cpp:90`), which is 23:00 GMT of 31 December 1999: it keeps the clock in
  GMT+1, although its README calls the timestamp GMT (section 5). `TimestampRight`
  says what then is right: the date and time set are those of the timestamp in
  GMT+1, and so in the last hour of a day in GMT the next day's. It is checked at
  the hours 0, 1, 22 and 23 and the minutes and seconds 0 and 59 of each day,
  which is both sides of every carry, and of midnight in either zone. Timestamps
  are those from `Epoch` on, for which the subtraction does not wrap; up to the
  end of 2099 they are below 2^32.
- `date2days` adds the leap day within February and in no later month.
  `DayOfYearRight` says that the days counted for a date, and the day of the
  year, are right but in leap years after January; the theorem
  `DaysOffByOneCorrect` says exactly how far they are off there: a day ahead in
  February, a day behind from March on, and no longer than the year. `dateFormat`
  then prints `z` wrongly: 31 is left out, 59 and 60 are printed for two days
  each, and the year ends at 364.

The run stops at the end of the last year, hence `CHECK_DEADLOCK FALSE`.

### 3.6 `LcdLink`

The driver is a queue of transfers to the expander; `Write` makes one and, when
En falls, lets the controller latch the nibble as it was or as it becomes, which
are the two outcomes the hardware can have. `Lose` is a transfer the expander
does not take: `expanderWrite` ignores the result. The controller is an HD44780
in 8- or 4-bit mode with half bytes, address counter, cells, options, entry mode
and shift. `Init` lets it be anywhere, and `Reset` may come between any two
transfers. The driver cannot read the controller and keeps copies of what it
has set.

| Property | What it says |
|---|---|
| `InStep` | after a `begin()` that lost nothing, library and controller agree on nibble and byte boundaries |
| `CopiesAreTrue` | the modes the driver would send back with its next call are the controller's |
| `ShowsThePage` | the display shows the page and nothing of the one before, whatever was scrolled, turned or defined |

Where a transfer was lost nothing is promised until the next `begin()`
(`intact`): the nibbles can be out of step for good, which is what the driver
risks by not looking at the result. `setCursor` is modelled with its clamp,
which lets the row one past the last through; the program uses rows 0 and 1.

`lcd_link` uses an empty text and one that fills both columns, so that a shorter
text follows a longer one on each line; one loss, one call after it and one
reset, so that a reset can hit any transfer of an initialisation, also one out
of step, and `begin()` must recover. `cursor()` stands for `display()` and
`blink()`, which share its code.

## 4. Proofs

Proved by TLAPS for all values of the constants that satisfy the named
assumptions (`WrapAssumption`, `TimingAssumption`, `CalendarAssumption`,
`BoundAssumption`; `CallAssumption`; those named below), which the runs
evaluate.

`AlarmClockProofs`:

- `TypeCorrect`: `Spec => []TypeOK`.
- `SafetyCorrect`: `Spec => []AlarmInv`. None of the safety properties is
  inductive alone. `WaterAfterGrace` needs to know that the program's difference
  of two readings never exceeds the true age of the ring (`RungCounts`, by
  `ElapsedTicks`: the difference grows with the ring or falls back to 0 when
  the counter has made a turn), that a round begins only when it is due
  (`RoundsAreDue`) and that the relay is on within rounds only
  (`RelayInRound`). `ConfirmsWhatIsShown` needs `EditPage`, `DismissalKept`
  needs `RingFresh`.
- `QuietCorrect`, `WaterCorrect`, `NotifyCorrect`, `CanRingCorrect`,
  `ConfirmCorrect`, `DismissalCorrect` follow from `AlarmInv`, and
- `Refinement`: `Spec => ImplementsPromise`, step by step: each action of the
  sketch is a step of `AlarmPromise` or a stutter.
- `ElapsedIsExact`: a difference is exact within one turn of the counter, for
  every modulus, 2^32 among them.

`LineNotifyProofs`:

- `TypeCorrect`: `Spec => []TypeOK`.
- `InvCorrect`: `Spec => []LineInv`. Framing alone is not inductive: a message
  may be appended only after its own header, and a header only after whole
  requests. `HeaderIsOpen` says that a header waits for its message only while
  the call that wrote it is about to write that, or where nothing will be
  written any more. Writes that fail keep it true because they stop the socket; a
  text longer than a record keeps it true in the form the property has, with the
  short message as an end of its request.
  `AnswersAreOwn` says that in a call which connected when nothing was owed,
  every request and every acceptance under way is that call's. The lemmas
  about sequences (`ChunkAppended`, `RequestTakenFramed`, `AnswerAppended`,
  ...) carry both through the appends and tails of writes, answers and
  arrivals.
- `FramedCorrect` and `OwnCorrect` follow.
- `SentOnceCorrect`: the chunks at the server are in the order of their calls,
  a message of a call is there or accepted only after the call's last write,
  and never both. The first chunk of a call must be later than every message
  before it, which the order gives; taking the first message off (`Judged`)
  then leaves no other of the same call.
- `Refinement`: `Spec => KeepsPromise`, step by step under `Stage`, `Pending`
  and "something is on the wire". That the messages at the server tell whether
  the stream is empty when a kept connection is used again (`KeptIsWhole`)
  needs `HeaderIsOpen`; that a call which gives up has sent nothing needs
  `SentOnce`.
- `RunsDownCorrect`: `Spec => CallsRunDown`. Within a call each step leaves less
  before it, in the lexicographic order of its own steps, the pieces to write,
  a break of the connection, the chunks to judge, the pieces to arrive and
  those to read. The order is well-founded, so a call has finitely many steps
  whatever the network does; `CallReturns` then needs only that the client
  takes its next one, which is its fairness.

`TlsClientProofs` (`ClientAssumption`; any number of sockets, settings, bytes
and any timeout):

- `TypeCorrect`, and `SocketsCorrect`, `FreedCorrect`, `ReadingCorrect`,
  `SettledCorrect`: the four safety properties, `FreedCorrect` with the two
  exceptions of `FreedAfterMade` and no other. The invariant has a part for
  each thing a client holds: `Sockets` (who owns which number at each step,
  and that the number is -1 when `stop()` is between its halves), `Contexts`
  (which of them are initialised at each step of `start_ssl_client`, certificate
  and key only where both were given),
  `Sessions` (a session is up only where the engine is set up), `Connection`
  (what a connected client has) and `Reading` (the bytes given are the first
  ones). Each part is inductive given the parts before it, and each has a
  lemma of its own with one step per action.
- `RunsDownCorrect`: `Spec => CallsRunDown`. Within a call the client never goes
  back: `Ahead` counts its steps to the end, a failure and a `stop()` included,
  and the ticks left to the handshake. The one loop that turns on the spot is
  `send_ssl_data` against a server that takes nothing; for it `CallReturns`
  needs the assumption that TCP gives up in the end.

`RtcAlarmProofs` (`SettingAssumption`, `ChipTimeAssumption`; any set of settings
and times):

- `TypeCorrect`.
- `MatchCorrect`: `MatchesWhatWasSet`, the chip matches the bytes at exactly the
  times that were asked for, for every mode and every value. It rests
  on three lemmas about packed digits: `Digits` (taking the mask bit off an
  encoded field and decoding it gives the field back), `Encoded` (the mask bit
  is set exactly in ignored fields) and `EncodedMatches`.
- `FlagsCorrect`: `NoFalseAlarm`. It needs to know which change of the status
  register is under way, and that a setting is written before its flag is
  cleared.
- `KeptCorrect`: `OtherAlarmKept`. The byte read is a true copy of the register
  but for the flags in `fresh` (`Copies`).
- `ReadsBackCorrect`: `ReadsBack`. Decoding takes the mask bit off and keeps the
  digits (`FieldReadsBack`); which mode is found depends on which mask bits are
  seen after it (`Seen`), and no two modes show the same ones (`ModesDiffer`).
  The proof showed the condition in the property to be incomplete, which the
  values of the run had not: the bit that tells a day of the week from a date
  is moved by decoding as well, and a day of the week of 24 and more, which no
  caller has reason to set, reads back as `MATCH_H_M`.
- `Refinement`: `Spec => KeepsPromise`, step by step. The write of the status
  register is the moment at which a call takes effect; the transfers before and
  after it are stutters, or the abstract call's start and return. That a flag is
  reported only after it was seen up needs one more invariant (`Reports`), and
  that the write takes down no other flag than the call's own needs `Copies`.
  With `MatchCorrect` the bytes disappear: the chip's comparison becomes
  membership in the times of a setting. This is why `AlarmClock` may take
  `isAlarm2()`, test and clear, as one step.
- `AskedCorrect`: `AsAsked`. Between read and write, `wanted` is ahead of the
  register by exactly the bits of the edit under way.

`ServoProofs` (`HardwareAssumption`, `DefaultAssumption`; any number of timers,
channels, groups and pins, any frequencies and resolutions):

- `TypeCorrect` and `BooksCorrect`. The calls come down to a handful of effects
  on the tables (`Effects`): a channel is taken, given back or written, a timer
  is closed, a tone changed, a hardware timer set up again. Each effect keeps
  the four parts of `Books` together (`Tables`): an allocation is right only
  because a timer without channels has no frequency, and a timer is freed at
  the right moment only because its count is the number of its channels.
- `HaltsCorrect` and `HonouredCorrect`, for pins whose tones do not change
  (`FixedTones`), which is how the sketch uses `tone()`: with other tones
  neither the proof nor the code holds, as `pwm_retune` shows. `Honoured` is
  inductive only with `OnePitch` (a channel's frequency is its timer's), `Own`
  (a channel is used as its pin may be), `Tended` (the hardware timer is set up
  for all the channels on it, but for resolutions that clash), `Linked` (an
  attached `Servo` is on the channel it asked for, and one between two channels
  has none) and `ToldSo` (what the class has asked of the library agrees with what
  its caller set).

`AlarmSystemProofs` (`SystemAssumption`: two timers or more, any number of
channels and groups), which cites the theorems of `AlarmClockProofs` and an
instance of `ServoProofs` for the sketch's two pins and no Servo:

- `OutputsCorrect`: `OutputsFollow`. The invariant `SysInv` is the library's,
  and that each pin either was last told what `buzzer` and `relay` say, or the
  calls that will tell it are still to be made (`Follows`). The library is never
  halted, since with one channel for the other pin there is always a timer
  without any (`AlwaysFits`); with a single timer that would be false, as the
  two pins have different frequencies. `PinsHonoured` of `PwmTimers` then turns
  what the pins were told into what they put out.
- `SystemIsSketch`: `SysSpec => Spec`. Waiting for the library adds no behaviour
  to the sketch, so all safety theorems of `AlarmClockProofs` hold of the two
  together.
- `PinsSafe` is the outcome of both: between calls the pump's pin is driven only
  in a ring that has sounded for `WaterAfter`, and without a ring neither pin
  puts anything out.

`RtcCalendarProofs` (`YearAssumption`: any last year up to 2099; `TimeAssumption`:
any hours, minutes and seconds):

- `CountedCorrect`: on every day the counts are formulas of the date
  (`Counted`): `Start(z)` days before year 2000 + z, `First(z, m)` before month
  m, and the weekday is the days since 2000 modulo 7. The calendar knows of no
  formula, it only counts on, so this is where the lengths of years and months
  enter.
- `MonthLengthCorrect`, `TimestampCorrect`, `DayOfYearCorrect`, `WeekdayCorrect`:
  the four properties; `DaysOffByOneCorrect` is the exact error of which
  `DayOfYearCorrect` states where there is none. `TimestampCorrect` first takes
  hours, minutes and seconds off (`Divided`), then the loops. A loop of the driver is a recursive
  function over its counter. The formula for what it has taken off so far
  satisfies the equation of that function, so the function is not chosen from
  nothing; and by `LoopInduction` it then equals the formula at each turn
  (`YearsIs`, `MonthsIs`, `DaysBeforeIs`). The year at which the loop stops is
  the right one because an earlier year is over and a later one has not begun
  (`YearsApart`, `MonthsApart`). `WeekdayCorrect` comes down to `SumIs`: the sum
  in `dow()` is the days since 2000, six days and whole weeks.

`LcdLinkProofs` (`DisplayAssumption`: up to 16 columns, any texts of bytes other
than the 0 that ends a string, any of the extra calls, any number of losses and
resets):

- `TypeCorrect`, and `InStepCorrect`, `CopiesCorrect`, `ShowsCorrect`: the three
  safety properties. They hold between calls; the invariant `LinkInv` says what
  holds in between, where no transfer was lost since the last `begin()`. The
  controller is waking up (`Waking`: which of the first thirteen transfers comes
  next, and in which mode and at which half byte the controller can be then), or
  a call is being sent: k of its bytes are, and j of the six transfers of the
  next (`Sending`), and `Done` says what those k bytes have done. `Waking` is
  where `begin()` earns its three attempts: whatever mode and half byte the
  controller was in, after the third it reads bytes. A page is followed cell by
  cell (`Shows`): what is written lies before the address counter, the rest is
  blank. `PartsIs` and its kin turn the driver's queue, a flattened sequence of
  sequences, into a formula of k and j.
- The texts are bytes other than 0 because the driver's `print` ends at it, and
  because `NoPage`, the page before any, is told from real ones by it.

Only model-checked: all liveness (`AlarmServed`, `PumpStops`,
`HeldEditSilences`, both `CallReturns`), since the proof system handles neither
fairness nor `ENABLED`; for the two `CallReturns` the safety half, that a call
has only so many steps, is proved (`CallsRunDown`). Every other property of a
passing run, each invariant, action property and refinement, is proved.

How induction over data is done, as the library's induction theorems cannot be
instantiated by the provers at hand: a set of numbers that is not empty has a
least one, by `NatLessThanWellFounded` and `WFMin`, which take sets. The
statements to be proved by induction are therefore sets of the numbers they hold
for (`SetInduction`, `LoopInduction`).

## 5. Where code and documentation disagree

| Run | What it shows |
|---|---|
| `line_offline` | without a connection `sendLineMessage` does not return `CONNECTION_FAILED` but calls through the null pointer of `http_getStreamPtr` |
| `line_late_answer` | the late answer to one message is taken for the answer to the next, and `SENT_COMPLETED` is returned for a message the server has not accepted |
| `pwm_retune` | `tone()` with a new frequency leaves a channel at the old one when a channel before it on its timer was freed |

Each quotes the line it contradicts in `PROJECT.json`. Others have no run of
their own: what the code does there is an exception of a property, or stated by
it or by a theorem, which say at once that it happens in no other case.

| What the code does | What the repository says | Stated in |
|---|---|---|
| `attach()` resets the width set before it | `ESP32Servo.cpp:114`: "if you want anything other than default timer width, you must call setTimerWidth() before attach" | `Honoured` |
| `setTimerWidth` and `setPeriodHertz` do not write the pulse again | `ESP32Servo.h:60`: "as a side effect, the pulse width is recomputed" | `Honoured` |
| timestamps are counted from 23:00 GMT (`DS3231.cpp:46`, `:90`, `:1144`), so that the clock set from one is an hour ahead | the clock driver's `README.md:66`: "U : Seconds since the Unix Epoch (January 1 1970 00:00:00 GMT)" | `TimestampRight` |
| the day of the year is off by one in leap years after January | the clock driver's `README.md:33`: "z : The day of the year (0 through 365)" | `DayOfYearRight`, `DaysOffByOneCorrect` |
| `begin()` clears `INTCN` through `setBattery` (`DS3231.cpp:456`), and the example calls nothing that sets it again (`enableOutput(false)`), so that an alarm pulls no pin | `DS3231_intalarm.ino:46`: "Attach Interrput 0. In Arduino UNO connect DS3231 INT to Arduino Pin 2" | `AsAsked` |

The other exceptions contradict no line of the repository; sections 3.3 to 3.6
name them: a text cut short whose rest the server takes from the next request,
an uninitialised context that is freed, a verdict taken for a success.

## 6. Not modelled

- Both Firebase libraries (about 50,000 of the repository's 84,000 lines) and
  the copy of the clock driver under `include/`: no file of the program
  includes them. They are vendored clients of a cloud service, mostly JSON,
  tokens and HTTP text; a model would be of a program this repository does not
  run. For that reason the models cover a small share of the repository's lines
  while they cover the sketch and all the libraries it links.
- mbedTLS, lwIP, the WiFi stack: external, by the outcomes of their calls.
- Of the TLS socket and engine: copy assignment, `verify()`, the fingerprint and
  host name checks and the loading of certificates from streams, which the
  program does not call and which compute on text; the STARTTLS dialogue is one
  step that succeeds or fails. Of the HTTP client: the variant of `http_connect`
  for STARTTLS, used by no caller.
- Of `ESP32PWM`: `adjustFrequency`, `writeNote` and the scaled duty calls, for
  programs that use its objects directly. The pulse arithmetic of `Servo` is in
  floating point.
- `dateFormat` and the parsing of compiler dates, the headers and answers of
  LINE, the layout of pages: conversions of text.
- Single reads without a state of their own (`isArmed1/2`, `isOutput`, `is32kHz`,
  the getters of `Servo`).
- A bus that hangs. `readRegister8` (`DS3231.cpp:1201`) waits without a timeout,
  and a chip that does not answer stops the program for good; the models take
  every call to return. There is no property to state: it fails.

## 7. Plan

Order of work: the sketch first, as everything else hangs off it, then the
libraries whose failure the sketch cannot see, then the libraries' calls the
sketch does not make, and the proofs in the same order. All of the program and
the libraries it links is modelled, apart from what section 6 names. What is
left is more proof than model:

1. An abstract specification of the outputs: pins with independent outputs,
   refined by `Servo` where `Honoured` holds.
2. The sketch composed with `RtcAlarm`, so that a match inside the window of the
   status register is seen from the person's side. The refinement of
   `RtcPromise` says what such a match can do; what is left is `AlarmClock` over
   that promise in place of its own chip.

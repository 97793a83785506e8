# Verification of the A140808 relay board

This directory holds TLA+ specifications of the two programs of the REST Switch
A140808 device, their model-checking configurations for TLC and proofs for
TLAPS. The device is a board with eight relays and eight opto-inputs
(an ATmega32, `avr/`) and a small OpenWrt router (an HLK-RM04, `hlk-rm04/`) that
connects it to a server in the cloud. Paths below are relative to the
repository's root. `A` stands for `avr/src` and `H` for
`hlk-rm04/files/package/utils/a140808/src`.

## 1. The system

```
 cloud server --websocket--> websock.c --ws_onmessage--> a140808.c dispatch_msg
                               ^   |                         |
                     daemon.c loop |                         v
      a140808.init --signals--> main (pid file)          msg_proc.c mp_dispatch_*
                                                             |
                                                         serial.c sp_write  (frame + '\n')
                                                             |  57600 baud, parity
                                                             v
   ISR(USART_RXC_vect) --> s_rx_buffer --> SerialPort::read --> MsgBuf --> MsgProcessor
                                                             |                |
   opto-inputs ------------------> on_poll (notifications) <-+        avr_impl.cpp macros
                                                                              v
                                                                       PORTA, the relays
```

| Component | Code | State | Operations | What makes it correct |
|---|---|---|---|---|
| Ring buffer, and its C twin | `A/ring_buffer.h`, `H/ring_buf.h` | storage, `m_first`, `m_last`, `m_size` | construct, free, clear, push_back, pop_front, pop_back, at, bulk transfers (C only) | it is a bounded deque that forgets the oldest item; pointers and size agree |
| AVR serial receive path | `A/serial.cpp` | `s_rx_buffer`, shared with an interrupt | `ISR(USART_RXC_vect)`, `SerialPort::read`, `write`, `init` | bytes in order, none invented; how far `m_size` may drift; the rate and format of the other end |
| Message codec, twice | `A/msg_buf.h`, `H/msg_buf.h` | a 14 byte window | push_back, validate, get_bytes, set_bytes, CRC-16 | only whole frames count; a damaged message is never another message |
| AVR digital lines | `A/avr_impl.cpp` | PORTA, PORTC, PORTD | read/write/masked write, set/clear/toggle bit | a command switches the relays it names and no other |
| AVR message processor and main loop | `A/msg_processor.h`, `A/avr_impl.cpp`, `A/avr_main.cpp` | `m_msgBuf`, subscriptions `s_input`, `s_output` | poll, one handler per message type, on_poll | commands once, in order and not lost; truthful reports |
| AVR tick counter, one-shot timer | `A/ticks.h`, `A/one_shot_timer.h` | a 16-bit counter; a callback and a count | get, delay; start, stop, interrupt | (not compiled into the firmware) |
| Router serial port | `H/serial.c` | `s_fd`, the tty's queues | sp_init, sp_close, sp_read, sp_write, baud rate table | frames leave whole, plus one `'\n'`, or are given up; only what the AVR wrote is heard |
| Router command dispatch | `H/a140808.c`, `H/msg_proc.c` | `s_msg_buf` | dispatch_msg, mp_dispatch_*, mp_poll | a malformed message has no effect, a well formed one the effect it names |
| Router web socket client | `H/websock.c` | ready state, two timers, two ring buffers, library handles | ws_connect, ws_poll, ws_close, ws_send_*, ws_onevent | it reconnects, keeps apart attempts, sends text in order, calls the library properly |
| Router daemon life cycle | `H/daemon.c`, `.../files/a140808.init` | `s_run`, the pid file, signal handlers | main, sig_term, get_serial, get_cloudcfg; start, stop, restart | one daemon; the pid file names it; SIGTERM ends it; it connects to the server that is configured |
| Router address list | `H/ipaddr.h` | none | get_ipv4_addresses | no more than fits, none left out without need |
| Logging, utilities | `H/log.c`, `H/util.h` | none | syslog, macros | -- |
| Serial number tool | `hlk-rm04/tools/serialnum` | none | base 32 coding of a time | reading inverts writing, also as people write the digits |
| Flash tools | `hlk-rm04/tools/*` | none | flashing by hand | -- |
| Testers | `A/test/*`, `H/tests/*` | none | an interactive command line; a printing test | -- |
| Build, OpenWrt configuration | Makefiles, patches | none | -- | -- |

How they interact. The router daemon has one thread: `lws_service` calls
`ws_onevent` back, which calls `dispatch_msg`, which writes frames to the tty
before it returns. The AVR has two contexts: the main loop and the receive
interrupt, which share `s_rx_buffer` and nothing else. Inside the main loop one
`MsgBuf` serves two purposes: the command that is being received is assembled
in it, and answers and notifications are built in it. The AVR's answers go to
the tty, where the daemon leaves them: nothing calls `mp_poll`. `RouterPort` models
`msg_proc.c` as the interface it is, for a program that does call it. The init
script and the daemon share the pid file, and the script talks to the daemon
by signals.

What is hard here:

* **The interrupt inside pop_front.** `--m_size` is not atomic
  (`A/ring_buffer.h:117`), nothing is volatile and interrupts stay on.
  The router sends an extra byte per command because of it
  (`H/serial.c:152`).
* **One buffer, two purposes.** A notification built while a command is half
  received destroys it (`A/msg_processor.h:122`).
* **Lost and overwritten bytes.** Parity errors, a full ring, a failed write or a
  flush on the router: the receiver resynchronises with a sliding window.
* **Restarts.** The brown-out detector resets the AVR, which forgets subscriptions
  and switches the relays off; the daemon starts again with bytes of its
  predecessor on the line. Neither end is told of the other's restart.
* **Two numberings.** Bit numbers from 0 in the messages, relays from 1 in the
  macros; an inverted port with half of its bits reversed.
* **Callbacks in any order.** `CLOSED`, `CONNECTION_ERROR`, `WSI_DESTROY`, each
  with the same timers; a clock that is set while timers run; writes that are
  truncated and put back.
* **Processes and a pid file.** test, fork, unlink, write, kill and unlink again
  are steps of different processes; a crash may come between any two.

`PROJECT.json` lists these hazards at their lines, with the properties that
look for them.

## 2. The modules

| Module | Models | Extends or instantiates |
|---|---|---|
| `BoundedDeque` | what a ring buffer promises (abstract) | |
| `RingBuffer` | class RingBuffer and struct ring_buf_data, one action per operation | implements `BoundedDeque` |
| `SerialRx` | the receive interrupt against `SerialPort::read`, one memory access at a time | |
| `RelayPort` | the register macros and the write handlers | |
| `RelayService` | what the board promises whoever switches its relays (abstract) | |
| `Frames` | the messages, their bytes on the line, and the message buffer both ends put them in | `BoundedDeque!PushOver` |
| `AvrNode` | the firmware as the router sees it | `Frames`, `RelayPort`; implements `RelayService` |
| `RouterPort` | the router's end of the line: msg_proc.c over serial.c | `Frames`; implements the router that `AvrNode` assumes |
| `MsgCodec` | the text of a message: hex digits, CRC-16, validate | |
| `B32Coder` | the serial number tool | |
| `DeviceConfig` | serial number, addresses and server the daemon reads | |
| `LineSettings` | rate and format of the two ends of the line | |
| `Codings` | calls of these four, with what they are for | `MsgCodec`, `B32Coder`, `DeviceConfig`, `LineSettings` |
| `CloudDispatch` | from a JSON message to the relays | `RelayPort` |
| `WebSock` | websock.c, the daemon's loop and libwebsockets as it is used | |
| `Daemon` | main, the signals, the init script and the pid file | |
| `MC*` | command, value and message sets for TLC | their module |
| `Bytes_proofs` | theorems about `RingBuffer` and `Codings`, and their proofs | both, TLAPS |
| other `*_proofs` | theorems and their proofs | their module, TLAPS |

Definitions named `...Late`, `...Kept` and the like, with the comment "Faulty
variant", are bugs one could make in the definition below them. They are in no
next-state relation; they are there to see that a property notices.

### RingBuffer

`ring` is the object; pointers are offsets from `m_buff`. The operators carry
the member functions' names, and each action calls one on an allocated buffer or
on one whose malloc failed (`cap = 0`, which makes it full and empty at once).
The abstract contents are read off by `View` and `ImplementsDeque` says that
every step is one of `BoundedDeque`. After a failed allocation the deque is
closed: it ignores writes.

### SerialRx

`pc` walks `SerialPort::read` and `pop_front`; each action is one access
of shared memory. `rsize` and `rfirst` are the register copies. The code does not
say volatile, so wherever the compiler may keep a copy or load again, both are
allowed; the order of the statements is kept. `m_first` has two bytes, which the eight bit
AVR loads (`LoadFirst`, `LoadHalf`) and stores (`StoreHalf`, `Advance`) one after the other, in
either order. `Mix` is the pointer with one half of each of two, `base` where malloc has
put the storage: if its addresses have one high byte (`OnePage`), halves cannot
make a pointer that is neither of the two; if they do not, it may point anywhere, and `At`
reads the memory there as `Foreign`. `UsartRx` is the whole handler and may come between any two
steps. Bytes are numbered as they arrive, `taken` counts the pops, and
`hits` the interrupts that came between pop_front's first look at `m_size` and
its store. `Burst` bounds the bytes that arrive during one pop_front: at 57600
baud a byte takes 2778 cycles of a 16 MHz clock, so 1 is what the
board can do; the runs allow 2 as well.

`TypeOK` and `NoPhantomByte` hold without condition while no unread byte was overwritten, apart
from the moment at which the main loop itself has stored one half of `m_first`, which nobody reads
then: the handler never loads `m_first`. After an overrun, in which the handler stores it, they are
claimed for storage with one high byte only (`Sound`). `OnlyOverrunHealsDrift` says that `m_size`,
once behind, stays behind while nothing is overwritten; a byte that comes when it says
full sets `m_first = m_last` and brings all three in step again.

### RelayPort

A byte is the set of its 1 bits. `Mirror` is the pin assignment of the register
macros, `Decode` the one of the bit macros.

### Frames

A frame's bytes are tokens `<<frame, position>>`, so that only all bytes of one
frame in order make a message: the CRC is taken to be perfect. Position 0 is
that of a byte that belongs to no frame: the extra `'\n'`, or a damaged byte.
`Frame` is the set of all messages with their register addresses, values and masks.
`PushByte` is `push_back` on the window of `MSG_LEN` bytes, `Valid` is
`validate`, and `Partial` says that the first bytes of a frame are in the buffer and
its last ones are not, which is what a second use of the buffer destroys.

### AvrNode

`wire` holds what has left the router, `rx` is `s_rx_buffer`, `mb` is `m_msgBuf`, `pc` the
main loop's place in `MsgProcessor::poll` and `on_poll`. `Poll`, `ReadByte`,
`ReadNothing` are poll and read, the `On...` actions are the cases of
`process_message` with the handlers of `avr_impl.cpp`, `PulseEnd` is the second
toggle after the busy wait, `PollInputs` and `PollOutputs` are on_poll. A pop is
one step here; what happens inside it is the subject of SerialRx, and what that leaves behind is
in three variables. `behind` counts the last bytes of `rx` that `m_size` does not count: they
are stored, and not found. `ReadByteStruck` is a pop into which the interrupt strikes, which makes
`behind` one more, or, if the storage is full, spoils it: the handler moves `m_first` under the pop.
`Store` is `push_back` outside of a pop. On a full storage it overwrites the oldest byte, and if
`m_size` is behind by then, `m_first` stays where the newest byte now is, before
the older ones. In both cases the storage is `mixed` from then until a reset: a pop returns any of
`Strays`. `garbled` remembers that it ever was.
`RouterSend` is sp_write; `RouterWriteFails` is an sp_write that ends early, with
the command given up, or without the `'\n'`, whose failure sp_write does not
look at; `RouterStarts` is the flush in sp_init when a daemon takes over the tty.
`UsartParityError` is a byte the handler drops, or, since it looks at PE after it has read UDR, a
damaged one it keeps. `Reset` is a start of the AVR at any
point, after which the line may be anywhere in what is being sent.

### RelayService

`relays` is the output register as the messages show it, `pulsed` what a pulse has
switched for now, `told` what was reported. Commands may be lost, never invented,
doubled or reordered until the order in the storage is lost (`garbled`); a report is always of the relays as they are then, and never
from within a pulse; the board may start anew. `told` maps the number of a frame to the
value it tells. Nothing is said of buffers,
frames or subscriptions. `AvrNode!ImplementsService` maps PORTA, the pulse
in `pc` and the frames in `tx` to it. It implies what an invariant would say of
the order of commands, and ties it to each step.

### RouterPort

`mb` is `s_msg_buf`, `alloc` and `open` whether it has storage and the tty a descriptor,
`in` and `out` the tty's queues together with the line. The C program has one thread, so
a call is a step, but `mp_poll` is many: `sp_read` takes a byte at a time while the
AVR writes. `Request` stands for the six `mp_dispatch_` functions with their
refusals. `mp_init`, `InitNoMemory` and `InitNoTty` are the ways through `mp_init`, also
a second time; the flush takes what was received by then, and any part of what the AVR has
written may come later, half a frame for instance. `ParityError` is what `IGNPAR` without `INPCK` leaves open: a damaged
byte is delivered or taken out. `AvrWrites` is `SerialPort::write`.

`PongsAnswerPings` speaks of the positions in `accepted` and `heard`: a map that keeps
the order takes each PONG that left whole to the PING it answers, and while no write
failed every PING that was processed is hit.

`ImplementsRouter` is the joint between the two ends: each step of the router that
touches the line is one that `AvrNode!RouterNext` allows, so what AvrNode shows
under that assumption holds with this router.

### MsgCodec, B32Coder, DeviceConfig, LineSettings

Pure functions under their names in the code. Values of bytes are numbers in
MsgCodec, and the register of the CRC is the set of its 1 bits, which makes a shift and an
exclusive or what they are; B32Coder keeps all numbers as sets of bits, since TLC's
integers have 32 bits and a time has 41. `Codings` calls them one at a time and holds
the reference definitions: the CRC as a division bit by bit, digits to the base 32,
the text before a `:` or newline, the places where an interface with an address is listed.

### CloudDispatch

A JSON element is its type and what json-c converts it to. `PulseRelay`,
`WriteOutputRegister` and `NoFrame` are the ways through `dispatch_msg`
and `mp_dispatch_*`; `Avr...` the handlers on the other side of a reliable line. The module
extends `RelayPort` by the way to its macros: `port` is the same variable, `CloudSpec` has its
own commands, and `Values`, the commands of `RelayPort!Next`, is empty here. `Effect` says what
a sequence of messages means from their form alone: for each relay the last
write with its bit in the mask decides.

### WebSock

`ready`, `rec`, `hb`, `ctx`, `handle`, `ping`, `text` are the statics of websock.c.
A timer is its age in seconds, kept up to its interval: the code only ever compares
the difference with the interval. `ClockSet` lets the ages become
anything once, since the subtraction is unsigned and a router without a clock
chip sets its time when the network is up. `sock` and `writable` are the library's:
a socket is destroyed in the service call that closes it, and a failing
attempt is reported by CONNECTION_ERROR, WSI_DESTROY or both. `Receive` is a
message that asks for the router's addresses, the only one that is answered.
`Writeable` covers the ping and the text, each written, truncated or failing.

### Daemon

`at` is main's place, `pidfile` the file's content, `script` where each run of
the init script is. SIGTERM with `sig_term` installed clears `s_run` and
restores the default action, so that a second one kills. Crashes, failing system
calls and signals come anywhere. What main makes of the files it reads is in
DeviceConfig, what its loop does in WebSock. Pids are not used twice.

## 3. What the runs check

"pass" runs finish without an error, "violation" runs show a finding of section 6.

| Run | Shows | Bounds, and why they do |
|---|---|---|
| `ring_buffer` | `PointersAgree`, `ImplementsDeque`: all call sequences are those of a deque | capacity 3, 3 item values, every index 0..255: wraps, full, empty and failed malloc all occur; proved for all sizes |
| `serial_rx` | `InOrder`, `NoPhantomByte`, `StuckAtMostHits`, `OneExtraByteCoversOneHit`, `OnlyOverrunHealsDrift` | capacity 3, 7 bytes: twice round the storage, overruns, two interrupts in one pop; storage at 254, across a 256 byte border, and at 256; proved for all sizes and places |
| `relay_port` | `MaskRespected`, `BitSwitchesRelay` | all 256 states; 25 value and mask pairs; proved for all |
| `relay_port_bit_number` | bit number b is not register bit b | same |
| `avr_node` | `FollowersUpToDate`, `CommandsGetDone`, `FollowersLearnInputs`, `ImplementsService` | 16 commands, of every type and for every way through the handlers but two of `on_read_register`, in all pairs; frames of two bytes and a ring shorter than two commands with their `'\n'`, so that bytes are overwritten; interrupts in up to two pops, which is what it takes for a command to wait; one change of an input; one reset, anywhere; only two commands, so orders of three are left to `avr_node_followed`; `FollowersUpToDate` and `ImplementsService` are proved for all bounds |
| `avr_node_followed` | `OnlySentCommandsDone`, `OnlyNotificationsLoseCommands` | three of three commands of three bytes, a ring shorter than two commands with their `'\n'`, interrupts in up to two pops, one byte lost or damaged, failed write or flush, one input change: commands that wait, alone and beside one that was cut in two, all occur; no reset, which would leave nothing to lose; both are proved for all bounds |
| `avr_node_partial` | a half received command is not always completed, no interrupt inside a pop being needed | two commands, one change |
| `cloud_dispatch` | `OutputsAsSaid` | 21 messages, one for each way through `dispatch_msg` and each boundary (-1, 0, 8, 255, 256, 257), in all triples; proved for all messages |
| `web_sock` | `ReadyTracksSocket`, `RetryArmed`, `LibraryUsedWell`, `TextInOrder`, `ClosedForGood`, `RetriesAreSpaced`, `KeepsTrying`, `TextLeaves` | intervals of 2 s, a 3 byte buffer with texts of 2 and 5 bytes (one fits, one is cut, two overflow together), two failures, one clock change; the six safety properties are proved for all bounds |
| `router_port` | `HeardWasSaid`, `OnlyRequestsLoseAnswers`, `PongsAnswerPings`, `ImplementsRouter` | frames of three bytes, two requests, two frames of the AVR, one failed write or flush, one damaged byte, any number of restarts: a request between the two halves of an answer, a PONG made in the buffer the PING came in, a stale half after a restart; all four are proved for all bounds |
| `codings` | `NeverAnotherMessage`, `CrcIsRemainder`, `DigitsAreBase32`, `TimesReadBack`, `ServerAsConfigured`, `AddressesFit`, `EndsAgree` | three messages with each character changed into each of 128 codes and each two bits flipped; times of one or two 1 bits, of runs of 1 bits, and of our days; all lines up to four characters and those around the 64 of the buffer; up to four interfaces of eight kinds, with the shortest and the longest address; every rate of the table and two that are cut to 16 bits; all seven are proved for all of these inputs |
| `daemon` | `OneDaemon`, `PidFileNamesDaemon`, `TermExits` | two lives, two users, two crashes or failures: a stale pid file, a restart that overlaps a slow exit, two stops; the first two are proved for all bounds |

`TypeOK` of `SerialRx` and `AvrNode` is checked as well, as the first thing to break when a buffer
outgrows its storage; the type invariants of the other modules are theorems (section 4) that
no run repeats. Deadlock is checked in the AVR runs and for
`RouterPort`, where a loop that stands still is an error. It is off for `WebSock`, `CloudDispatch`, `Daemon` and `Codings`, where
the bounded behaviours end: the daemon exits, the server has said all it is
allowed to say, the pids are used up, the function has returned.

**Fairness.** `AvrNode!FairSpec`: weak fairness of `MainLoop` (the `for(;;)`
of `A/avr_main.cpp`) and of `UsartRx` (bytes on the line arrive). Nothing is
assumed of the router or the plant. `WebSock!FairSpec`: weak fairness of `Tick`
(time passes) and `Thread` (the daemon is scheduled), strong fairness of
`Writeable` (a socket that can be written again and again is
reported at some time). `Daemon!FairSpec`: weak fairness of each process's own
steps, without the wait for an address, for which nothing is assumed: there may never be a
network. Main waits for an address without looking at `s_run`, so a daemon that has logged
"received SIGTERM, exiting..." stays until there is one (`H/daemon.c:274`). `TermExits`
says so: a daemon told to end does, or stays in this wait for ever.

## 4. What is proved

TLAPS checks the theorems of the `_proofs` modules for every value of the
constants that the modules' assumptions admit.

**Bytes_proofs** holds the theorems about the bytes on the serial line and the buffers they
pass through.

*RingBuffer* (any capacity 1..255, any set of items, `RingAssumption`).
`IInv` says that the object is either without storage and empty, or
`m_last` is `m_first + m_size` modulo the capacity. The type alone is not
inductive: `m_size` could be decremented on an empty buffer or the pointers drift apart.
`TypeCorrect` and `PointersAlwaysAgree` follow from it. `RingImplementsDeque`
proves the refinement: for each operation a lemma (`ViewPushBack`,
`ViewPopFront`, `ViewPopBack`) says what it does to the abstract contents,
which rests on modular arithmetic of offsets (`WrapFacts`, `WrapInjective`).

*Codings* (`CodingsAssumption`: any four-byte messages, any codes on the line, any times of 64
bits, any lines with a newline nowhere but at the end, which is how `getline` cuts them, any
flash, any interfaces with addresses of 7 to 15 characters, any rates). Each invariant
(`MessageInv`, `SerialInv`, `ConfigInv`, `AddressInv`, `LineInv`) says that the call shown is the
function's, of some of these inputs; what is left is about the function alone.

* `NeverAnotherMessageHolds`: `MessageInv` says that the text of a call is that of its message after
  as many faults as are counted (`Noise`): one flipped bit, one changed character, or two flipped
  bits. What remains is the CRC. A step of it (`Step`) respects the exclusive or and maps no two registers
  to one, so two texts that differ in one character have different registers from there on
  (`OneInBody`), and how far the registers of two texts are apart (`Apart`) after a flipped bit depends on
  nothing but the number of steps since: `Burst` is the table of these 64 sets of bits. `BurstTable` shows
  that it is what the steps make and that each entry is `Wide`, with a bit below 5 and one above 9. So no
  second flipped bit in the body undoes the first (`TwoInBody`), and no flipped bit in the
  one digit of the CRC makes up for one in the body (`BodyAndCrc`). `OneCharTaken` and `TwoFlipsTaken`
  draw the conclusion: a text that is taken has its body unchanged.
* `CrcIsRemainderHolds`: the register as a set of bits and the register as a number go the same way
  (`HalfBits`, `XorBits`, `DivideStep`), character by character (`DivideByte`, `SerialCrc`); that the text
  consists of bytes is what `MessageInv` gives.
* `DigitsAreBase32Holds`: `AfterDigits` is the state of encode's walk after k digits in closed
  form, the byte it stands in and how far that is to be shifted; `NextDigit` makes of each of the
  thirteen the next one, and a recursive function that agrees with the walk step by step is the walk. That the
  zeros removed are exactly the leading ones is `Places`, the number of digits of a time.
* `TimesReadBackHolds`: `AfterBytes` is the same for decode. Each digit is read back, also as people
  write it (`DigitRead`), so decode cuts the bytes out of the bits encode cut the digits out
  of. It reads twelve digits, which are seven whole bytes: that is why times are below
  2^56, as those of nine digits, of 45 bits, always are.
* `ServerAsConfiguredHolds`: `LineRead`, by whether the line ends in a newline: a `:` before its last
  character is the first of the text as well, a newline adds no digit to a port
  (`NewlineNoDigit`), and of a line without a `:` only the newline is cut off.
* `AddressesFitHolds`: `Listed` is the invariant of the loop of get_ipv4_addresses: what is listed are the
  interfaces to be reached among the first m, m is all seen unless the list is full, and a list that is
  full is not empty. The last part is why main never waits in vain for an address that there
  is: the first one always fits behind a serial number of at most nine characters (`FirstFits`).
  Induction over the interfaces is `UpTo`, which takes the least number that is not in a set
  and rests on the library's theorem that the natural numbers are well founded; the library's own
  induction theorems have an operator as a parameter, which the provers cannot instantiate.
* `EndsAgreeHolds`: `LineInv` says that a call shows the settings both ends make for a rate;
  the rates of the router's table are compared one by one, among them those that the uint16_t cuts.

**SerialRx_proofs** (any capacity 2..255, frame length, `Burst` and `MaxBytes`).
The invariant has the parts
`SizeBehind` (the copy of `m_size` in a register is never ahead of the field),
`NoneInvented` (`m_size` counts no byte that is not there), `Written` (every slot
below m_last was written), `Contents` (without an overrun the unread bytes lie in
order from m_first on), the places that copies and halves of `m_first` can point to
(which rests on arithmetic of `Mix`: two pointers of one page make none but these two), `ItemInHand`, `ItemReal` (what `pop_front` holds is the byte
it took, and a byte that was received) and
`MissedSoon` (the loss the running `pop_front` is about to cause). From it:
`TypeCorrect` (the uint8_t does not wrap), `ReadsInOrder`, `NeverPhantom`,
`StuckBytesBounded`, `OnlyOverrunHeals` (an action property) and
`OneByteCoversOneHit`.

**Relays_proofs**, of the macros (every port state, value, mask and bit): `TypeCorrect`,
`MaskAlwaysRespected`, `BitAlwaysSwitchesRelay`, `PulseAlwaysRestores`, from
the fact that `Mirror` is its own inverse and agrees with `Decode`; and of what a message
of the server does to the relays (any set, number and order of messages of any ints, strings and
other elements, `CloudAssumption`): `OutputsAlwaysAsSaid`. The property speaks of the moments when
nothing is under way, so it is not inductive. `CloudInv` follows the messages between: what
was carried out has made the relays what they are, with the pulse of the moment on top of it
(`RelaysAsDone`), and once what is pending is added the effect is that of what was
said (`PendingAsSaid`). `EffectOfOneMore` makes it inductive: the effect after one more message
depends on the ones before by their effect only. `GoodWriteFacts` is where the handler's
checks, one argument at a time, are shown to accept exactly the well formed writes.

**Daemon_proofs** (any processes, users and number of failures). `OneDaemon` is not
inductive: that two daemons never live together rests on what the script
found out before it started one. `IInv` adds, as long as nobody was hasty, that there is
no pid file and no command under way while a daemon starts (`StartupAlone`), that one
command runs at a time (`OneCommand`), that a script about to start a daemon still
has no file and no daemon before it (`ExecAlone`) and that the file names the daemon that
runs (`Named`). `TypeCorrect`, `OneDaemonOnly` and `PidFileAlwaysNames` follow.

**WebSock_proofs** (any intervals, buffer of 1..255 bytes, texts, failures). `IInv`
follows ready, sock, s_pWs and the timers through every place of the thread: the
properties speak of the loop between two polls, and hold there because of what holds
inside a service call, between the callbacks (`ReadyTracks`, `Armed`, `HandleLives`:
a socket that dies is closed for s_ready_state and a retry is queued before it is gone),
that no socket is left dying after one (`DiesInService`) and that without a context
nothing is due (`NoContext`). From it: `ReadyStateIsTrue`, `RetryIsQueued`,
`LibraryIsUsedWell`, `CloseIsFinal`; `RetriesKeepTheirDistance` adds that the reconnect
timer was never set before the last attempt (`SetAfterAttempt`). `TextStaysInOrder` rests on a
second invariant, `Ordered`: what waits in the buffer is in order and comes after all
that was sent, whichever bytes an overflow or a truncated write took away.

**Frames_proofs** (any frame length from 2 bytes on, `FrameAssumption`) holds no theorem of
a specification but what both ends need about bytes, lines and buffers.

* *The order of frames on any line.* A line loses, damages and flushes bytes wherever it
  likes, so nothing can be said of most of them. What can: only the *last* byte of a frame
  completes a message (`ValidFacts`), and the last bytes on a line are those of
  different frames, in the order in which these were written. `Within(s, a, b, t)`
  says that the last bytes in `s` are those of frames `a + 1 .. b` of `t`, in order and none
  twice; `TakenFrom(d, p, t)` that `d` is taken in order from the first `p`
  frames of `t`. Lemmas carry `Within` through a loss (`WithinSelected`,
  `WithinPart`), a byte stored over another one (`WithinPushed`), a frame or its
  beginning written (`WithinWritten`) and a byte read (`WithinPop`).
* *Accounting on a clean line.* `Rest(s, t, P, i, k)`: `s` is exactly what is to come of
  the frames `t` from byte `k` of frame `i` on, each being `P` bytes on the line (its
  own, and the `'\n'` if the router wrote it). `At` adds what the message
  buffer is then, which is the inductive part: in the middle of a frame it either ends with that
  frame's first `k - 1` bytes, or the frame was cut by one made in the buffer since (`Cut`),
  and then no byte that follows can complete a message before the next frame begins.
  `AtPop`: a byte read makes a message exactly when it ends a frame that
  was not cut. `AtFilled`: a frame made in the buffer cuts one exactly when `Partial` holds.

**AvrNode_proofs** (any frame length, capacity 1..255, set of commands, and any number of
commands, lost bytes, changes and resets: `NodeAssumption`, which asks of the commands
only that they are frames, of `Strays` that they are bytes of some, and nothing of how far `m_size`
may be behind).

* `TypeCorrect` adds to `TypeOK` what a pulse in progress is (`PulseInv`), without which the second
  toggle could touch any pin. That a command in hand is one of `Commands` and
  not a frame that the AVR made in the same buffer is its one deep part: the last byte came off
  the line (`ReadFacts`). `StoreFacts` is what a byte that arrives does to the storage.
* `OnlySentAreDone`: `Order` says that for some `p` the commands done or in hand are
  taken from the first `p` sent, and the last bytes in the receive buffer and on the line are
  `Within` the others, until the storage is `garbled`.
* `FollowersAlwaysUpToDate`: `FollowInv` says of each subscription that it `Agrees` with
  the last report since the reset, including that there is one, and which value it gave;
  that the outputs are only compared at the end of a poll is why the property
  speaks of `pc = "idle"`.
* `OnlyNotificationsLose`: `Account` says that on a line that loses nothing, at each moment,
  commands done, in hand and cut in two are those that have come out of the
  receive buffer (`At`), and that while a command is in hand no next one has begun to come, so that
  an answer made in the buffer cuts nothing. When m_size is 0 what is left to come is the `behind`
  bytes; `AtWaiting` counts the commands that end in them, for any number of bytes.
* `FirmwareImplementsService`: every step is one of `RelayService` or does not show. `RelayFacts`
  brings RelayPort's lemmas over, `HandlerApplies` says that a handler does to the relays what its
  command asks, `HandlerTells` and `ServicePolls` that what is told of the outputs is what they
  are; the service's own condition, that commands are done in order, comes from
  `OnlySentAreDone`.

**RouterPort_proofs** (any frame length, any answers, any requests but PONGs, for
which `H/msg_proc.h:49-54` has no function, and any number of faults: `PortAssumption`).

* `TypeCorrect`: mp_process_message is only ever reached with a frame of the AVR, an open tty
  and storage for the buffer (`InHand`).
* `OnlySaidIsHeard`: the same argument as `OnlySentAreDone`, with `Order` over the bytes the tty has
  received; damaged bytes end no frame.
* `OnlyRequestsLose`: the same accounting, with frames without a `'\n'`; a second
  `mp_init` or an `mp_close` that loses nothing finds all answers accounted for (`AccountForgets`).
* `PongsAlwaysAnswer`: the property is inductive by itself; a step extends the map by one place.
* `RouterImplementsRouter`: each step is one of `AvrNode!RouterNext`. The number of
  commands `AvrNode` allows is kept because a PONG is written for a PING heard, and no more
  is heard than was said (`OrderTaken`).

Only model-checked: liveness (`CommandsGetDone`, `FollowersLearnInputs`, `KeepsTrying`,
`TextLeaves`, `TermExits`), which is outside of what the prover does. Every invariant and every
refinement that a run checks is a theorem.

## 5. Assumptions and limits

* The CRC is perfect in `AvrNode` and `RouterPort`. `NeverAnotherMessage` says what the
  real one gives: no single changed character and no two changed bits make another
  message. Of longer damage 16 bits let about one frame in 65536 through, which no
  property here counts.
* A frame the AVR is writing when it is reset is taken to be written first.
* `B32Coder`: a host with 64-bit little-endian numbers; the overlapping `memcpy` that
  removes leading zeros (`hlk-rm04/tools/serialnum/b32coder.c:179`), which C leaves
  undefined, copies from the front.
* `EndsAgree` takes a rate that is off by one percent as good; it is the tolerance of
  both ends together that counts on the line, and the router's is taken as none.
* After an overrun of `s_rx_buffer` SerialRx promises no order, only that bytes
  are real and pointers in range, and that only for storage without a 256 byte border in
  it; where the linker and malloc put it is not known here. Until both halves of `m_first`
  are stored the item in hand counts as unread: a byte that overwrites it is an overrun.
* The compiler keeps the order of the statements of `pop_front`, keeps the pointer that
  `increment` works on in registers and stores it once, and keeps `push_back`'s accesses inside the
  handler. A torn pointer is not followed past the ends of the AVR's 64K of addresses.
* AvrNode describes interrupts inside pop_front by what SerialRx shows of them: one byte is left
  uncounted for each, and at most one strikes a pop. That it does so is read off the two
  modules, not proved; a storage that an overflow has brought out of order is taken to hold anything
  from then on, although it may come in step again, and the run reads `'\n'` from it.
* libwebsockets destroys a closed socket in the service call that closed it, and
  calls nothing after the protocol is destroyed.
* `Daemon`: a command of the init script is hasty if it is given while another one runs
  or a daemon is between fork and pid file. `OneDaemon` and `PidFileNamesDaemon` speak of
  behaviours without one; with one, two daemons can run, the second of which overwrites
  the pid file of the first: the test, the fork, the unlink and the write are separate steps.
* Counters (commands sent, bytes lost, changes, faults, crashes) are ghosts with a
  bound in the guard of the action that counts them.

Not modelled: formatting and logging; memory management of json-c (a leaked or doubly
released object, `H/a140808.c:116` and `:197`); `SerialPort::close`, which runs when main
returns, and the RS-485 code, which is compiled out; `A/ticks.h` and
`A/one_shot_timer.h`, which are compiled into nothing (the first names timer registers
of another AVR, the include of the second is commented out); the dispatch helpers of
`A/msg_processor.h` that the firmware does not call; the testers, the flashing tools,
build files and OpenWrt patches.

## 6. Findings

1. Bit commands number relays from 1 while messages say 0-7: 0 is relay 5, relay 8
   is out of reach (`relay_port_bit_number`).
2. A notification destroys a half received command (`avr_node_partial`).
   `OnlyNotificationsLoseCommands` shows that on a good line nothing else does, but for the
   commands that wait at the end of the ring buffer (below).

Met on the way, without a run of their own:

* `--m_size` races with the receive interrupt. The extra byte that sp_write sends for
  "bug in atmega32 code" (`H/serial.c:152`) makes up for one interrupt inside a pop_front,
  which is proved; after two, the last byte of a command stays behind, and the command waits
  for the next one. `OnlyNotificationsLoseCommands` counts such commands.
* A storage that malloc puts across a 256 byte border can hand out memory that is not
  its own after an overrun, when the interrupt moves `m_first` between two loads of its
  halves (`SerialRx`, `Sound`).
* Texts longer than 64 bytes are cut without notice (`H/websock.c:171`), and the answer to
  requestIpv4Addresses with the three addresses of `H/a140808.c:71` is one.
* Two daemons can run after hasty commands (section 5), and SIGTERM does not end a
  daemon that waits for an address (section 3, fairness).
* A cloud configuration whose one line has neither newline nor port loses its last
  character (`H/daemon.c:139`), which `ServerAsConfigured` leaves out.
* A PONG for a PING that another program sends can be lost to a request, and the other
  way round; the daemon as it is never polls, so neither happens.

## 7. Plan

Done: sections 2 to 4; every invariant and every refinement that a run checks is proved.
Next, in this order:

1. Corollaries that join the two ends: with the router of `RouterPort`, what the AVR does is
   what was accepted by sp_write, in order.
2. That AvrNode's `behind` and `mixed` are what SerialRx leaves, as a refinement between the
   two.

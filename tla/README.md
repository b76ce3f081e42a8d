# ps2usb, specified in TLA+

ps2usb is the firmware of a small adapter (an ATmega with the V-USB software
USB stack) that makes a PS/2 keyboard and a PS/2 mouse appear as one USB HID
device. This directory holds TLA+ modules translated from its source, TLC
configurations that check them on small instances, and TLAPS proofs for all
values of their constants. Paths below are relative to `src/ps2usb/src/`.

Contents: [inventory](#inventory), [modules](#modules),
[modules and the code](#the-modules-and-the-code),
[runs](#what-the-runs-check), [findings](#findings), [limits](#limits-the-models-showed),
[fairness](#fairness), [proofs](#proofs), [what is abstracted](#abstractions),
[what is not modelled](#not-modelled), [plan](#plan).

## Inventory

The main loop (`main.c:316-348`) calls `usbPoll` and, once configured,
`adjustKeyboardLeds`, `matrix_scan`, `mouse_task`, `vusb_transfer_keyboard` and
`vusb_transfer_mouse`, for ever. Everything else happens in interrupts: INT0
(USB packets, assembler, highest priority, interrupts off, up to a hundred
microseconds or more), INT1 (the keyboard's clock), PCINT1 (raised by the USB
handler for keyboard bits it sampled on the side), TIMER0 (suspend detection)
and the USART receive interrupt (mouse). There is no operating system and no
lock; what protects shared state is which handler re-enables interrupts where.

| Component | State | Operations | Interacts with |
|---|---|---|---|
| Keyboard receiver, `ps2_interrupt.c`, `usbdrv/usbdrvasm.S`, `usbdrv/asmcommon.inc` | `state`, `data`, `parity`, `inhibit`, `ps2_error`, `ps2_err_state`, `requestBit`, `requestBitPrev`, flag INTF1 | INT1, PCINT1, `handleBit`, sampling in the USB handler | fills `pbuf`; `matrix_scan` releases its latch; `inhibit` holds back reports |
| Byte queue `pbuf`, `ps2_interrupt.c`, `ps2_usart.c` | `pbuf`, head, tail | `pbuf_enqueue`, `pbuf_dequeue`, `pbuf_has_data` | receiver to main loop |
| Commands to the keyboard, `ps2_interrupt.c` | `sendMode`, `dataToSend`, `bitNumToSend`, `sendError`, timer 0 | `ps2_host_send`, `sendBit`, `ps2_host_recv_response`, `ps2_host_set_led`, `ps2_host_init` | shares INT1, PCINT1, `parity`, `ps2_error` and `pbuf` with the receiver |
| Scan code decoder, `matrix.c` | static `state` of `matrix_scan` | one byte per round | drives the matrix |
| Matrix and report, `matrix.c`, `keyboard.c` | `matrix`, `keyboard_report`, `mods`, `kbuf`, `last_data` | `matrix_make`, `matrix_break`, `matrix_clear`, `register_code`, `unregister_code`, `send_system`, `vusb_transfer_keyboard` | endpoints 1 and 3, `suspendMode`, `inhibit` |
| Keymap, `keycode.h`, `keymap_common.h`, `keymap_plain.c` | constant tables | `keymap_key_to_keycode` | a position of the matrix gives a usage |
| Lock LEDs, `main.c` | `vusb_keyboard_leds`, `keyboard_leds` | `adjustKeyboardLeds` | host's SET_REPORT, keyboard commands, `unregister_code`, stops TIMER0 |
| Suspend detection, `main.c`, `asmcommon.inc` | `inTokenRec`, `timer0_count`, `suspendMode` | TIMER0, IN token handler, `sendRemoteWakeUp` | `register_code` |
| Control endpoint, `usbdrv/usbdrv.c`, `main.c` | `usbRxLen`, `usbMsgLen`, `usbTxLen`, `usbTxBuf`, `usbDeviceAddr`, `last_req` | `usbPoll`, `usbProcessRx`, `usbBuildTxBlock`, `usbFunctionSetup`, `usbFunctionWrite`, token and data handlers | sets `vusb_keyboard_leds` and `usbConfiguration` |
| Interrupt-IN endpoints, `usbdrv/usbdrv.c` | `usbTxStatus1`, `usbTxStatus3` | `usbGenericSetInterrupt`, token handler | reports to the host |
| Descriptors, `usbdrv/usbdrv.c`, `usbconfig.h`, `report.h` | constant data, report structs | `usbDriverDescriptor` | tell the host how to read the reports |
| Mouse, `mouse.c`, `ps2_usart.c` | `mod3BytesCounter`, `mbuf`, the USART's `pbuf` | `ps2_mouse_init`, receive interrupt, `mouse_task`, `vusb_transfer_mouse` | endpoint 3, shared with `send_system` |
| Bit-level USB, debug output, ms timer, vendored files | bit timing | - | - |

What makes each of them correct, and where it is hard:

- **Receiver.** Every falling edge is handled exactly once, in order, although
  three parties may take it and `handleBit` itself can be interrupted. When the
  USB handler must drop edges, an error is found, is visible to the main loop
  and is cleared in the end; no byte is made up.
- **Queue.** A bounded queue; full and empty stay apart when indices wrap.
- **Commands.** A command collides with a byte from the keyboard, its bits come
  late, it gets no answer or that of another byte, or runs while the error latch
  is set; still the keyboard obeys only what was sent, and every command ends.
- **Decoder.** Whatever the prefixes, postfixes, repeats, missing break codes,
  the matrix is the set of keys held.
- **Report.** No key twice or stuck; more keys than slots, full queue, suspend
  between press and release; what the host reads are the keys pressed.
- **LEDs.** The keyboard's lamps end up as the host's locks, every stroke counts
  once and no lock key is left in the report.
- **Suspend.** A counter of eight bits read and reset from an interrupt, with
  tokens in between: a host that polls is not taken for asleep.
- **USB.** A report replaces one that the token handler is about to send, data
  toggles, control transfers that are abandoned, resets, lost handshakes.
- **Mouse.** A counter changed on both sides of an interrupt, waits without a
  bound, commands cut in the middle, bytes that come too early.

`PROJECT.json` lists these hazards at their lines with the properties that cover
them.

## Modules

| Module | What it is |
|---|---|
| `ByteQueue` | `pbuf` as its clients see it: `First`, `Rest`, `Put`. |
| `BoundedFifo` | What `pbuf` promises: a FIFO that holds `Capacity` bytes, drops when full and answers 0 when empty. |
| `RingBuffer` | `pbuf_enqueue` and `pbuf_dequeue` on the array, `pbuf_head` and `pbuf_tail`; `Contents` is the refinement mapping to `BoundedFifo`. The mouse's `pbuf` is the same code; `kbuf` and `mbuf`, which only the main loop uses, compute their indices alike. |
| `Ps2Frame` | A frame, and `handleBit` as a function over the receiver's globals; `Ps2Receiver` and `Ps2Host` are built on it. |
| `Ps2Receiver` | The receiver with its interrupts, the keyboard's clock, USB packets and the three steps of `matrix_scan` that touch it. |
| `Ps2Host` | Commands to the keyboard bit by bit, the keyboard's side of them, answers, retries, and frames that a command cuts. |
| `ScanDecoder` | The switch of `matrix_scan` as a function of state and byte; make and break sequences of thirteen keys, one of every kind in the tables of `matrix.c`. |
| `Keycodes`, `Keymap` | Key codes and their kinds (`keycode.h`), and the code at every position of the matrix. |
| `HidReport` | One function per C function of the matrix and report, over one record. |
| `KeyPath` | Composes queue, decoder, report, endpoint and host: what a user types, one byte after the other, up to the last report the host has. |
| `Descriptors` | The descriptors of `usbdrv.c` and the report structs as bytes. |
| `HidHost` | How a host enumerates, finds the report descriptor of an endpoint and reads a report by it. External. |
| `KeyHost`, `MouseHost` | `KeyPath` and `Mouse` with such a host at their end: the property `HostReads`. |
| `Lamps` | Lock keys, the host's locks, `adjustKeyboardLeds`, the keyboard's lamps, and the timer that commands stop and that looks for a suspended bus. |
| `Mailboxes` | What an interrupt-IN endpoint promises: a box for one report, delivered once and in order, or lost. |
| `UsbDevice` | The USB driver: `usbPoll` in its three parts against the packet handler and a host; implements `Mailboxes`. |
| `MouseBoot` | `ps2_mouse_init`, `ps2_host_send_mouse`, the mouse's answers and the receive interrupt. |
| `Mouse` | `MouseBoot`, then the main loop's part: `mouse_task`, `mbuf`, endpoint 3. |
| `MC...` | Values for TLC; `MCKeyPath` also joins `KeyHost` with `Keymap`. |
| `Ps2Frame_proofs` | Lemmas about `handleBit` and frames that the proofs about receiver and commands share. |
| other `..._proofs` | The theorems about the module they are named after. |

`Ps2Host`, `UsbDevice`, `Lamps`, `KeyPath` and `Mouse` cut the firmware where
one part sees another through a narrow interface: `Lamps` takes a command of
`Ps2Host` and a request of `UsbDevice` as a step each, `KeyPath` and `Mouse` take
an endpoint of `UsbDevice` as the mailbox that module is shown to implement (a
lossless one, see [abstractions](#abstractions)).

Operators whose name ends in `Bug` are variants of the definition that follows
them, each with one plausible mistake. No specification uses them; replacing
the definition by its variant shows that the property it is listed with in
`PROJECT.json` can fail.

## The modules and the code

### Ps2Receiver

| TLA+ | Code |
|---|---|
| `rx` | the globals of `ps2_interrupt.c:62-86`; `accepted` and `dropped` are history |
| `handlers` | the stack of INT1 handlers that have enabled interrupts, innermost first, with the program counter in `handleBit` and the value of `state + 1` read so far |
| `intf1`, `pcint`, `masked`, `inPcint` | INTF1; the pin change flag; INT0 masked until PCINT1 has run; PCINT1 running |
| `usb`, `mailbox` | r22/r23 in the packet handler; `requestBit`/`requestBitPrev` |
| `line`, `level` | the bits the keyboard still has to clock; the data line |
| `INT1`, `BitIgnored`, `ReadState`, `WriteState`, `SwitchState` | the INT1 handler up to `sei()`, then `handleBit`: its early return, the two halves of `state++`, its switch |
| `PacketBegins`, `SampleEdge`, `PacketEnds`, `PacketForgets` | the ways through `usbdrvasm.S` and `asmcommon.inc` as far as they take, pass on or forget edges; `again` is the jump to `waitForJ` when the next packet is already there |
| `PCINT1`, `PCINT1Return` | the handler's samples, then the edge it finds at its end |
| `Fetch`, `LookAtError`, `Decode` | the lines of `matrix_scan` that take a byte, look at `ps2_error` (`matrix.c:228`) and look at it again before the switch (`:268`) |
| `scan`, `code` | how far a round of `matrix_scan` has come, and with which byte |

`state++` is split because both halves are separate instructions with interrupts
enabled, and an edge held back by a packet is handled as soon as the packet ends:
between the halves. The rest of `handleBit`'s switch is one step: it is reached
in a few instructions, and the next edge is at least 60 us away unless a packet
intervened; that case is what `heldUp` and the count `overtaken` stand for.
`LookAtError` clears `ps2_error` and then `ps2_err_state` in one step: while the latch
is set every bit is ignored, so nothing can happen between the two that could not
happen before both. An error that comes after it makes `Decode` forget the byte; the
error is left to the next round, which forgets one more.

### Ps2Host

| TLA+ | Code |
|---|---|
| `fw` | the receiver's globals of `Ps2Frame` and `sendMode`, `dataToSend`, `bitNumToSend` (`bitNum`), `sendError`, the level the firmware drives on the data line; `odd` is `parity` while sending; `timer` is what TCNT0 says about the last bit: "short", "long", or "any" when it was stopped or has wrapped |
| `main` | where the main loop is: "begin" before `ps2_host_send`, "sending" in its wait for `sendMode`, "answer" in `ps2_host_recv_response`, "booting" at the end of `ps2_host_init`, "loop" otherwise; the byte in turn and the tries left |
| `kb` | the keyboard: idle, clocking a frame or clocking a command in; answers and keys it has to send; its lamps |
| `sendBit` (`GiveUp`, `PutBit`, `CheckAck`), `Verdicts` | `sendBit`; whether the timing test finds the bit late |
| `BeginSend` | `init_ps2_host_send`; with `stray`, the edge of its own `clock_lo` is picked up by a USB packet before EIFR is cleared, and handled as a bit received (after `ps2_error` has been cleared, so an error it makes stays) or as bit 0 |
| `KeyboardTakes`, `KeyboardSends` | a falling edge and its handler; `way` says whether the edge is handled before the keyboard looks ("prompt"), by PCINT1 ("pcint"), after it may have looked ("late") or never ("lost") |
| `SendReturns`, `Answer`, `NoAnswer`, `Proceed` | the rest of `ps2_host_send`, an answer or the timeout of 25 ms, and what `ps2_host_set_led` does with it |

An edge and its handler are one step here; how an edge reaches its handler is
`Ps2Receiver`'s subject, which is why its outcomes are the four ways.

### KeyPath, Keymap and Descriptors

A round of `matrix_scan` is one action, in the code's order: break a Pause left
by the round before; take a byte; if an error is recorded, forget byte and
decoder state; if the byte is 0, stop; otherwise decode and update matrix,
report and `kbuf`. `ScanOvertaken` is the round in which a frame is spoilt between its
two looks at `ps2_error`: the byte is left out and the decoder stays where it is.
`adjustKeyboardLeds` is the call in which it finds a LED changed: it takes the key of
that lock out of the report, held or not, and leaves the matrix alone. It comes at any
time and for any lock, since another keyboard may have changed the lock. The receiver
is reduced to a frame that begins (`inhibit`), and is received, spoilt (which sets the
latch) or ignored while the latch holds.
Keyboard and host are the environment: the keyboard sends the bytes of a key
once those of the last event are out, in the order of the tables; one physical
key is at one position; with Shift held an arrow key is sent with its prefix and
postfix. `KeyAt` is the keymap; the runs give it the value of `Keymap!keymaps`,
the proofs only that no key is at two positions. History: `intact` (every byte got into
`pbuf`), `dropped` (a report found `kbuf` full), `crowded` (a key found no slot),
`cleared` (`matrix_clear` ran).

`Keymap` writes `KEYMAP_ALL` as the permutation it is and numbers the names as
`keycode.h` does. `Descriptors` writes each descriptor as items; `HidHost` parses
them (lengths, report sizes and counts, usages, logical ranges) into fields, and
reads the bits of a report by the fields. `HostReads` compares what is in the matrix,
or what the mouse said, with what the host makes of the bytes. For the lock keys it
and `ReportTracksMatrix` ask only that none is in the report that is not in the matrix
(Num Lock, which is reported when it is released, apart): a held one may have been
taken out.
`DescriptorsAssumption` lists the fields that the parser finds in the descriptors of
`usbdrv.c`. It has no parameter: TLC evaluates it whole, and a mistake in a
descriptor, a length or a count makes it false.

### Lamps

`held`, `keys` and `kbuf` are the report as far as lock keys are in it. `Press` and
`Release` are `matrix_make` and `matrix_break`: Num Lock is reported when it is
released. `AdjustBegins` and `AdjustEnds` are `adjustKeyboardLeds` before and after
`ps2_host_set_led`, during which `usbPoll` runs and the host may send other
lamps. `timer` holds the timer interrupt's state; `Look` is the interrupt at the
end of a window up to its test of `inTokenRec`, `Forget` the rest of it, with the tokens
that come in between. `bus` says whether the host polls: `whole` that it has
polled since the period began, `tokens` those of the period, `total` those since
the last clearing.

### UsbDevice

| TLA+ | Code |
|---|---|
| `dev` | `usbRxLen`, `usbRxToken`, the packet received, the token in `usbTxBuf[0]`, `usbTxLen` with the packet, `usbMsgLen`, `usbMsgFlags`, `usbNewDeviceAddr`, `usbDeviceAddr`, `usbConfiguration`, `vusb_keyboard_leds`, `last_req`, `usbTxStatus1/3`. `id` and `from` name the request and offset a packet is from |
| `PollRx`, `PollTx`, `PollReset` | `usbPoll`'s three parts; packets come between them |
| `SendSetup`, `SendData`, `StatusOut`, `ReadControl`, `ReadReport` | a transaction: the host's token, what `handleSetupOrOut`, `handleData`, `handleIn`, `handleIn1` or `handleIn3` do with it, and the host's view; a transaction may be missed by the device or its answer unseen by the host |
| `Report` | a caller of `usbSetInterrupt` that has found the endpoint ready |
| `Abandon`, `ResetBegins`, `ResetEnds` | the host gives up a transfer or resets the bus |

### MouseBoot and Mouse

`Script` is `ps2_mouse_init`: commands with their answers, and bytes that are
read besides. `SendWhole`, `SendUnheard` and `SendCut` are the ways through
`ps2_host_send_mouse`: all waits succeed, the first one fails, or a later one
does after `cut` bits; the mouse then reads ones (`CutByte`, `CutParity`). The
USART takes an answer after a cut command one bit too early (`Shifted`) unless the
cut was at the last bit. `Take` is the receive interrupt. In `Mouse` the
subtraction `mod3BytesCounter -= 4` is `LoadCounter` and `StoreCounter`, because
interrupts are enabled; `hist.races` counts increments lost between them.

## What the runs check

| Run | Shows | Bounds |
|---|---|---|
| `ring` (`RingBuffer.cfg`) | `ImplementsFifo`: the ring is the bounded queue | 4 slots, 3 bytes: every pair of indices, wrap-around, full and empty occur. The module has no bound on the number of operations. |
| `receiver` (`Ps2Receiver.cfg`) | `ExactReception`: without accidents, one `handleBit` per edge, in order, by whichever way the edges go. `NoFabrication`: a lost edge loses bytes but invents none. `LatchVisible`: a latched error is one `matrix_scan` sees. `InhibitTracksFrame`: reports are held back exactly while a frame is received | 2 frames of two bytes of different parity (so that one frame's remains meet the next), 2 lost edges (a packet loses at most two), 1 overtaking. 4.8 million states. |
| `receiver_live` (`Ps2ReceiverLive.cfg`) | `LatchReleased`, `EveryByteDecoded`: with fair interrupts a latched error is released and a byte sent undamaged is decoded | 2 frames of one byte (contents do not matter for progress), 1 lost edge, a queue of one byte so that it does fill. |
| `keys` (`KeyPath.cfg`) | `MatrixTracksKeys`: with all bytes received the matrix is the set of keys held. `ReportTracksMatrix`: the report has no key twice, none that the matrix has not and, until one finds no slot, all it has but for lock keys; modifiers agree; also after receive errors and when the host's LEDs take a lock key out | 6 keys of different sequences, Num Lock and Caps Lock among them, 2 slots (three keys held exceed them), 4 events (keys, or changes of the host's LEDs), 1 accident. 2.1 million states. |
| `special_keys` (`KeyPathSpecial.cfg`) | `MatrixTracksKeys` for F7, Alt'd PrintScreen, Control'd Pause; `SystemReleased`: a system control counts as pressed only while its key is held, with suspend and resume at any time; `HostReads`: the host accepts the descriptors and reads in the reports the usages of the keys and modifiers in the matrix, and of the system control that was sent; lock keys may be missing | 6 keys, and Scroll Lock by a spoilt Control'd Pause, 3 events (keys or changes of LEDs), 1 accident, and all 6 slots of the report as the descriptor declares them. |
| `keys_live` (`KeyPathLive.cfg`) | `HostConverges`: in the end the host holds exactly the keys held | 4 keys, 3 events, `pbuf` and `kbuf` of 2 so that both fill. No accidents: with one the property exempts the behaviour anyway. |
| `commands` (`Ps2Host.cfg`) | `NoAlienCommand`: the keyboard never obeys a byte that was not sent. `LampsFollow`: when the command returns, the lamps are as told. `AnswersConsumed`: no answer is left to be taken for a key. `ReceiverInStep`: the receiver is at the start of a frame afterwards. `CommandEnds` | the reset and one lamp command with 2 tries of each byte (a retry is enough to succeed after one accident; the code has 5), one typed key, one accident; lamps whose byte has ones on both sides of a zero. 355,433 states. |
| `usb` (`UsbDevice.cfg`) | `OwnData`: no packet is taken for the answer to another request. `AnsweredInFull`: nothing stalled or missing without a fault. `AddressAgrees`. `LampsAsTold`: the lamps are only what a lamp request carried. `LossBounded`: a missed transaction costs two reports at most. `ImplementsMailboxes`: reports arrive once and in order. `TransferEnds` | packets of 2 bytes; replies that end in an empty packet, are limited by the host, or whose empty last packet is never asked for; 4 requests (address, configuration and two more), 3 reports, 1 missed transaction, 2 abandoned transfers or resets. 832,605 states. |
| `mouse` (`Mouse.cfg`) | `AnswersInStep`: each answer is read by the command it is for, and the mouse ends as an enabled wheel mouse. `NeverWaits`: `mouse_task` never blocks. `CounterLags`: the counter is exactly as far behind as bytes came early or increments were lost. `ReportsExact`, `HostReads`: the reports are the motions, clamped, as the descriptors say. `AllReported`, `SystemKeyTold` | two motions at the ends of their ranges, the wheel's too, and with an overflow, 3 packets (so that a later one meets the remains of two), a queue of 6 bytes that fills, `mbuf` of one, a counter that wraps at 11, 1 fault, 1 early byte, 2 system key events. 1.2 million states. |
| `lamps` (`Lamps.cfg`) | `NotSuspendedWhilePolled`: the timer does not take a polling host for asleep, also when a command has stopped it. `LightComesBack`. `LocksSettle`: lamps and locks agree and Num Lock is out of the report in the end. `EveryStrokeCounts`. `SleepNoticed` | all three locks, 2 strokes here or on another keyboard, 1 sleep. A window of two periods and a counter of two values instead of 101 and 256: the counter's turn is then ordinary. 200,927 states. The proofs are for every window and size. |
| `overrun`, `deaf` | violations, see below | 1 key; one command without accidents. |

`CHECK_DEADLOCK FALSE` is in `Mouse.cfg` and `Lamps.cfg` only: with the bounded
number of motions, strokes and sleeps used up, mouse, host and user may all
have stopped, and the main loop's rounds without anything to do are no steps of
these modules. Everywhere else a state without a step is an error.

`TypeOK` is proved for every module. It is also an invariant of the runs
`receiver`, `commands` and `usb`, where a wrong step of sender, receiver or token
handler would show as a number out of its range.

## Findings

**An overrun releases no key** (run `overrun`). `matrix_scan` has
`case 0x00: // Overrun [3]p.25` that clears the matrix (`matrix.c:289`), but it
returns before the switch when the byte is 0 (`matrix.c:266`), because 0 is also
`pbuf_dequeue`'s answer for an empty queue. The case is never reached: after an
overrun of the keyboard's buffer, in which a break code was lost, the key stays
down.

**A command may leave the receiver deaf** (run `deaf`). Pulling the clock low is
commented "terminate a transmission if we have" (`ps2_interrupt.c:127`), but
only the keyboard's half ends. `init_ps2_host_send` resets neither `state` nor
`data`, and clears `ps2_error` without `ps2_err_state` (`:123`), which are cleared
together elsewhere (`:405-409`, `matrix.c:240-243`). If the command cuts a frame,
the keyboard's answer is received from the middle of it and makes an error; the
retry then clears the number of the error and not the latch. From then on every bit
is ignored (`:188`), and `matrix_scan`, which looks at `ps2_error`, cannot know.
The trace has no lost or late edge: a key is typed while its lamps are set.

## Limits the models showed

The properties state these as exceptions; none contradicts a statement of the
repository.

- `NoFabrication` is exact about one edge: with two edges lost in one frame the
  parity can agree again and the next frame's start completes a byte the keyboard
  never sent. Once a bit overtakes an earlier one (an edge held up by a packet in
  the middle of `handleBit`), two handlers may write the same `state`, so nothing
  is promised but `LatchVisible`, which holds whatever happens.
- `NoAlienCommand`, `ReceiverInStep`, `LampsFollow` and `AnswersConsumed` are about
  one late edge. A second one can meet the inverted parity that `sendBit`
  sends on purpose (`ps2_interrupt.c:291`) and make it right; and when the last
  clock of a spoilt byte is late too, it arrives after `sendMode` has been
  cleared and is taken for the start bit of a frame.
- `LampsFollow` and `AnswersConsumed` except frames that a command cut. The bits
  left of one and the first of the answer make up a byte, and whether that is an
  error, an answer or a key depends on the key: with the byte of the run `commands`
  both properties hold for cut frames too, with 7F and a second key they do not.
- A keyboard that sent FA or FE for a key would answer commands by it:
  `KeysAssumption` says it does not (no row of the tables of `matrix.c` is FA or FE).
- `ps2_host_recv_response` takes whatever is first in `pbuf` for the answer: a key
  that was typed just before a command costs a retry, and a byte FA left there would
  be taken for an acknowledgement (`hist.stale`).
- A bit that comes late does no more harm than the retries mend, if the
  keyboard answers within the 25 ms.
- `send_system` forgets a press or release that finds endpoint 3 busy, which it is
  while a mouse report waits (`SystemKeyTold`).
- A change of two lamps at once takes only one key out of the report, so Num Lock
  may stay in it after a simultaneous change of Scroll Lock (`main.c:187-194`), and
  the same happens when the host toggles Num Lock twice before it is noticed.
  A second stroke while it is still in the report is then no stroke to the host.
- 256 IN tokens in a window count as none. The window is 101 timer periods of
  10.3 ms, and a host that polls two endpoints every few ms comes near that number.
- `register_code` clears `suspendMode` with the wake key, and the comment
  there takes the suspend for over; a look of the timer before the host polls
  sets it again, which `Lamps` allows. A diode that is dark when the wake key
  clears `suspendMode` stays dark.
- A lock key that is held when the host's LED changes leaves the report, and does not
  come back before it is released and pressed again, while the matrix has it (`main.c:206`): for Num
  Lock, Caps Lock and Scroll Lock the report is not complete.
- An error between the two looks of `matrix_scan` at `ps2_error` costs two bytes: the
  one in hand (`matrix.c:268`), and the one that the next round takes before it finds
  the error.
- A key that finds no slot stays out of the report until it is pressed again, also when
  a slot becomes free while it is held: `ReportTracksMatrix`, `HostReads` and
  `HostConverges` are exact until that happens (`crowded`).
- `-wheel` in eight bits (`mouse.c:106`) is -128 for -128, which is outside the range of
  -127 to 127 that the descriptor declares, so a host ignores it; the two
  directions are limited, the wheel is not (`HostReads`).
- Mouse packets are counted, never resynchronised: a lost byte, one that came
  before `mod3BytesCounter = 0`, or an increment lost in `mouse_task` shifts every
  later packet. A cut command in `ps2_mouse_init` may leave an answer unread or
  one missing; in the second case the wait has no bound (`ps2_usart.c:152`, whose
  `retry` is not used).
- A bus reset shorter than the time between two calls of `usbPoll` is missed. The
  model holds a reset for a round, which the 10 ms of USB allow outside of commands.

## Fairness

`Ps2Receiver!Fairness`: handlers and main loop get strong fairness because
packets may interrupt them again and again, but the bus leaves gaps: the host
sends no packets back to back for ever. A packet ends, a keyboard that has begun a
frame clocks it to its end. Not assumed: that packets come, that the keyboard
sends anything, that lost edges stop (the bound does that in the instance).

`KeyPath!Fairness`: weak fairness of `matrix_scan`, since the main loop calls it
in every round; strong fairness of `vusb_transfer_keyboard`, which finds
`inhibit` set again and again while frames come; the keyboard finishes what it
sends; a host that is not asleep polls. Users need not press anything.

`Ps2Host!FairSpec`: weak fairness of keyboard and main loop, each as a whole. That
the keyboard goes on clocking a command it has begun is the assumption
`ps2_host_send` makes: its wait for `sendMode` has no timeout. It is not assumed
that bits come in time.

`UsbDevice!FairSpec`: `usbPoll` runs in every round and is called by every wait
for the keyboard; a host repeats a transaction that was not answered, and ends a
reset. Nothing forces it to begin a transfer or to poll.

`Mouse!FairSpec`: the boot and `mouse_task` go on, bytes on the line arrive, the host
polls; strong fairness of `vusb_transfer_mouse`, which finds endpoint 3 taken by
system controls again and again. The mouse need not be moved.

`Lamps!FairSpec`: weak fairness of the timer and of tokens; strong fairness of what
the main loop and an awake host do, since the timer interrupt and sleeps of the bus
get in between. Nothing makes a sleeping host resume, and the liveness properties
except it.

## Proofs

For all values of the constants that satisfy the modules' named assumptions.

| Theorem | Property | Argument |
|---|---|---|
| `RingBuffer_proofs!TypeCorrect` | `TypeOK` | directly inductive |
| `RingBuffer_proofs!RingIsFifo` | `ImplementsFifo` | refinement: what `Enqueue` and `Dequeue` do to `Contents` is an append, a tail or nothing, by cases on whether the indices wrap |
| `Ps2Receiver_proofs!TypeCorrect` | `TypeOK` | part of the invariant below |
| `Ps2Receiver_proofs!LatchIsVisible` | `LatchVisible` | see below |
| `Ps2Receiver_proofs!EveryEdgeOnce` | `ExactReception` | see below |
| `Ps2Receiver_proofs!NothingMadeUp` | `NoFabrication` | see below |
| `Ps2Receiver_proofs!InhibitEnds` | `InhibitTracksFrame` | see below |
| `Ps2Host_proofs!HostTypes` | `TypeOK` | part of the invariant below |
| `Ps2Host_proofs!OnlyWhatWasSent` | `NoAlienCommand` | see below |
| `Ps2Host_proofs!CommandsKeepStep` | `ReceiverInStep` | see below |
| `Ps2Host_proofs!AnswersReachTheCommand` | `AnswersConsumed` | see below |
| `Ps2Host_proofs!LampsAsSet` | `LampsFollow` | see below |
| `KeyPath_proofs!TypeCorrect` | `TypeOK` | every result of the decoder is a position below 256, reports stay functions on the slots |
| `KeyPath_proofs!ReportAgrees` | `ReportTracksMatrix` | see below |
| `KeyPath_proofs!SystemIsReleased` | `SystemReleased` | see below |
| `KeyPath_proofs!MatrixTracks` | `MatrixTracksKeys` | see below |
| `KeyPath_proofs!HostReadsCorrect` | `KeyHost!HostReads` | with `Slots = 6`; see below |
| `UsbDevice_proofs!TypeCorrect` | `TypeOK` | part of the invariant below, as for the next five |
| `UsbDevice_proofs!OwnDataOnly` | `OwnData` | |
| `UsbDevice_proofs!AnsweredWithoutFaults` | `AnsweredInFull` | |
| `UsbDevice_proofs!AddressesAgree` | `AddressAgrees` | |
| `UsbDevice_proofs!LampsObey` | `LampsAsTold` | |
| `UsbDevice_proofs!LossIsBounded` | `LossBounded` | |
| `UsbDevice_proofs!RefinesMailboxes` | `ImplementsMailboxes` | refinement: each step is a `Put`, a `Take` or a loss of every endpoint's mailbox, or leaves it alone; by the invariant a report that is taken is not one the host has |
| `Mouse_proofs!TypeCorrect` | `TypeOK` | part of the invariant below |
| `Mouse_proofs!CounterLagsCorrect` | `CounterLags` | see below |
| `Mouse_proofs!NeverWaitsCorrect` | `NeverWaits` | follows from the invariant: a task that reads has seen four counted bytes and taken fewer |
| `Mouse_proofs!AnswersInStepCorrect` | `AnswersInStep` | see below |
| `Mouse_proofs!ReportsExactCorrect` | `ReportsExact` | see below |
| `Mouse_proofs!HostReadsCorrect` | `MouseHost!HostReads` | see below |
| `Lamps_proofs!TypeCorrect` | `TypeOK` | part of the invariant below |
| `Lamps_proofs!NotSuspendedWhilePolledCorrect` | `NotSuspendedWhilePolled` | see below |
| `Lamps_proofs!LightComesBackCorrect` | `LightComesBack` | the count restarts with the look that makes it dark and cannot pass `LightAfter` without lighting it |

*Receiver.* `IInv` conjoins `TypeOK` and `LatchVisible` with `Counted` (a handler
between reading and switching holds a state of at least START: an error is
recorded with the number of the state it was found in, and must therefore not be
0), `MailboxMasked` (samples wait only while INT0 is masked, so no packet begins
over them except by `again`) and `LossBounded`. `LatchVisible` is not inductive
alone: a handler that is about to fail must be known not to fail in state 0.

The other three are about order. An edge that is not yet handled is in one of
five places, and while no bit overtakes another they empty in a fixed order: the
bit of a handler that a packet holds up, the mailbox, the bit of a handler that
has just begun, the samples of a packet, INTF1. `Reached` is the receiver after all
of them, computed with `handleBit` itself; `Current` is a receiver that has taken
what the keyboard has clocked. `EdgesCounted` says that the two are equal while
nothing is lost: a clock appends to both, and every other step moves a bit from
one place to the next. It needs that one handler runs at a time and that nothing
changes the receiver between its read and its write (`HandlersApart`), and how much
each place can hold (`SamplesWait`). With one edge lost `Reached` is related to
`Current` by `MissesOne`: an error is latched, or it has caught up, or it is
one bit behind, up to the next frame's start bit, which it takes for a stop bit;
in each case what it has accepted is a subsequence. `InhibitKept` is the same
for `inhibit` and `state`, for any number of lost edges.

*Commands.* `Inv` conjoins types with a part for each end of the line. `Transmits`
relates the bits the keyboard has read to the byte that is sent. With no bit late
they are equal. The one bit that comes late is the first, whose place a zero
takes, or it is noticed: then `sendBit` goes on with zeros and the wrong parity. In
both cases the keyboard refuses the byte: a lemma says that a byte with one bit
changed has another parity, and a command that was given up has no stop bit. `Receives`
says where in the keyboard's frame `handleBit` stands. `Answers` says where the
answer is: still in the keyboard, or first in `pbuf` with only keys behind it, so
`ps2_host_recv_response` takes that and nothing else. `Lights` says what of the
command has been done and, when it has not, that the late bit is used up and a
try is left. `HostBounds` assumes `Tries >= 2` (5 in the code); with one try a
late bit would lose the command.

*Key path.* `IInv` conjoins `TypeOK`, `InFrame` (a frame in progress has a byte
to deliver) and `Agrees`. `Agrees` says of the record of matrix and report what
survives every single call: the slots hold different keys, each of kind "key"
(so that a released modifier or system key is not looked for there), and, unless
`matrix_clear` has run, each is backed by the matrix, each key of the matrix has a
slot or one has found none (`Complete`), modifiers agree exactly
and a remembered system control has a system key held. It rests on
`ReportAssumption`: no code is at two positions, which TLC evaluates for the
keymap of the code. `Complete` leaves the lock keys aside: `unregister_code` of any other code would
break it, of a lock key it does not (`LedKeeps`). Each function of `HidReport` is shown
to keep `Agrees` in a lemma of its own, so the proof about `matrix_scan` does not depend on which byte
was decoded: the report agrees with the matrix even for byte sequences no keyboard
sends.

`MatrixTracks` adds `Tracks`: from the decoder and matrix as they are, the bytes
that are in `pbuf` or still to be sent lead to the matrix of the keys held. "Lead"
is a trace with a step of `DecodeByte` for each byte, which makes it provable without
induction: a byte decoded removes the trace's first step; a new key event,
which happens only when the keyboard has sent the bytes of the last one, appends the
trace of that key's make or break sequence, found by cases on the thirteen keys.
`HeldApart` says that one position is one key and that a key without a break code
(Pause) is not held.

*USB.* `IInv` conjoins types with: what the host's variables say of each other
(`HostConsistent`); that while a transfer is under way the device has its SETUP
still before it or serves that request (`TransferServed`), which is what `OwnData`
needs, as packets of an abandoned transfer stay in `usbTxBuf` until then; that
without faults both sides agree on bytes and toggle (`ReplyInStep`: what is left in
`usbMsgLen`, what is in the packet and what the host has got add up to the length of
the reply, and `USB_NO_MSG` means the short packet has been built); where the new
address is between `usbNewDeviceAddr`, `usbDeviceAddr` and the host
(`AddressInStep`, `ResetClears`); that `usbFunctionWrite` is armed only by a lamp
request (`LampsInStep`); and that each endpoint has lost at most two reports for
each missed transaction, one fewer while the toggles differ (`LossesPaid`).

*Mouse.* `IInv` conjoins `TypeOK`, `Shape` (a packet in the making has as many
bytes as the place in `mouse_task` says) and `Counts`: queue and counter are
related by `CounterLags`; a task that has begun finds at least four in the
counter; between the two halves of the subtraction the counter has not fallen
below the value that was read; before the main loop there is no packet and no
increment was lost; without faults no byte on its way has an error (one is
counted, not stored). The counter does not wrap because `CounterSize` exceeds
`PbufRoom + 4` (`BootAssumption`; 256 and 32 in the code).

Its order is a second and a third part. `InScriptStep` says, for each number of steps
of the script that are done, what the mouse awaits, how much of the knock it has heard
and its type, and that the bytes on their way (in `pbuf`, the USART and the mouse)
are the acknowledgement, unless it has been read, and those that the script reads
besides. Each command is then the one the mouse awaits, and a command is only sent
when nothing is left to read. `InOrder` says that the reports that are out (with the
host, in endpoint 3, in `mbuf`) are those of the first motions, and that the packet
in the making and the bytes on their way are the packets of the others, four bytes
each, in order. That a byte passed on leaves the whole sequence as it is, is two
lemmas about sequences (`HandOver`, `FirstOfTwo`). `ReportIsWanted` shows that a packet
turned into a report is the motion within the limits, from the nine bits and the
overflow flags, for every motion a packet can say.

*What the host reads.* Parsing the descriptors is a closed computation, so its result
is an assumption that TLC evaluates (`DescriptorsAssumption`), and the proofs begin at
the fields. A field is read bit by bit: `WholeByte` says that eight bits at a byte's
beginning are that byte, `OneBit` that a single one is the bit of that weight, whatever
bytes follow; `ReadValues`, `ReadArray` and `ReadSigned` say what a field tells of the
numbers in it. For the keyboard, `ModByte` is split into its eight bits and the six
slots are six bytes, so the host reads the modifiers and slots of the state
(`ReadKeyboard`); by `Agrees` these are the modifiers of the matrix, and its keys but
for lock keys that a LED has taken out. The
theorem is about a report of six slots, as many as the descriptor has
(`REPORT_KEYS`): with another number the struct and the descriptor would not fit.
For the mouse, each signed byte is read as the number it was made from
(`SignedIs`), and by `ReportsExact` the report in endpoint 3 is the one of the
packet that is due.

*Lamps.* `IInv` conjoins `TypeOK`, the two properties and `Counted`: `inTokenRec` is
the number of tokens since it was cleared as long as that is below its size; and
from the second period of a window on, the tokens of the last period are among
them. A whole period has a token (the guard `Due`), so a look at the
end of a window finds one, also of a window that `timer0_init` has cut short.

The bounds `MaxFrames`, `MaxLost`, `MaxEvents`, `MaxErrors`, `MaxPackets`, `MaxFaults`,
`MaxStrokes` and the like are constants of the specifications, so the theorems hold
for every value of them.

Two things that the proofs turned up were corrected in the models. Guards of a
`CASE` that overlap leave open which arm is taken, where the code's `if ... else if`
does not: those are now `IF ... ELSE IF`. And `ReceiverInStep`, `LampsFollow` and
`AnswersConsumed` did not name the second late bit or the cut frame that refute
them, as the run's bounds hid both (see [limits](#limits-the-models-showed)).

Model-checked only: all liveness (`LatchReleased`, `EveryByteDecoded`,
`HostConverges`, `CommandEnds`, `TransferEnds`, `AllReported`, `SystemKeyTold`,
`LocksSettle`, `EveryStrokeCounts`, `SleepNoticed`), which is out of the prover's
reach. What the descriptor parser computes is evaluated by TLC, for the descriptors
of the code; the theorems about `HostReads` take it from `DescriptorsAssumption`.

## Abstractions

- **Time.** The 60 us between edges and the length of packets appear only as what
  they make possible: two edges in a packet at most, a handler interrupted by an
  edge only if a packet held it up. The instruction or two that run after an
  interrupt returns are not an extra place for the main loop to be interrupted.
  In `Ps2Host` a keyboard answers a command within the 25 ms of
  `ps2_host_recv_response` if at all, and has clocked the rest of a command within
  the 3 ms that `ps2_host_send` waits. In `MouseBoot` the mouse's half clock is at
  least 30 us, so that `ps2_host_send_mouse` keeps in step unless a wait times out,
  and its self-test is over when it is first commanded (`ps2_host_init` waits 2500
  ms) except in the runs' fault. In `Lamps` a host that is awake polls at least once
  in a period of the timer.
- **Interfaces.** `Ps2Receiver` is about the receiver between commands (`sendMode` 0);
  what a command does to it is in `Ps2Host`. `KeyPath` and `Mouse` have
  endpoints that lose nothing, and a host that does not poll a suspended device;
  what a lost handshake costs is in `UsbDevice`. `Mouse` begins its loop with USB
  configured.
- **Typing** does not begin during `ps2_host_init`, which commands the keyboard
  before the device is connected.
- **Debug state.** `ps2_error_data`, `lastTenKeys`, the dump that P triggers in
  suspend (`keyboard.c:172-177`), the keys that switch the mouse's interrupt for
  debugging (`keyboard.c:150-162`) and time samples of the sender are left out.
- **Bytes.** `parity` counts ones in eight bits in the code and is only read
  modulo 2 or as a truth value; the models keep it modulo 2.
- **Decoder and receiver.** In `KeyPath` the latch is released between frames; that
  it may be released in the middle of one is explored in `Ps2Receiver` (`resync`).
- **Suspend.** In `KeyPath` `suspendMode` changes at any time; `Lamps` has its counter.
- **Lock keys.** In `KeyPath` a change of the host's LEDs is an event of its own, not
  the answer to a report, and the command to the lamps with what it does to the bytes
  is `Ps2Host`'s; `Lamps` closes the loop from lock key to host and back. Liveness
  (`HostConverges`) sets lock keys aside.
- **USB transactions.** Token, data and handshake are one step. The few instructions
  the main loop may execute in the bus's pauses between them are taken to run before
  or after the transaction.
- **Requests.** `UsbDevice` has one kind of read for all requests that only reply,
  and no SET_IDLE and endpoint stall. The toggle and CRC of received packets are not
  checked by the code, so the host's lost packets are those the device misses.
- **USART.** The receive interrupt is one step: it enables interrupts after the
  count, but the main loop goes on only when it has returned.
- **External.** Keyboard, mouse, USART and host are modelled from how the code
  uses them.

## Not modelled

Bit-level USB (timing, unstuffing, CRC; V-USB's assembler), beyond what it does to
keyboard edges and the address; debug output (`oddebug.c`); `timer.c`, whose clock
the loop does not read; the Atmel framework and the assembler variants for other
clocks; `clear_keys` and `send_consumer`, which nothing calls (consumer keys end in
an empty branch, `keyboard.c:198-200`); the serial number string, of length 0.
One oddity of the descriptors is outside what a host does: the HID descriptor
is chosen by the low byte of `wValue` (`usbdrv.c:569`), the report descriptor by
`wIndex` (`:577`), and `HidHost` asks for each the way the code expects it.

## Plan

Done: every component of the inventory except the last, each with its run, and
the theorems above.

Every safety invariant and action property that a passing run checks is stated by a
theorem, and so are both refinements. What is left to TLC is liveness. A next step
would be to compose `KeyPath` with `Ps2Receiver` and `UsbDevice` in one module
instead of through their narrow interfaces. Modules to be proved about use recursive
functions or folds and no RECURSIVE operator.

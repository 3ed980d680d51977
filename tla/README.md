# BM-Lite host: a TLA+ model

This directory is a formal model of the host side of the FPC BM-Lite port to the
nRF52840-DK: the SDK in `BMLite_sdk`, the board support in `HAL_Driver/src` and the
example application in `BMLite_example`. A host processor drives a fingerprint module
over SPI with a small framed protocol, HCP. The modules below follow the C code
function by function; `PROJECT.json` gives, for each definition, the lines it stands for.

## Inventory

| Component | State | Operations | Works with |
| --- | --- | --- | --- |
| Application, `main.c` | `current_id`, `btn_time`, `hcp_chain` | one loop: button → enroll or erase, identify, wait for finger up; resets the module on TIMEOUT | command layer, button, LEDs |
| Command layer, `bmlite_if.c` | `chain->phy_rx_timeout`, saved and put back; counters of attempts | `bep_*`, `sensor_*`: build a packet, exchange it, read arguments | packets, transport |
| Packets, `hcp_tiny.c` 39-139 | `pkt_buffer`, `pkt_size`, `arg` | `bmlite_init_cmd`, `bmlite_add_arg`, `bmlite_get_arg`, `bmlite_copy_arg` | command layer |
| Transport and link, `hcp_tiny.c` 141-306 | `pkt_buffer`, `pkt_size`, `txrx_buffer`, `bep_result`; locals `seq_nr`, `seq_len`, `data_left`, `p`, `com_result` | `bmlite_tranceive`, `bmlite_send`, `bmlite_receive`, `_tx_link`, `_rx_link` | platform read and write, CRC |
| CRC-32, `fpc_crc.c` | none | `fpc_crc` | link |
| Platform, `platform.c` | locals `start_time`, `curr_time` | `platform_bmlite_receive` (wait for IRQ, timeout, button), `platform_bmlite_send`, `platform_bmlite_reset`, `platform_init` | clock, button, pins, SPI |
| Clock and button, `hal_timebase.c` | `systick`, `button_pressed_time`, `btn_press_start`, `btn_pressed` | timer interrupt every millisecond; `hal_timebase_busy_wait`, `hal_timebase_get_tick`, `hal_get_button_press_time`, `hal_check_button_pressed` | platform, application, LEDs |
| SPI, `hal_spi.c` | `spi_xfer_done` | `hal_bmlite_spi_write_read` in rounds of 255 bytes, completion interrupt | platform, nrfx driver |
| Board, LEDs, callbacks | pins | set-up, output | all |
| nrfx, CMSIS, Nordic SDK | vendored | | |

How they interact: everything but two interrupts runs in one thread. The timer
interrupt shares `systick` and `button_pressed_time` with the main program, the SPI
interrupt shares `spi_xfer_done`. The module at the far end of the bus is a concurrent
process of its own; its only signal is the IRQ pin. The command and its reply share
`pkt_buffer`, every frame sent or received passes through `txrx_buffer`.

What is hard here, and what would make each component correct:

- *Transport*: commands and replies span several frames, any of which may be lost,
  damaged or late; a call may be broken off anywhere and the module may still be
  sending. Correct: a command is executed as it was built, a reply is the one to this
  call, an error leaves nothing behind that a later call would take for its own, and
  every call with a timeout returns.
- *Packets and commands*: command and answer share one buffer, the answer may be broken
  off, lack what is asked for or have it twice, and `arg` keeps pointing into it. Correct:
  the module gets exactly the command that was asked for, or none; what is handed out
  is in the answer to it; nothing is written or read past the end of a buffer.
- *CRC*: a table nobody reads. Correct: it is the one of the polynomial, and no short
  burst gets through.
- *Platform*: IRQ, the deadline and the button race; the reset waits on a clock that has
  to run. Correct: data is transferred only with IRQ up, TIMEOUT is neither early nor much
  too late, a press ends the wait, the module gets its time to start.
- *Clock and button*: an interrupt in the middle of any statement, and a counter that
  goes round. Correct: delays and press lengths are exact across the wrap, and no press
  is lost.
- *Command layer and application*: an error in the middle of enroll, a press that stays
  on record, resets only after some errors. Correct: what is saved was enrolled, a
  failure does not pass for success, the loop gets back in step with the module.
- *SPI*: the completion interrupt against the test-and-sleep loop, empty rounds.
  Correct: chip select frames the transfer, every transfer ends.

## Modules

| Module | Models | Kind |
| --- | --- | --- |
| `HcpExchange` | what `bmlite_tranceive` promises (`hcp_tiny.h`) | abstract specification |
| `HcpTransport` | `hcp_tiny.c` 141-306 with the module and the bus | detailed, implements `HcpExchange` |
| `HcpTransportProofs` | theorems about `HcpTransport` for every caller and every bus | proofs |
| `HcpExchangeProofs` | theorems about `HcpTransport` with a caller that resets, or a quiet bus; the refinement | proofs |
| `Timebase` | `hal_timebase.c` | component |
| `Platform` | `platform.c`, composed with `Timebase` | composition |
| `PlatformProofs` | theorems about `Timebase` and `Platform` | proofs |
| `ArgList` | what the packet functions promise (`hcp_tiny.h`) | abstract specification |
| `HcpPacket` | `hcp_tiny.c` 39-121, the bytes of a packet | detailed, implements `ArgList` |
| `HcpPacketProofs` | theorems about `HcpPacket` | proofs |
| `BmLiteIf`, `MCBmLiteIf` | the single commands of `bmlite_if.c`, over `HcpPacket` | composition |
| `BmLiteIfProofs` | theorems about `BmLiteIf` | proofs |
| `Crc`, `MCCrc` | `fpc_crc.c` and its use in `_tx_link` and `_rx_link` | algorithm, against division |
| `CrcProofs` | theorems about `Crc` | proofs |
| `SpiTransfer` | what `hal_bmlite_spi_write_read` promises | abstract specification |
| `HalSpi` | `hal_spi.c` with the driver `nrfx_spi.c` | detailed, implements `SpiTransfer` |
| `HalSpiProofs` | theorems about `HalSpi` | proofs |
| `BmLiteApp` | `main.c` and the functions of `bmlite_if.c` it calls | component, over the results of `bmlite_tranceive` |
| `BmLiteAppProofs` | theorems about `BmLiteApp` | proofs |

### HcpTransport and HcpExchange

`HcpTransport` has one action per access to the bus; what the host computes between
two accesses belongs to the earlier one.

| Code | Action |
| --- | --- |
| entry of `bmlite_tranceive` with a packet of `n` bytes | `Tranceive(n)` |
| a turn of the loop of `bmlite_send` up to the write in `_tx_link` | `TxLinkWrite` |
| the read of the ACK, and what follows from it | `TxLinkAck`, `TxLinkAckTimeout` |
| the read of four bytes in `_rx_link` | `RxLinkHeader`, `RxLinkHeaderTimeout`, `ButtonEndsWait` |
| the read of the body, the CRC, the ACK, and the turn of `bmlite_receive` | `RxLinkBody`, `RxLinkBodyTimeout` (`CheckCrc`, `Reassemble`) |
| `platform_bmlite_reset` by the caller | `HwReset` |

`pc` says which of the accesses comes next. A byte is a tuple of origin, call and
position, so that any mix-up of frames, calls or offsets shows. The CRC is taken to be
perfect: it is right exactly when the body in `txrx_buffer` is whole and of the length
the header announced. `txrx_buffer` keeps its contents between frames, which is what makes
the ignored read of a body (line 224) visible.

The module and the bus are outside the repository and are modelled from what the host
expects: the module acknowledges a frame that is the first or the next, executes a
complete command, sends the frames of a reply each as header and body, and goes on when
the host acknowledges. `Late` names what may come after the host has given up, be it for
its timeout or for the button. `Untimed` are the calls made with `phy_rx_timeout` 0, as those
that wait for a finger are: the reads of an ACK and of a body have timeouts of
their own, but in such a call the wait for a header ends by IRQ or by a press only
(`platform.c` 63-67). A press is `ButtonEndsWait`, for which there is no fairness. `Faults` are a damaged write
or read, a spurious IRQ and a restart. `ResetOn` is the policy of the caller.

`HcpExchange` is a call and an answer: whole commands, executed at most once, `OK` only
with the reply to the running call, `TIMEOUT` only for a command that was executed,
`NO_MEMORY` only for a reply that fills the buffer. The refinement mapping takes `busy` from `pc`,
`answer` from what the module executed and `reply` from `pkt_buffer`, `pkt_size` and `bep_result`.

### Timebase and Platform

The timer interrupt runs to completion: `Tick` is `timer_event_handler` with
`check_buttons`. The main program is cut at each access to a shared variable:
`GetRead`/`GetClear` are the two statements of `hal_get_button_press_time`, `WaitStart`
and `WaitCheck` the two reads of `systick` in `hal_timebase_busy_wait`.
`systick` is a word of `W` values.

`Platform` begins where the program does. `op` says where `platform_init` is: `BoardInit`,
`TimebaseInit` (from which on `Interrupt` may happen), then `platform_bmlite_reset` as
`ResetLow`, `ResetHigh`, `ResetReturn`, with the wait of `Timebase` between them. Later the
application may reset the module at any time. `platform_bmlite_receive` is one action per
poll in the order of the C expression: `PollIrq`, `PollTick` (skipped when `timeout` is 0),
`PollButton`, then `ReadDone` for the SPI transfer; `Send` and `WriteDone` are
`platform_bmlite_send`. In between the interrupt runs and the pin may rise.

### ArgList, HcpPacket and BmLiteIf

`HcpPacket` has the bytes of `pkt_buffer`, so that a size put in the wrong place or added
wrongly shows. `InitCmd` and `AddArg` are one action each; `bmlite_get_arg` is `GetArg` and a
`WalkTurn` for each turn of its loop. `ReplyArrives` and `ReplyBreaks` are what
`bmlite_tranceive` leaves in the buffer, as `HcpTransport` shows it: a whole answer, or
some of one over the command, with the old or the new size. `packet` is a history variable:
the arguments that were put in, or sent. `ArgList` knows lists only: a command grows
at its end, a search finds the first argument with the key, or says there is none, and
what it found is forgotten when the buffer changes. The refinement mapping takes the list
from `packet` and what was found from the bytes `arg` points to.

`BmLiteIf` takes each function of `bmlite_if.c` that is one exchange to be a record of what
it sends and how it takes an argument from the answer:

| Code | Action |
| --- | --- |
| `bmlite_init_cmd` in any of the functions | `Call(f)` |
| `bmlite_add_arg`, and the `assert` around it | `Build` |
| `bmlite_send` fails; `bmlite_receive` returns OK; it fails | `SendFails`, `ReceiveWhole`, `ReceiveFails` |
| the search for `ARG_RESULT` at the end of `bmlite_tranceive` | `LookForStatus`, `StatusFound` |
| `bmlite_get_arg` or `bmlite_copy_arg`, and what is done with the argument | `LookForArg`, `ArgFound` |
| the turns of the walk of either | `Walk` |

Values and names of functions, commands and keys are those of the code. The data are
small numbers; the module answers with any arrangement of status, the argument asked for,
once, twice or not at all, and others; an answer may have neither. The turn of
`bep_enroll_finger` that reads `ARG_COUNT` without looking whether it is there is `enroll_add`.
What it reads then is `LeftAtArg`: the status just found, or else what an earlier search has left
`arg.data` at, which is NULL until one finds something; `AtNull` stands for the contents of
address 0.

### Crc

A byte and a 32-bit word are the sets of the bits that are 1 in them, and `^` is their
symmetric difference. TLC's integers have 32 bits with a sign, so the words of
`crc32_table` are written down as halves, entry for entry. `NextByte` is a turn of the loop of
`fpc_crc`; `TxLink`, `TxWrite`, `RxLink` and `RxCheck` are its two callers.
`RegisterIsRemainder` compares the register after every byte with long division, one bit
at a time (`Divided`, `Remainder`), which takes nothing from the table. `PassesIffIntact` is
what `HcpTransport` assumes of the CRC, for the damage a CRC of 32 bits is meant to
notice: a burst of up to 32 bits, and a bus that nothing drives and that reads zeros. Other
damage gets through once in 2^32 times, whatever the code does. `lnk_size`, in the header in front,
is not part of what the sum covers: `_rx_link` reads as many bytes as it says.

Two assumptions of the module are facts about numbers, which TLC evaluates in the run: each of the
256 words of the table is what eight bits of division make of its index (`TableAssumption`), and
no division of up to `MaxBody` zeros comes back to its beginning (in `CrcAssumption`; `MaxBody`
is 248, which is `MTU` less the header and the sum, so that no frame is longer).

### HalSpi and SpiTransfer

The build uses the driver without DMA (`sdk_config.h`), so a transfer is a sequence of
single bytes moved by the READY interrupt. `SpiInterrupt` is `irq_handler` up to
`spi_event_handler`, in one step. The main program is cut wherever the interrupt may
come: `Call` and `Select` up to the driver, `Xfer`, `XferSecondByte` and `XferEnable` in
`nrfx_spi_xfer`, then `TestDone` and `Wfe` for the loop `while (!spi_xfer_done) __WFE()`.
The peripheral (two bytes deep in each direction) and the event register of the processor
are modelled from their use by the driver. `SpiTransfer` counts bytes under chip select;
its `wire` and `size` are those of `HalSpi`, its `phase` comes from `pc` and `cs`. It allows
the byte of finding 4, which is why `NoExtraByte` is a question of its own.

### BmLiteApp

One call of `bmlite_tranceive` is one step, in which it returns: `com` is its result and
`bep` what it leaves in `chain->bep_result`. `Tranceive` holds what the modules below it
show about such a call: it times out only with a timeout set or a press on record, and
fails otherwise only on a disturbed bus or because the button breaks a read off.

| Code | Action |
| --- | --- |
| the top of the loop of `main` | `Turn` |
| `bep_version`, `bep_template_save`, `bep_template_remove_all` | `Version`, `Save`, `Erase` |
| one attempt of `bep_capture`, and its return to either caller | `Capture` |
| `sensor_wait_finger_not_present`, in `bep_enroll_finger` and in `main` | `Wait` |
| `bep_enroll_finger` | `EnrollStart`, `EnrollNext`, `EnrollAdd`, `EnrollFinish` |
| `bep_identify_finger` | `Identify`, `IdentifyExtract`, `IdentifyMatch` |
| the `if` behind it | `Identified` |

`confirmed` (what the module has carried out in the running function) is a history
variable. The reset of the module is `HwReset` of `HcpTransport`. A local variable that is
out of scope is set back, so that it does not tell states apart.

## Runs

| Run | Asks | Bounds |
| --- | --- | --- |
| `transport_disturbed` | Do all safety properties and the refinement hold with two disturbances, late ACKs and headers, and a caller that resets after IO_ERROR and TIMEOUT? | frames of 2 bytes, buffer of 5, two calls, commands of 1 to 2 frames and replies of 1 to 4 |
| `transport_clean` | Does every pair of sizes get through on a quiet bus? | frames of 3 bytes, buffer of 12, sizes on both sides of each multiple, two calls |
| `transport_returns` | Does every call with a timeout return, everything late, nothing reset, and does one without wait for nothing but a header of a silent module? | two calls, the second without a timeout, two disturbances |
| `transport_stale_body` | finding: a late body | |
| `transport_no_reset` | finding: the reset policy of `main.c` | |
| `platform` | From `platform_init` on: are resets, delays and press times right across the wrap, does a read keep its timeout and its IRQ discipline, and does everything end? | `W` = 6, every start of `systick`, delays and timeouts 0 and 2, presses up to 4 ticks, at most a tick between two steps, reset of 1 + 1 ticks |
| `timebase_lost_press` | finding: a press between read and clear | `W` = 8, up to 2 ticks between two steps |
| `commands` | Is what is sent what was asked, what is handed out in the answer, and are the bytes a list of arguments? | buffer of 24 bytes, one of six commands that leave much behind, then any of the 31 in `MCAll`, answers of 0 to 2 arguments and of 0, 3 or 8 bytes, receptions broken off after 0 or 10 bytes, or with a frame left out there and those behind it stored |
| `crc` | Is the table right, and is every burst and a body of zeros noticed? | frames of 6 and 7 bytes, every byte as payload, bursts of up to 7 bits at every place, and of 8 to 32 with two, all or every other bit |
| `spi` | Does a transfer clock its bytes under chip select, in order, and end, the driver never busy? | rounds of 4 bytes, up to 3 of them, with and without a remainder |
| `spi_full_round` | finding: sizes that are a multiple of a round | |
| `app_loop` | Timeouts put back, matches and enrolments earned, presses acted on? | 3 enroll captures of up to 3 attempts, 2 ids, disturbed bus, restarts |

Why these bounds are enough to be interesting: with frames of 2 or 3 bytes the sizes
include one frame, an exact multiple (an empty last frame), several frames, a reply
that exactly fills the buffer and one that does not fit; two calls are what it takes for
one to leave something behind for the next; two disturbances allow one to hide another.
With `W` of 6 `systick` goes round inside a press, a delay and a timeout. Rounds of 4
bytes are longer than the peripheral is deep, so the interrupt has a first, a middle and a
last byte. Three enroll captures make one that fails, one that is added and one that completes.
A buffer of 24 bytes is filled to the last byte by `bep_template_put` of 12 bytes
and is too small for one of 13; its answers
are as long, with the argument asked for in front and behind. Offsets are two bytes in the
model as in the code, and an area of 65537 bytes is cut to 1. One payload byte takes the
CRC register through all 256 entries of the table, and a burst of more than one bit crosses from
payload to CRC at the end of the frame.

The findings, with the lines they quote, are in `PROJECT.json`:

1. `_rx_link` ignores a failed read of a body and may return an older frame as the reply.
2. `_tx_link` reports a late ACK as IO_ERROR, after which `main.c` does not reset; the next
   call returns the reply to the one before.
3. A press recorded between the two statements of `hal_get_button_press_time` is lost.
4. A transfer of a multiple of 255 bytes clocks one byte too many.

`transport_disturbed` therefore leaves out late bodies and resets after IO_ERROR too:
under those two conditions the transport keeps its promise, and without either it does not.

Met while modelling, but not shown by a run: `main.c` (111-112) saves a template whatever
`bep_enroll_finger` returned; `bep_image_put` sends an image of 65536 bytes or more as
its remainder (the parameter of `bmlite_add_arg` is a `uint16_t`); `bep_image_get` and
`bep_template_get` cut the size of the caller's area in the same way, so that one of 65537 bytes gets a
single byte of the image, with OK, where `bmlite_if.h` (115-118) promises truncation only of
what does not fit (`AnswerHonest` is stated, checked and proved with the cut); `_rx_link` keeps a negative
result in a `uint16_t` and gets it back only because of `--short-enums` (`nordic.mk`:29);
`hal_board.c` (87) enables the task of a pin that was set up without one.

Fairness: `FairSpec` of the transport assumes that the host's processor runs on and that
the module does what it has begun; the host's timeouts, where
there is one, are steps of the host, nobody need press the button, and nothing is
assumed of the bus. `PrFairSpec` assumes that the timer keeps
ticking once `hal_timebase_init` has started it (nothing stops it) and that the main program
is not stopped in the middle of a function. IRQ and the button owe nothing. `SpiFairSpec`
assumes that the processor runs when it is not asleep, takes the SPI interrupt, and that
the peripheral clocks; the timer interrupt, which would wake a processor that sleeps
through the last SPI interrupt, is not relied on. `AppFairSpec` assumes that an exchange
returns if it has a timeout or a press is on record, which is what `EveryCallReturns`,
`ReceiveReturns` and `ReceiveBreaks` show; a wait for a finger need not end.

The button of `Timebase` is let go before `MaxHold` ticks, and the main program takes
a step at least every `MaxLag` ticks: in the code a turn of a waiting loop takes
microseconds and `systick` goes round in 49 days. `lag` and `held` keep those bounds;
they, `elapsed`, `waited`, `steady`, `lastPress`, `unread` and `broken` are history variables.

## Proofs

`HcpTransportProofs` proves, for all frame and buffer sizes, command and reply sizes,
reset policies, sets of faults and numbers of calls that satisfy `TransportAssumption`
and `WidthAssumption`:

- `TypeCorrect`: `Spec => []TypeOK`. In particular `p` and `pkt_size` never pass the end
  of `pkt_buffer`, which no bound in the model enforces.
- `CommandSentWhole`: `Spec => []SentWhole`. The number of frames computed at the start
  of `bmlite_send` and the way the loop cuts them agree for every size.

Neither is inductive by itself. The invariant `Inv` adds `FramesLeft`, which relates what is
left of the command to the frame number (each frame but the last takes exactly `APP_MTU`
bytes, so the last one takes the remainder, possibly none), and `ReplyLeft`, which
says that what is left of the module's reply is within its size. Each action preserves
`Inv` by a lemma of its own; the arithmetic of `FrameCount` is isolated in lemmas about
division.

`HcpExchangeProofs` proves what the runs `transport_disturbed` and `transport_clean` check, for
all sizes, numbers of calls, commands and disturbances. The theorems need one of two hypotheses,
which are assumptions of the theorems and not of the module, because without them the code
breaks the properties (findings 1 and 2):

- `Recovers`: no body comes after the host has given up on it, and the caller resets the
  module after IO_ERROR and TIMEOUT. ACKs and headers may be late, and `Faults` may hold any of
  the disturbances. `transport_disturbed` is an instance.
- `Prompt`: no disturbances, nothing late, and resets, if any, only after IO_ERROR and
  TIMEOUT. This is `main.c` on a quiet bus; `transport_clean` is an instance.

Under `Recovers`:

- `CommandsArriveIntact`: `Spec => []CommandIntact`;
- `RepliesAreOurs`: `Spec => []ReplyIsOurs`;
- `RepliesAreDrained`: `Spec => []ReplyDrained`;
- `TransportImplementsExchange`: `Spec` implements `HcpExchange`, if the caller does not also reset
  after OK (then `HcpExchange` would have to see the reset; no caller does).

Under `Prompt`:

- `CleanExchanges`: `Spec => []CleanExchangeSucceeds`; `CleanExchangesAreSound`:
  `Spec => []ReplyIsOurs`.

The properties speak of the end of a call; what it returns rests on what was on the bus when it
began, on how far the module has got with each frame and on where the frames sent so far
lie in `pkt_buffer`. `SafeInv` says that for each place in the code: a call begins with nothing of a
reply left on the bus or in the module (`Between`, where the reset of `Recovers` is used); what the
module has assembled and what the host has sent agree frame by frame (`Building`, `Sending`, `Written`,
`Acked`); the bodies on the bus are frames of the reply to this call, in order, and while
`com_result` is OK `p` is where the next one belongs (`Read`, `Reply`). `CleanInv` says more: no
call has failed, the two sides take turns, and the frame the host waits for is on its way. Both were
checked by TLC on the bounds of the runs before they were proved.

`BmLiteAppProofs` proves, for every limit of attempts and number of ids, with a disturbed
bus or without:

- `AppTypeCorrect`: `AppSpec => []AppTypeOK`, the limits of the loops included.
- `AppWaitsBounded`, `AppMatchHonest`, `AppEnrollHonest`: the three invariants of the run
  `app_loop`.

The invariant `AppInv` says for each place in the code what is so far known: `Timeouts`,
which timeout is set and which one is to be put back; `Attempts`, that the body of the
enroll loop runs below its limit; `MatchEarned` and `EnrollEarned`, how much of an
identification or enrolment the module has confirmed by then. The invariants alone say
this for the end only, and no step would preserve them.

`HcpPacketProofs` proves, for every number of values of a byte, every size of the buffer below
four times a 16-bit word (`PacketAssumption`; the code has 5120), every command, key,
data and reply, and every content a failed reception may leave:

- `PacketTypeCorrect`: `PkSpec => []PkTypeOK`. `pkt_size` never exceeds `pkt_size_max`, and the
  walk of `bmlite_get_arg` reads at most eight bytes behind the buffer, whatever is in it.
- `PacketAlwaysEncoded`, `WalkAlwaysInStep`: the bytes are those of the arguments that were
  accepted, and the walk goes from one beginning to the next.
- `PacketImplementsArgList`: `PkSpec` implements `ArgList`, with the refinement mapping of
  `HcpPacket`.

The three invariants rest on each other, so they are proved together as `PkInv`, with two
additions: `Counted` (each argument of a command takes at least four bytes, so the 16-bit number
of arguments cannot go round before the buffer is full) and `Settled` (while the buffer holds no
valid packet no search counts as answered). The lemmas in front are about bytes and words: a
word in two bytes reads back, and storing at one place leaves the others.

`BmLiteIfProofs` proves, for every list of functions called one after the other, every size
of the buffer that fits a `uint16_t`, and all data the module sends:

- `IfImplementsPacket`: `IfSpec => PkSpec`. The functions use the packet functions as `HcpPacket`
  assumes they are used, and what `Answers` lets the module send is a well-formed packet, so
  the theorems of `HcpPacketProofs` hold of it; `IfSearchesArgList` is the last of them.
- `IfTypeCorrect`, `CommandsAsAsked`, `AnswersHonest`, `CopiesFit`, `StatusesReadAsCount`: the
  invariants of the run `commands`. `AnswersHonest` is exact: a copy has all of the data, or as
  many bytes as the size of the area, cut to 16 bits, says. Below 65536 that is truncation for want
  of room, as `bmlite_if.h` has it; above, it truncates also where there is room.

`IfAssumption` says of a function what its C types and its use of the answer say (`IsFunction`):
fields are of 16 bits, a number that is read has two or four bytes, and none of these functions asks
for `ARG_RESULT` or `ARG_ID` itself. A byte has 256 values. TLC evaluates the assumption in the run.
That the module answers with a number of the size it is read with is in `Answers`.

The properties speak of a function that has returned. `IfInv` follows it there: while it builds
its command, the packet is the first part of what is asked for, and what it has yet to add is the
rest (`Asking`); then the packet is the answer, or is broken and the function on its way to return
an error (`Answered`); once its status has been looked for, `bep_result` is that status and
`arg` still points at it (`StatusTaken`), which is why the count `bep_enroll_finger` reads without
looking begins with that status and, after a failure, is not 0. After an OK it may be, and an answer
without any status leaves `arg` wherever it was: `StatusesReadAsCount` does not speak of that. That the module reads back the whole command (`ReceivedIs`) is an
induction over its arguments. The library's induction theorems cannot be instantiated here, so
`EveryNumber` does it with a set of numbers, from the well-foundedness of `<`.

`PlatformProofs` proves of `Timebase`, for every width of `systick` and every delay that ends before it has gone
round once (`TimebaseAssumption`):

- `TimebaseTypeCorrect`, `PressTimesExact`, `DelaysKept`: `TbSpec` implies `[]TbTypeOK`,
  `[]PressTimeExact` and `DelayKept`.

The code compares words, the properties speak of lengths. `TbInv` adds that the difference of
the words is the length: of a press for as long as the button is known to be down
(`Pressing`), of a wait for as long as it lasts (`Waiting`, which also says that the last look at
the clock found it early). Four lemmas about words in front carry all arithmetic modulo `W`.

`PressesLostByClearOnly` says what is left of `PressKept` beside finding 3: no step but the clear in
`hal_get_button_press_time` takes an unread press off the record.

and of `Platform`, for every timeout, `RESET_TIME` and clock width within
`PlatformAssumption`:

- `ReadsWhenReady`: `PrSpec => []ReadOnlyWhenReady`. `ReadInv` adds why the code behind the loop
  can tell the two ways out of it apart: the clock is looked at only if there is a timeout; and that
  no reset, which takes the pin down, runs during a call.
- `ClockTypeCorrect`, `ClockPressTimesExact`, `ClockDelaysKept`: `TbInv` also holds while the
  platform functions use the clock.
- `ResetsKept`: `PrSpec => ResetKept`. `ResetInv` has `steady` count along with the delay of the
  clock (`Steadied`) at each place of a reset.
- `TimeoutsKept`: `PrSpec => TimeoutKept`. `CallInv` says that `systick` is as far from
  `start_time` as the call has waited, and that its last look at the clock, at most two other
  polls ago (`Polls`), was early.

`HalSpiProofs` proves, for every `ROUND` and every size whose rounds a `uint8_t` can count
(`SpiAssumption`):

- `SpiTypeCorrect`, `DriverNeverBusy`: `SpiSpec` implies `[]SpiTypeOK` and `[]NeverBusy`.
- `SpiImplementsTransfer`: `SpiSpec` implements `SpiTransfer`.
- `ExtraByteOnlyBehindRounds`: what is left of `NoExtraByte` beside finding 4. Never is more than one byte
  too many on the wire, and none in a transfer that is not of whole rounds.

`SpiInv` accounts for every byte of a round: behind the wire, on its way out, on its way in, or
read (`Running`); two are under way until the driver runs out of them, none when the flag is set
(`Over`). `Cut` says where the round lies in the transfer and `Data` what number each byte
has, from which follows that the wire of `SpiTransfer` is that of `HalSpi`, the extra byte of
finding 4 included.

`CrcProofs` proves, for every content and every length up to `MaxBody` of a body, and every burst
of up to 32 bits at any place of the body or of its sum (`TableAssumption`, `CrcAssumption`):

- `CrcTypeCorrect`, `RegistersAreRemainders`, `FramesPassIffIntact`: `CrcSpec` implies
  `[]CrcTypeOK`, `[]RegisterIsRemainder` and `[]PassesIffIntact`.

TLC's run has two damaged bodies of six and seven bytes; these theorems are what `HcpTransport`, with its
`CrcMatches`, rests on for all the others. The argument is algebra. To take in a bit that is 0 is
linear, loses nothing, and moves a word whose lowest bit is 0 down by one. From the first follows that
eight bits may be taken in at once, with a table looked up by the low byte and a shift
(`TableStep`), so the loop of `fpc_crc` divides. For a damaged frame, take the difference of the two
registers, of the body sent and of the body read (`DifferenceStays`): it is empty until the burst
begins, and then never equal to what the burst has left to do, since from one bit to the next
both go through the same step, which loses nothing. At the end of the body, what is left is
the damage done to the sum; were the sum right, the two would be equal. A frame of zeros is its own
sum only if dividing zeros comes back to its beginning, which the assumption excludes; and a frame that
was zeros when it was written would be its own sum too. `CrcInv` carries this to the check: what lies on
the bus is a body and its sum, and what was read is that or what became of it (`Received`). TLC checked
`CrcInv` with shorter lists of bodies and bursts before it was proved. `Remainder` is a recursive
function; what it computes is an induction over the bytes, done with `EveryNumber` as in `BmLiteIfProofs`.

Only model-checked: liveness (`EveryCallReturns`, `ReceiveReturns`, `TransferEnds` and the like),
which is out of the prover's reach, and the two facts about numbers above, which TLC evaluates. All
safety properties of the passing runs are theorems. The findings are counterexamples and need no proof.

## Not modelled

- The Nordic SDK, nrfx, CMSIS and the start-up code, which make up nearly all lines of the
  repository: vendored and, apart from the SPI driver in `HalSpi`, used through single calls
  without a protocol of their own. The code written for this port is modelled but for the
  items below.
- LEDs and callbacks: output only, patterns with the delays of `Timebase`.
- The registers `hal_board_init` and `nordic_bmlite_spi_init` write.
- What the module means by its numbers and images, and answers with numbers shorter than they are
  read; images of 65536 bytes and more in `SentAsAsked`.
- The 50 ms in front of `bep_sensor_reset` and behind a match: a delay as in `DelayKept`.
- Permanent faults of the bus: the number of disturbances is bounded, and a host that resets
  after each failure recovers from each separately. With IRQ held high and the bus at zero,
  the frame of an empty body passes its CRC and the loop of `bmlite_receive` would not end.

## Plan

The two fixes the findings ask for (a body that failed to come, a late ACK), once the code has them,
in `HcpTransport`, to prove the transport without `Recovers`.

# Verification of the service device firmware

TLA+ models, TLC runs and TLAPS proofs for the firmware in `src/`: a hand-held
LoRa service device built on Zephyr 3.0. A host computer types commands on a
UART; the device answers them, answers test packets that arrive on the radio,
and measures the packet error rate (PER) of a link. The same tree holds
`rts-zephyr`, a module with the ultra-wide-band ranging code of the product
family (DW1000 driver, two-way ranging, position service) and some small
drivers.

Paths below are relative to `src/`; `main.c`, `common.h` and `common.c` stand
for `app/src/main.c` and `app/src/libs/service_device_common.{h,c}`, and
`zephyr.lst` for `app/cmake-build-release/zephyr/zephyr.lst`.

- [1. Inventory](#1-inventory)
- [2. Modules and what they stand for](#2-modules-and-what-they-stand-for)
- [3. Runs](#3-runs)
- [4. Assumptions](#4-assumptions)
- [5. Proofs](#5-proofs)
- [6. Disagreements between code and comments](#6-disagreements-between-code-and-comments)
- [7. Not modelled](#7-not-modelled)
- [8. Plan](#8-plan)

## 1. Inventory

### Components

| component | code | state | operations |
|---|---|---|---|
| command loop | `main.c:114-241`, `common.c` | `atomic_cur_state`, `atomic_per_num`, `atomic_freq`, `atomic_sf`, `lora_cfg` | one case per state: receive, answer a packet, PER measurement, print or change the modem configuration, stop |
| command handler | `main.c:13-111` | `uart_buf_rx`, UART reception on or off, one work item | `event_cb`, `work_uart_data_proc_handler` |
| LoRa reception | `common.c:70-80`, sx12xx driver | `modem_usage`, `async_rx_cb`, `operation_done`, radio mode | `lora_config`, `lora_send`, `lora_recv`, `lora_recv_async`, DIO handler, `sx12xx_ev_rx_done`, `sx12xx_ev_tx_done`, `lora_receive_cb` |
| terminal output | `common.h:115-126`, `main.c:13-27` | `atomic_uart_tx_done`, the UART transmitter | `send_to_terminal`, `UART_TX_DONE` |
| two-way ranging | `modules/rts-zephyr/subsys/meshposition/mesh_twr.cc` | four time stamps, sequence number | `twr_intiate`, `twr_respond`, `uwb_ping`, `uwb_ping_rx`, `uwb_cir_acc` |
| meshposition | `.../meshposition/meshposition.cc` | last status, tables of the configuration | `mp_rx_now`, `mp_rx_after_tx`, `mp_receive`, `mp_request`, `mp_send`, `mp_send_at`, `mp_request_at`, `mp_start`, JSON conversions |
| Decawave library | `.../drivers/uwb/deca_device.c` | the registers of the DW1000 | `dwt_starttx`, `dwt_rxenable`, time-outs, buffers, time stamps |
| DW1000 port | `.../drivers/uwb/dw1000.c` | SPI configuration, antenna delays, interrupt work item | start-up, SPI transfers |
| COBS | `.../subsys/cobs/cobs.c` | none | `cobs_encode`, `cobs_decode` |
| LED strip, LED utilities | `.../ws2812_pwm_stm32.c`, `.../led_utils.c` | pixel buffer | `update_rgb`, `led_hsv2rgb`, `led_gamma_correction` |
| EEPROM | `.../eeprom_st25dv.c` | mutex | bounded read and write (not modelled, section 7) |
| vendor and third-party code | `deca_range_tables.c`, `json.hh` | | |

### How they interact

Three contexts run: the thread `common_task`, the system work queue (thread
`sysworkq`), and interrupts. Both threads have priority 0 (`K_THREAD_DEFINE` at
`main.c:243`, `CONFIG_SYSTEM_WORKQUEUE_PRIORITY=0`) and
`CONFIG_TIMESLICE_SIZE` is 0.

```
 host line --UART irq--> event_cb --k_work_submit--> work_uart_data_proc_handler
                                                      | writes curState, perNum,
                                                      | freq, sf; re-arms the UART
 packet ----DIO irq----> k_work_submit --> SX1276OnDio0Irq --> sx12xx_ev_rx_done
                                                      | lora_receive_cb:
                                                      | stops reception, writes curState
                                                      v
 common_task: switch (curState) -> lora_* calls -> atomic_cas(curState, served, next)
       \______________________ send_to_terminal ______________________/  (both threads)
```

Shared between the contexts: the state word and its argument words; the modem
(`modem_usage`, one flag for both threads); the pointer to the poll signal,
which lies on the stack of the call in progress; `atomic_uart_tx_done` and the
UART transmitter; `uart_buf_rx`, written by DMA and parsed by the handler.

The ranging code is a library on other boards of the family. Each node runs one
call at a time; the nodes share the air. Within a node the program and the chip
share the registers: the program writes when to send, whether and when to
listen afterwards, and for how long; the chip sets bits that the program polls
and clears.

```
 initiator                      responder
 twr_intiate                    twr_respond
   mp_request  --twr_1_poll-->    mp_rx_now, mp_receive
   mp_receive  <-twr_2_resp---    mp_request_at (poll_rx_ts + delay)
   mp_send_at  --twr_3_final->    mp_receive, formula over six time stamps
   (resp_rx_ts + delay; carries poll_tx, resp_rx, final_tx)
```

### What is hard here

- The state word has three writers and only one of them uses compare-and-set.
- A job is served from a snapshot of its argument, and the modem is configured
  from a structure (`lora_cfg`) that is changed before the driver agrees.
- `lora_receive_cb` calls the driver back from inside a driver event.
- `lora_send` and `lora_recv` time out while the interrupt handler that would
  answer them may already be at work in the other thread.
- A cooperative thread that asks again without blocking stops the thread it
  waits for.
- `send_to_terminal` was written for one caller and has two.
- UART reception is armed again by the handler of the previous line; if one
  handler fails to do so, or nobody arms it first, the device is deaf.
- The line buffer is never cleared and is parsed without its length.
- The polling loops of the ranging have no limit of their own: they rely on a
  time-out programmed earlier, for a receiver the chip turns on by itself.
- A delayed transmission may already be late when it is programmed.
- Each call clears only the status bits it looked for.
- Time stamps of unsynchronised 40-bit counters, cut to 32 bits, meet in one
  formula; one of them is predicted, not measured.

`PROJECT.json` lists these at their lines under `hazards`.

### What makes each component correct

| component | property |
|---|---|
| command channel | exactly one owner: UART, queue or handler; never lost, never overwritten (`CommandChannel`, `CommandsHeard`) |
| state word | a request made while another job runs is found when that job ends (`LatestRequestSurvives`) |
| modem | never leaked, never cleaned up twice (`ModemAccounted`); comes back to reception (`ReceptionResumes`) |
| modem configuration | what GET_CFG prints is what the radio is tuned to (`CfgPrintIsTrue`, false) |
| driver calls | no pointer to a dead stack frame (`SignalInScope`); every call returns (`EveryJobEnds`) |
| PER measurement | STOP stops it (`StopAborts`) |
| terminal output | no caller waits for ever (`NoLostWakeup`, `EveryCallReturns`); only a call that met another one, or a transfer left behind, loses its message or rewrites a buffer in use (`NothingDropped`, `BufferStable`); messages of a thread go out in order and at most once (`KeepsPromise`) |
| command line | a well-formed line is understood whatever came before it (`CommandsAreHeard`) |
| ranging calls | a polling program has something to wait for (`NeverDeaf`); `TXFRS` is that of its own frame (`SentMeansSent`); no call leaves a receiver on (`CallReturnsQuiet`); every call returns (`EveryCallReturns`) |
| ranging protocol | delays and time-outs fit together (`AnswersFindReceiver`); the predicted time stamp is true (`FinalStampTrue`, false), and errs by the antenna delay only (`FinalStampOff`); the result is the time of flight but for that error (`RangeIsFlightTime`) |
| COBS | decoding an encoded message gives the message (`CobsRoundTrip`); no zero inside a frame, bounded length (`CobsFrames`); a damaged frame is decoded within bounds and in place (`CobsDecodesInPlace`) |
| LED colours | no seam in the colour wheel (`ColoursAreContinuous`); channels fit bytes |

## 2. Modules and what they stand for

### `Printer` and `Terminal`

`Terminal` models `send_to_terminal` step by step. A step of a thread is one
access to the flag or one call of `uart_tx`, with the two UART interrupts
running beside it.

| model | code |
|---|---|
| `txDone` | `atomic_uart_tx_done` |
| `line`, `sender`, `sending` | the UART driver: `buffer_length # 0` (`dma`), the last byte leaving (`shift`) |
| `ClaimAndSleep`, `WakeAfterClaim`, `ClaimFails` | the loop around `atomic_cas` at `common.h:118-120`, which leaves when the flag is *clear* |
| `UartTx` | `uart_tx`, whose `-EBUSY` is ignored |
| `Return` | the polling loop at `common.h:123` sees the flag set |
| `DmaComplete`, `TxDoneEvent` | `uart_stm32_dma_tx_cb`, and the TC interrupt with `UART_TX_DONE` in `event_cb` |
| `clash` | history: the last call of a thread met another call, or a transfer that an earlier one had left to the UART |

A thread may call whenever it is outside, whatever the other does, as
`common_task` and the work queue do. Two callers then share one flag: the second
passes the loop at once, its `uart_tx` may be refused, and it may return at the
end of the other's transfer.

`Printer` says what `send_to_terminal` still promises, without flag or
interrupt: messages of a thread go out in order and at most once, every call
comes back, and a call that has the printer to itself comes back when its
message is out and its buffer free. A call that clashes may come back at any
time, its message lost or on the way. `Terminal` implements it (`KeepsPromise`).
`clash` is exact where it matters: it says who met whom, never what became of
the message, so that `NothingDropped` and `BufferStable` are statements about
the code. A call that has met nobody is safe again even after clashes, provided
the UART is idle when it begins.

### `ServiceDevice` (with `MCServiceDevice` for TLC)

The command loop, the command handler, the radio handler and the driver calls
as one composition, because they share the state word and the modem. Each
action is a run of a thread between two points where it may block.

| variables | code |
|---|---|
| `curState`, `perNum`, `atomicFreq`, `atomicSf` | the atomics of `common.c:3-11` |
| `loraCfg` / `tuned` | `lora_cfg` / what the radio was last programmed with |
| `modem`, `asyncCb`, `signal` | `modem_usage`, `async_rx_cb`, `operation_done` in the driver |
| `radio` | sleep, receiving, transmitting |
| `workq` | the queue of the system work queue, each item at most once |
| `uart`, `uartBuf` | reception armed or not; the line received last |
| `pc`, `cont`, `job`, `arg` | where `common_task` is, where it goes on after `modem_release`, the case it serves and its local copy of the argument |
| `wpc` | where the work queue is |
| `aborted`, `latest` | history: what happened since the running job began |
| `older` | which of a sleep and a radio exchange began first (section 4) |

| actions | code |
|---|---|
| `Dispatch`, `EndJob`, `Wake` | the `switch`, the `atomic_cas` at the end of a case, the 10 ms sleep of `STATE_IDLE` |
| `StopReception` .. `ConfigDone` | `lora_recv_async(dev, NULL, NULL)`, the functions that change `lora_cfg`, `sx12xx_lora_config`, each with `modem_release` inside |
| `StartReception`, `ReceptionStarted` | `lora_recv_async(dev, lora_receive_cb, ...)` |
| `PauseEnds`, `IoStart` .. `IoTimeout` | the wait of `STATE_TRANSMIT`; `lora_send` and `lora_recv` with acquire, start, answer, time-out and `-EBUSY` |
| `PerTransaction` .. `PerWake` | the loop of `per_meas` |
| `ParseCommand`, `StopAnswered` | `work_uart_data_proc_handler`, with the print in the STOP branch as a blocking point |
| `HandleDio` .. `RestartAfterCallback` | `SX1276OnDio0Irq`, `sx12xx_ev_rx_done`, `sx12xx_ev_tx_done`, `lora_receive_cb` |
| `HostSends`, `PacketArrives`, `TransmissionEnds` | the interrupts |

The LoRa driver, the radio library, the UART driver and the work queue of Zephyr
are not in the tree as source. The release listing `zephyr.lst` is: it has the
source lines of these functions interleaved with their code, and the map in
`PROJECT.json` points to it. Only what the chip itself does (a packet comes in,
a transmission ends) is external.

### `Ranging` (with `MCRanging` for TLC)

A set of nodes, each a program and a chip, and the frames on the air. The
calls of `mesh_twr.cc` are cut at the points where they wait for the chip or
for the clock; an `mp_*` call is an operator used by the step that makes it.

| variables | code |
|---|---|
| `pc`, `peer`, `left`, `lag` | the call under way, its other node, calls still to make, how long the program has been kept from going on |
| `poll_rx`, `range` | `poll_rx_ts`; the result (a set, empty without one) |
| `seq` | the `sequence` argument; in `twr_respond` the `sequence` of the poll |
| `mixed` | history: the exchange took a frame that is no part of it, of a third node or of an earlier exchange |
| `chip`, `timer` | transmitter armed, waiting to listen, listening, off; ticks to the next of these |
| `dx`, `w4r`, `rxdelay`, `rxto`, `txbuf`, `rxbuf`, `tx_stamp`, `rx_stamp` | DX_TIME, WAIT4RESP, ACK_RESP_T, RX_FWTO, the two buffers, TX_TIME, RX_TIME |
| `status` | the bits of SYS_STATUS the program reads: RXFCG, the time-outs, the receive errors, TXFRS |
| `now`, `air` | time modulo the period of a counter; frames on their way |

| actions | code |
|---|---|
| `CallInitiate`, `SendPoll`, `ReceiveResp`, `SendFinal`, `FinalSent` | `twr_intiate` |
| `CallRespond`, `ReceivePoll`, `SendResp`, `RespSent`, `ReceiveFinal`, `Compute` | `twr_respond` |
| `CallPing`, `SendPing`; `CallPingRx`, `ReceivePing` | `uwb_ping`; `uwb_ping_rx` |
| `RxNow`, `RxAfterTx`, `SendNow`, `SendAt`, `AwaitSent`, `Receive` | `mp_rx_now`, `mp_rx_after_tx`, `mp_request` and `mp_send`, `mp_send_at` and `mp_request_at`, its polling loop, `mp_receive` |
| `LateOutcomes` | the check of HPDWARN and TXPUTE in `dwt_starttx` |
| `Depart`, `TurnOn`, `GiveUp`, `Arrive`, `Tick` | the chip, the medium, time (external) |

A frame is heard by every node that listens, which may take it, take an error
(noise, or two frames at once) or miss it: that is loss at each receiver
separately. Nothing is duplicated or reordered on the air, since flight takes
less than a frame. Lateness comes from the program, which may wait up to
`MaxLag` ticks before any of its steps.

What is abstracted:

- The sequence number does not wrap: no condition of the code reads it, and it
  serves only to tell exchanges apart in `mixed`.
- A transmission is programmed in one step: registers, buffer and start. The
  chip reads none of them before the start.
- The time stamps are read in the step that uses them. The chip cannot
  overwrite them in between, because its receiver is off by then.
- SYS_STATUS bits stay until the program clears them. The chip clears some of
  them by itself when it next sends or listens; keeping them is the harder case
  for a poll that may see an old bit.
- Results (`res`), prints, `dwt_readdiagnostics`.
- `recover_tx_errors` tests `SYS_STATUS_TXERR`, a mask for the upper half of the
  register, on the lower half, so that it may or may not switch the transceiver
  off. `dwt_starttx` has done so already, and nothing depends on it.
- A call is made when the previous frame of the node has left. `uwb_ping` and
  `twr_intiate` do not wait for that, their caller does; it is not in the tree.
- Time passes only while a call runs or a chip is active, so that the time
  between calls is not explored; every wrap is met through `Offset`.

### `Cobs`, `CommandLine`, `LedColour` (with `MCAlgorithms` for TLC)

Pure operators. In `Cobs` one operator is one turn of a C loop (`EncodeByte`,
`DecodeBlock`), and a recursive function has the locals after each turn
(`EncodeRun`, `DecodeRun`); `Full` is 0xFF. `CommandLine` has `strtok` and
`atoi` over a buffer in which a new line lies on top of older ones, as the DMA
leaves it. `LedColour` is `led_hsv2rgb` with the signed remainder of C.
`MCAlgorithms` picks an input in one step; for the command line, any two lines, well formed or not, are
parsed before the one that is looked at.

Operators named "Mutant of ..." are plausible mistakes in the operator that
follows them. No action uses them; they show that the properties can fail.

### Abstractions of `Terminal` and `ServiceDevice`

- A command line is one record `[cmd, arg]`; `CommandLine` shows that the text of
  a well-formed one gives just that.
- `lora_cfg` has the three fields that change; payloads and printed text are
  absent.
- In `CommandLine` a token that reaches the end of the buffer ends there; the
  `strtok` of C reads on behind it.
- A print is one blocking step in `ServiceDevice`; `Terminal` has its inside.
- Receive errors (`sx12xx_ev_rx_error`, CRC failures), `lora_send` with no
  transmit configuration (`-EINVAL`), a stale transmission-complete flag
  left in the UART, and errors of the SPI bus are left out.
- The host sends a line only while reception is armed. Bytes sent at another
  time are lost in hardware.

## 3. Runs

| run | question | bounds |
|---|---|---|
| `terminal_overlap` | two threads print at once: does a caller wait for ever? No. Do messages get lost, or rewritten on their way? Only those of calls that clash, and `Printer` is implemented, liveness included | 2 threads, 3 calls each |
| `terminal_early` | does a returning call mean that its message was sent? **No.** | the same |
| `device_tuning` | types, ownership of command channel and modem, reception comes back, no request lost | STOP, GET_CFG, FREQ+, FREQ-, SET_FREQ_KHZ, SET_SF good and bad, once each in any order; 1 packet |
| `device_measuring` | the same around a measurement, the signal on the stack, STOP obeyed, every case ends and commands are heard again, apart from two named hangs | PER of 2 transactions twice, STOP, FREQ+; 2 packets |
| `device_unarmed` | is the UART armed after `STATE_RECV`? **No.** | started as `main.c` starts it |
| `device_garbage` | does an unknown line leave the device receiving? **No.** | FREQ+ and a bad line |
| `device_freeze` | does `per_meas` always return? **No.** | a measurement, one packet |
| `device_drift` | does GET_CFG print what the radio is tuned to? **No.** | FREQ+ and GET_CFG, one packet |
| `ranging_pair` | delays, time stamps, the result, and that every call returns | 2 nodes in either role, 2 calls and 1; antenna delays 0 assumed, 1 in the chip |
| `ranging_trio` | does a third node break any of it, or a transmission that comes too late? | the same antenna delays; an initiator that calls twice, a responder, and a node that polls the responder, pings it or listens, once each |
| `ranging_antenna` | is the predicted time stamp right with the antenna delay of the boards? **No.** | as `ranging_pair` |
| `algorithms` | framing, command lines, colours | messages and frames of 6 bytes with `Full` = 3; two lines of 4 characters before a third, in a buffer of 6; hues around every border |

**Why these bounds are enough to be interesting.** The hazards need one line
that arrives in the middle of the job for another, or a packet in the middle of
a driver call, or both. In `device_tuning` six lines can follow the first in
any order and at any point; two different jobs and a packet overlap in every
way. In `device_measuring` a second PER may follow STOP, and the packets can
come before, during and after each exchange, so a late interrupt can meet the
next exchange. Two transactions are
needed for state left by the first (`tx` in `lora_cfg`, a raised signal) to
meet the second. In `Terminal` three calls are enough for one thread's second
message to meet the other's first transfer and its own third to meet a late
event; the proofs cover any number.

Frequencies are in units of a toy hertz (`Kilo` = 3, `Word` = 16) so that
SET_FREQ_KHZ overflows its word as the product by 1000 overflows 32 bits in the
firmware. The bounds of these two modules are the constants `Budget`,
`MaxPackets` and `MaxCalls`.

In `Ranging` the delays of `ranging_pair` keep the proportions of the code, one
tick being 100 us (300, 1000, 500, 1000, 1000 us become 5, 10, 5, 10, 10). The
first is 5 and not 3 because the antenna delay of the chip is a tick here, 400
times its length, and with the flights would carry an answer past the time-out of
a receiver that came on after 3. In
`ranging_trio`, where the third node multiplies the states, they are 1, 2, 1, 2,
and the time-out is 4: a scale too coarse for statements about delays, which are
left to the pair. The counter wraps within a call (32 ticks in `ranging_pair`,
16 in `ranging_trio`), a time stamp in a frame has half of that, and the nodes' counters start apart, so
that wraps fall between any two of the six stamps. With the grid of 2 ticks a
programmed time is rounded off in one node and not in the other. `MaxLag` lets
a program miss the time it aims at in `ranging_trio` (`RespDelay` and `FinalDelay`
are 2 ticks, `MaxLag` is 3); in `ranging_pair` it stays below, which makes
`AnswersFindReceiver` a statement about delays and not about late sending.
Two calls of the initiator are needed for an old answer to meet a new poll.
In all three runs the chip's antenna delay is longer than the one assumed, as in
the firmware. With a difference of one tick `FinalStampOff` says that the stamp
is one short, and `RangeIsFlightTime` that a range is exact, since its error is cut
off with the fraction; a difference large enough to show in a range would not fit
the small words, and is left to `RangesAreTrue`.
`EveryCallReturns` is checked on the pair only, since a third node makes it take
too long; its safety half, `NeverDeaf`, is proved for any number of nodes.
`AnswersFindReceiver` is false of three nodes, since a receiver goes off when it
takes a third node's frame; the trio does not check it.

The algorithms are checked around `Full`: a run of non-zero bytes shorter than a
block, just a block, and longer, at the end and before zeros. Digits,
letters and positions of "=" and newline in earlier lines are arbitrary.

**No deadlock check.** The runs say `CHECK_DEADLOCK FALSE`: with the host's
budget used up and the radio silent the model may stop, and `common_task` does
stop in the two hangs that are named below. What must not stop is stated as
liveness. Symmetry is not used: the threads of `Terminal` are part of
temporal properties.

**What liveness of the device excludes.** `Spinning`: `per_meas` asks `lora_config` again
and again while the work queue holds the modem (`device_freeze`). `Stranded`:
a packet is being read on the work queue while `per_meas` stops reception,
configures the modem and starts `lora_send`, the two threads alternating at
their SPI transfers. `lora_receive_cb` then calls `modem_release` in the middle
of that `lora_send`: it frees the modem and clears `operation_done`. The
time-out of `lora_send` finds no modem to release, takes that for its own
interrupt handler at work, and waits without a limit for a signal that nobody
will raise. Everything else ends.

**Two exceptions the properties make on purpose.** `LatestRequestSurvives`
exempts a request of the same kind as the job just served: the `atomic_cas` at
the end cannot tell the old request from the new one, so that a SET_FREQ_KHZ
parsed while another is served is lost. `ReceptionResumes` holds only when the
host sends real commands (section 6). Neither is hidden: both are in the list of
hazards.

## 4. Assumptions

**Scheduling.** Two threads of equal cooperative priority without time slices: a
thread runs until it blocks. `MidRun` lists the labels that `common_task`
passes without blocking; the work queue does not move there. SPI is driven by
interrupts in this build, so every call that talks to the radio is a blocking
point. Interrupts fall between any two steps. `Terminal` assumes less: its
threads interleave freely.

**Time.** There are no clocks. A sleep may end at any moment, with one
exception: an exchange with the radio over SPI takes well under a millisecond
and the shortest sleep is one millisecond, so no sleep begins and ends within
one exchange. `older` and `TimerMayExpire` say this. A receive time-out may
still fire in the middle of an exchange that began before it, which is the race
of interest.

**`RxArmedAtBoot`.** Nothing in `main.c` calls `uart_rx_enable` before the first
line is handled (`device_unarmed`), so in the code as it is no command is ever
heard. `TRUE` supposes that reception was enabled before the loop, as the
comment at `main.c:171` intends; the other runs are about that device. The
theorems of `ServiceDeviceProofs` and `ReceptionProofs` hold of both.

**Ranging.** `RangingAssumption`: a counter holds whole grains and whole 32-bit
words; the programmed delays and the longest lag are below half a period, which
is how the chip tells late from early (half a period is 8.6 s in the chip). The
chip is punctual. The antenna delay that the code assumes (`AntAssumed`, 16436)
and the one in the chip (`AntDelay`, 16450) are two constants, and no run or
theorem supposes that they agree. Clocks run at the same rate; the
double-sided formula exists because they do not quite, and that error is a
matter of size, not of order.

**Fairness.** `Ranging`: weak fairness of each program under way, each chip, the
medium and time; nobody has to make a call. `Terminal`: weak fairness of each thread (a sleeping thread is
woken by a timer) and of the UART. `ServiceDevice`: weak fairness of
`common_task` and of the end of a transmission; strong fairness of the work
queue, because it becomes runnable and not runnable again as `common_task`
blocks and runs, and the ready queue is FIFO within a priority, so a waiting
work queue gets the processor the next time `common_task` blocks. Fairness is of
the thread as a whole, never of single actions in it. No fairness is assumed
of the host or of arriving packets.

## 5. Proofs

Every invariant and every action property that a passing run checks is also a
theorem, and so is the safety part of the refinement of `Printer`. The theorems
hold for every value of the constants within the assumption of each model
(`TerminalAssumption`, `ServiceDeviceAssumption`, `RangingAssumption`,
`FullAssumption`, `CommandLineAssumption`): any set of
threads or nodes, any number of calls, lines and packets, any word width, any
length of a message. A theorem that needs more says so in its `ASSUME`, listed
here with the code that justifies it.

| theorem | further assumption | why it is needed, and what justifies it |
|---|---|---|
| `ReceptionIsResumed` | `OnlyCommands`: the host sends no unknown line | false otherwise (`device_garbage`) |
| `RangesAreTrue` | `DelaysFit`: no delay below a grain, a delay and two flights within a 32-bit word | `mesh_twr.cc:45-55`: delays of 1 ms, a grain of 8 ns, a word of 67 ms |
| `ReceiversAreOn` | `DelaysMeet`: at most two nodes, no node ranges with itself, delays that fit, `BusyWait` above zero | `mesh_twr.cc:45-55`, for flights below 150 us (45 km) |

### `TerminalProofs`

| theorem | statement |
|---|---|
| `TypeCorrect` | `Spec => []TypeOK` |
| `NoWakeupIsLost` | `Spec => []NoLostWakeup`, overlapping callers included; inductive together with `TypeOK` |
| `NothingIsDropped`, `BuffersAreStable` | `Spec => []NothingDropped`, `Spec => BufferStable`, overlapping callers included |
| `ImplementsPrinter` | `Spec => Promise!Spec`, overlapping callers included |

`NothingDropped` is not inductive: from a state with a transfer that belongs to
nobody, a step breaks it. `PromiseInv` adds, for a thread whose last call has met
nobody (`Clear`), that no other thread is inside, and that flag, UART and the
thread's position agree: idle before the claim, clear until the end of its own
transfer. For a thread that clashed it keeps the order only (`InOrder`): a
message goes out after its call and before the next of its thread, whoever
returned early. `PromiseStep` then maps `Call` to `Ask`, the start of a transfer
to `Take`, `DmaComplete` to `Show`, `TxDoneEvent` to `Finish`, `Return` to
`Answer` and the rest to stutters.

### `ServiceDeviceProofs`

| theorem | strengthening |
|---|---|
| `TypeCorrect` | `PerCounts`: the countdown of `per_meas` is only decremented where it is positive, tracked through `modem_release` by `Here` |
| `RequestsSurvive` | `LatestInv`: what the history says was asked last is in the state word throughout the job |
| `ModemIsAccounted`, `SignalIsInScope` | `DriverInv`: both at once, with the labels at which a signal is armed |
| `ChannelIsKept` | `CommandChannel` is inductive given types and two lemmas on where an item stands in the queue after `Tail` and `Submit`. Nothing is assumed of the start: the channel has one owner for ever if reception was armed before the loop, and none for ever if not |
| `UnarmedStaysDeaf` | the second half spelled out, for the firmware as `main.c` starts it: no command is ever taken, and the state word only moves between reception and its answer (`UnarmedIsDeaf`) |
| `StopIsObeyed` | an action property: `AbortInv` says that nobody puts PER_MEAS back into the state word after a STOP, the `atomic_cas` of the command loop and the radio callback included; `AbortStep` is the step |

Each step lemma has one step per action.

### `ReceptionProofs`

`ReceptionIsResumed`: with nothing left to do, the device is receiving, for any
set of known commands, any budget and any packets. `ReceptionResumes` speaks of
one quiet moment, and nothing in the steps before it guarantees it: the call
that starts reception is refused while the work queue holds the modem, and an
interrupt handler may change the radio behind `common_task`. `ReceptionInv`
therefore follows both threads:

- `OnCourse`: which labels serve which state, so that a label tells the job and
  whether reception is still to be started on the way to its end;
- `IdleByReception`: only the end of `STATE_RECV` makes the device idle;
- `Exchange` and `Finishing`: how far the work queue is in an exchange with the
  radio bounds where `common_task` can be meanwhile, so that an exchange that is
  about to put the radio to sleep cannot follow a start of reception;
- `Transmitting`, `Signalled`, `Answering`: what the radio does when a call of
  `lora_send` or `lora_recv` ends, in time, late, or not at all;
- `Settled`: a job that is served leaves the radio receiving with its callback,
  or inside a callback that starts reception again.

### `RangingProofs`

For any set of nodes, script, delays, grid and word sizes within
`RangingAssumption`.

| theorem | strengthening |
|---|---|
| `TypeCorrect` | none: `TypeOK` is inductive |
| `NobodyIsDeaf`, `SentIsSent`, `ReturnsAreQuiet` | `DriverInv`: for each node what chip, status bits and time-out are at each label. None of the three is inductive alone: that a polling program hears depends on what the previous step left in `status`, and that on how the receiver was switched off |
| `FinalStampIsOff` | `StampInv`: while a final frame is armed, its stamp and `dx` agree but for the two antenna delays |
| `ElapsedTime` | differences of words are elapsed times below one word |
| `FormulaIsClose` | if the round trips are right, and one statement of a reply time is short by any amount, the formula of `twr_respond` errs by at most half of that amount: the reply times, thousands of times longer than the flight, cancel |

### `RangeProofs`

`RangesAreTrue`: every range is the time of flight, up to half the difference of
the antenna delays, unless a frame of another exchange was taken, for any number of nodes, any calls, losses, lags and
offsets. The invariant is `Sound`, that is `TypeOK`, `DriverInv`, `StampInv` and
`ExchangeInv`. The argument:

1. *Arithmetic.* A reply time is fixed by a programmed delay, so it fits a
   32-bit word, and the round trip around it is the reply time and two flights,
   wherever the counters wrap. `TruncCongruent` and its companions carry
   equalities of time stamps through the cutting.
2. *Order.* Sequence numbers name exchanges. For two nodes and a number, poll,
   response and final frame exist one after the other: the poll is still to be
   sent or on its way (`Fresh`), received and not answered (`Pending`), or
   answered (`Past`), and never two of these. So no frame of an exchange meets a
   program that has not reached its stage, or is beyond it.
3. *Stamps.* Therefore the words in the frames and the registers of the chips
   that meet in the formula belong to the same three frames (`PairInv`), and
   `FormulaIsClose` applies. With the numbers of the firmware the statement of
   the final frame is 14 units short, so that a range is at least the time of
   flight and at most 7 units (0.11 ns, 3 cm) above it.

Lag does not matter here, beyond the half period of `RangingAssumption`: a
transmission that is programmed too late is refused and its call gives up, and
one that is not refused leaves at the time it carries.

### `ReceiverProofs`

`ReceiversAreOn`: with two nodes, every response and every final frame meets a
receiver that is on. This is what `RX_AFTER_TX` and the time-outs of
`mesh_twr.cc:50-55` are chosen for. `InTime` has the three inequalities for each
of the two questions that ask for an answer: the receiver comes on after two
flights, before the answer can be back, and stays on until it is.

The chip's timer says how long ago the question left (`Elapsed`). `MeetInv` ties
that clock to the other node at each of four stages (`Met`): the question is on
its way; it has been read and its reader lags; the answer is programmed and
leaves in `Due`; the answer is on its way. `Clock`, `Programmed` and `Sent` say
what each node's own program, chip and frames add. The hard half is that a
receiver goes off when it takes *any* frame, so that the frames which the other
node sent earlier must have passed before it comes on (`Behind`).

The proof showed an assumption that the run alone had not: with `BusyWait` = 0
the statement is false (TLC finds it on the configuration of `ranging_pair`
with that one change). The next poll of an initiator would then leave at the
very tick of its final frame, reach the receiver together with it, and
switch it off first. The code waits 100 us before every poll
(`k_busy_wait(100)`), to let the other side start its receiver.

### `CobsProofs`

| theorem | statement |
|---|---|
| `FramesAreSound` | for every message: no zero in the frame, and its length within the size the caller must provide |
| `DecodingUndoesEncoding` | for every message: decoding the encoded message gives the message |
| `DecoderStops` | for every frame, damaged or not: decoding ends, in bounds and in place, and accepts only a frame read to its end |
| `EncoderKeepsFrame`, `DecoderIsSteady` | one turn of either loop keeps its invariant |

The induction over the turns of a loop avoids theorems with an operator
parameter: `NatIndex` takes the least turn at which a given set of numbers
fails, by `WFMin` of the library's well-founded order on numbers, and `RunExists`
gives the recursive functions their equations. The invariants: `Cost` bounds
what a prefix has written by what the message still allows; `Undone` says that
the decoder, at the end of each closed block, has written just the part of the
message that the encoder had read.

### `AlgorithmProofs`

| theorem | statement |
|---|---|
| `ColoursFitBytes` | every channel lies between 0 and the value |
| `ColoursAreSmooth` | one degree changes no channel by more than a step, the seam included |
| `LinesAreHeard` | a line NAME=NUMBER is split into that name and number, and of a line NAME= the name is found, whatever older lines left in the buffer; a bare NAME without "=" is another line, whose newline goes into the name |
| `ColoursStayContinuous`, `FramesStaySound`, `DecodingStaysInPlace`, `RoundTripHolds`, `CommandsStayHeard` | the invariants of the run `algorithms`, from these and `CobsProofs`: the bounds of `MCAlgorithms` (lengths, lines) may be any |

### What stays with TLC

Liveness under fairness (`EveryCallReturns` of both models, `EveryJobEnds`,
`CommandsHeard`, the fair part of `KeepsPromise`), because the prover has no
`ENABLED`. The invariants beneath these are proved: `NoLostWakeup`, `NeverDeaf`,
`ModemAccounted` and `CommandChannel` exclude the ways in which each would
fail by waiting for something that nobody will bring.

## 6. Disagreements between code and comments

- **`terminal_early`**. "Wait while uart transaction will be ended"
  (`common.h:122`): a call may return while its own transfer runs, since the
  flag is set by the end of the other thread's.
- **`device_unarmed`**. "Start UART receive" (`main.c:171`): the code starts
  radio reception only.
- **`device_garbage`**. "After execution this case will be started receive"
  (`main.c:202`): a line that is no command sets `STATE_IDLE` over a state that
  has stopped reception; nothing starts it again until a packet or a command,
  and packets cannot come.
- **`device_freeze`**. `per_meas` prints, a packet arrives meanwhile, the
  callback is inside `modem_release` on the work queue when `per_meas` reaches
  `lora_config`: it asks for ever without blocking, and the work queue of the
  same priority never finishes.
- **`device_drift`**. "Get modem configuration" (`main.c:194`): a tuning command
  writes `lora_cfg` before it asks `lora_config` and does not take that back when
  the driver refuses (`common.c:98`, `:111`), which it does while
  `lora_receive_cb` hands a packet over. The device says that it failed, and the
  next GET_CFG prints the refused value; the radio is tuned to the old one until
  something configures it again.
- **`ranging_antenna`**. "prorammed TX + antenna delay" (`mesh_twr.cc:164`):
  `twr_intiate` adds `TX_ANT_DLY` = 16436, while the chip is given the
  `tx-ant-delay` of the device tree, 0x4042 = 16450 in `rs_0022_0.overlay:37`,
  in `rs_0015_100.dts:112` and by default (`dw1000.c:37`). Every final time stamp
  is 14 units (0.2 ns) off, and a range up to 7.

Two behaviours that no comment contradicts, but a maintainer should know:

- `per_meas` looks at the state word once per transaction. STOP and then PER
  between two looks leave the old measurement running (`common.c:38`).
  `StopAborts` is therefore about a STOP that no PER follows.
- Ranging calls look at the id of a frame only. The TODO at
  `meshposition.cc:228` says that the destination should be checked; the
  destination alone would not do. If an initiator gives up early, because a
  third node's frame met its receiver, and calls again, the late answer to its
  first poll is taken for the answer to the second, and both sides end with a
  range that is wrong although every frame was theirs: only the sequence
  number tells. `RangeIsFlightTime` exempts exchanges that took a frame of
  another exchange (`mixed`), and nothing else; without the comparison of
  sequence numbers in `Foreign`, `ranging_trio` refutes it.

## 7. Not modelled

By lines most of the tree is generated or third-party: two copies of the
generated device tree and system call headers (`app/cmake-build-*`), `json.hh`,
and the Decawave library with its tables. Modelling them would restate tables,
and so the map covers a small share of the lines although it covers the
program's own logic.

- **Decawave library beyond the calls named above.** Sleep, calibration, CIR
  access, `dwt_isr` with its callbacks: nothing in the tree calls
  `dwt_setinterrupt` or `dwt_setcallbacks`, so the interrupt mask of the chip
  stays 0 and the interrupt work item of `dw1000.c` never runs. That is also
  why the empty `decamutexon` and `decamutexoff` do no harm.
- **`dw1000.c`**: SPI transfers and start-up.
- **`mp_start` and the JSON conversions**: tables. `meshposition.cc:159` fills
  the inverse data rate map from the preamble map; nothing calls
  `mp_json_to_conf`.
- **LED strip**: bit timing of a PWM output. `led_gamma_correction`: a table.
- **EEPROM**: a mutex around one bus transfer, and a bounds test whose model would
  restate its line. A negative offset or a length near 2^32 makes the sum at
  `eeprom_st25dv.c:131` wrap and passes the test; nothing in the repository says
  what the driver should do then.
- **Receive errors of the LoRa radio**, payloads and printed texts.
- **Boards, device trees, build files.**

## 8. Plan

| step | state |
|---|---|
| `Printer`, `Terminal`, `TerminalProofs` | done |
| `ServiceDevice`, `ServiceDeviceProofs` | done, except for receive errors |
| `ReceptionProofs` | done |
| `Ranging`, `RangingProofs`, `RangeProofs`, `ReceiverProofs` | done |
| `Cobs`, `CommandLine`, `LedColour`, `CobsProofs`, `AlgorithmProofs` | done |
| next proof | the safety part of a refinement of the abstract modem below; `AnswersFindReceiver` for more nodes when the others stay silent during an exchange |
| next model | `sx12xx_ev_rx_error` in `ServiceDevice`, and an abstract modem that `ServiceDevice` implements |

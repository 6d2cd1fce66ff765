--------------------------- MODULE ServiceDevice ---------------------------
(***************************************************************************)
(* The service device: common_task (src/app/src/main.c) serves the state   *)
(* word atomic_cur_state, the system work queue runs the UART command      *)
(* handler and the radio's DIO handler, and both drive one SX127x through  *)
(* the LoRa driver.  The state word is written by three parties:           *)
(* common_task when it ends a job, the command handler for every command,  *)
(* lora_receive_cb for every packet.                                       *)
(*                                                                         *)
(* Scheduling.  Both threads have priority 0 and there are no time slices, *)
(* so a thread runs until it blocks: in k_sleep, k_poll, a print, or an    *)
(* SPI transfer inside a radio call.  Each action is a run between two     *)
(* such points, or a part of one; while common_task is in the middle of a  *)
(* run (MidRun) the work queue does not move.  Interrupts fall anywhere.   *)
(*                                                                         *)
(* send_to_terminal is the blocking step "say": module Terminal shows that *)
(* it always returns.  The LoRa driver, the radio and the UART driver are  *)
(* outside src/app/src; they are modelled as the listings of the builds    *)
(* kept under src/app show them.                                           *)
(***************************************************************************)
EXTENDS Naturals, Sequences

CONSTANTS
    HostCommands,   \* the lines the host may send: [cmd, arg] records
    Budget,         \* bound: how often the host sends each of them
    MaxPackets,     \* bound: packets that reach the antenna
    RxArmedAtBoot,  \* TRUE: UART reception runs when the command loop starts
    SpreadFactors,  \* SF_6 .. SF_12
    BootFreq,       \* initial atomic_freq, in hertz
    Kilo,           \* hertz per kilohertz
    FreqStep,       \* FREQUENCY_STEP_HZ
    Word            \* frequencies are uint32_t: arithmetic is modulo Word

Cmds == {"PER", "STOP", "GET_CFG", "FREQ+", "FREQ-", "SET_FREQ_KHZ",
         "SET_SF", "unknown"}

ASSUME ServiceDeviceAssumption ==
    /\ HostCommands \subseteq [cmd : Cmds, arg : Nat]
    /\ Budget \in [HostCommands -> Nat]
    /\ MaxPackets \in Nat
    /\ RxArmedAtBoot \in BOOLEAN
    /\ 12 \in SpreadFactors /\ SpreadFactors \subseteq Nat
    /\ Word \in Nat \ {0} /\ Kilo \in Nat
    /\ BootFreq \in 0 .. Word - 1
    /\ FreqStep \in 0 .. Word - 1

VARIABLES
    curState,    \* atomic_cur_state
    perNum,      \* atomic_per_num
    atomicFreq,  \* atomic_freq
    atomicSf,    \* atomic_sf
    loraCfg,     \* lora_cfg, the fields that change
    tuned,       \* the channel and data rate the radio is programmed with
    modem,       \* modem_usage in the driver: FREE, BUSY, CLEANUP
    radio,       \* what the radio does: sleep, rx, tx
    asyncCb,     \* async_rx_cb is set
    signal,      \* operation_done and the poll signal on the caller's stack:
                 \* none, armed, raised
    workq,       \* work items submitted and not yet started
    uart,        \* UART reception: listening, off
    uartBuf,     \* the command in uart_buf_rx
    pc,          \* where common_task is
    cont,        \* where common_task goes on after modem_release
    job,         \* the state whose case common_task executes
    arg,         \* the job's snapshot of its argument; transactions left
    wpc,         \* where the work queue is
    used,        \* commands sent so far
    packets,     \* packets received so far
    older,       \* common_task slept already when the work queue began its
                 \* present exchange with the radio
    aborted,     \* history: STOP was parsed since this job began, and no PER
                 \* since then
    latest       \* history: the last state the work queue asked for since
                 \* this job began, or none

appVars == <<curState, perNum, atomicFreq, atomicSf>>
modemVars == <<tuned, modem, radio, asyncCb, signal>>
hostVars == <<uart, uartBuf, used, packets>>
mainVars == <<pc, cont, job, arg, loraCfg>>
pastVars == <<aborted, latest>>
vars == <<appVars, modemVars, hostVars, mainVars, workq, wpc, older, pastVars>>

States == {"IDLE", "PER_MEAS", "RECV", "TRANSMIT", "GET_CFG", "SET_FREQ",
           "INCR_FREQ", "DECR_FREQ", "SET_SF", "STOP"}

NoCommand == [cmd |-> "unknown", arg |-> 0]

Init ==
    /\ curState = "RECV"
    /\ perNum = 0
    /\ atomicFreq = BootFreq
    /\ atomicSf = 12
    /\ loraCfg = [tx |-> FALSE, frequency |-> BootFreq, datarate |-> 12]
    /\ tuned = [frequency |-> BootFreq, datarate |-> 12]
    /\ modem = "FREE"
    /\ radio = "sleep"
    /\ asyncCb = FALSE
    /\ signal = "none"
    /\ workq = <<>>
    /\ uart = IF RxArmedAtBoot THEN "listening" ELSE "off"
    /\ uartBuf = NoCommand
    /\ pc = "loop"
    /\ cont = "loop"
    /\ job = "RECV"
    /\ arg = 0
    /\ wpc = "idle"
    /\ used = [c \in HostCommands |-> 0]
    /\ packets = 0
    /\ older = FALSE
    /\ aborted = FALSE
    /\ latest = "none"

-----------------------------------------------------------------------------
(* common_task: the loop *)

\* Labels common_task passes without blocking before them.
MidRun == pc \in {"loop", "offRelease", "cfgAcquire", "ioAcquire",
                  "rxAcquire", "perTop", "cas"}

\* Labels at which common_task waits for a timer or a print.
Sleeps == {"nap", "say", "pause", "ioWait", "status", "perNap"}

\* An exchange with the radio takes well under a millisecond: a sleep may end
\* in the middle of one, but no sleep begins and ends within one.
TimerMayExpire == wpc \in {"idle", "say"} \/ older

Queued(item) == \E i \in 1 .. Len(workq) : workq[i] = item
Submit(item) == IF Queued(item) THEN workq ELSE Append(workq, item)

EntryOf(state) ==
    CASE state = "RECV" -> "rxAcquire"
      [] state = "TRANSMIT" -> "cfgAcquire"
      [] state \in {"PER_MEAS", "GET_CFG"} -> "say"
      [] state = "IDLE" -> "nap"
      [] OTHER -> "offRelease"

ArgOf(state) ==
    CASE state = "PER_MEAS" -> perNum
      [] state = "SET_FREQ" -> atomicFreq
      [] state = "SET_SF" -> atomicSf
      [] OTHER -> 0

\* switch (atomic_get(&atomic_cur_state)), with the reads of the other
\* atomics that the chosen case makes before it first blocks.
Dispatch ==
    /\ pc = "loop"
    /\ job' = curState
    /\ pc' = EntryOf(curState)
    /\ arg' = ArgOf(curState)
    /\ loraCfg' = [loraCfg EXCEPT !.tx = @ \/ curState = "TRANSMIT"]
    /\ aborted' = FALSE
    /\ latest' = "none"
    /\ UNCHANGED <<appVars, modemVars, hostVars, cont, workq, wpc, older>>

\* k_sleep(K_MSEC(10)) of the default case ends.
Wake ==
    /\ pc = "nap"
    /\ TimerMayExpire
    /\ pc' = "loop"
    /\ older' = FALSE
    /\ UNCHANGED <<appVars, modemVars, hostVars, cont, job, arg, loraCfg,
                   workq, wpc, pastVars>>

\* Mutants of EndJob: atomic_set in place of atomic_cas; back to STATE_IDLE
\* in place of STATE_RECV.
EndJobSets ==
    /\ pc = "cas"
    /\ pc' = "loop"
    /\ curState' = IF job = "RECV" THEN "IDLE" ELSE "RECV"
    /\ UNCHANGED <<perNum, atomicFreq, atomicSf, modemVars, hostVars, cont,
                   job, arg, loraCfg, workq, wpc, pastVars, older>>

EndJobIdles ==
    /\ pc = "cas"
    /\ pc' = "loop"
    /\ curState' = IF curState # job THEN curState ELSE "IDLE"
    /\ UNCHANGED <<perNum, atomicFreq, atomicSf, modemVars, hostVars, cont,
                   job, arg, loraCfg, workq, wpc, pastVars, older>>

\* atomic_cas at the end of a case.
EndJob ==
    /\ pc = "cas"
    /\ pc' = "loop"
    /\ curState' = IF curState # job THEN curState
                   ELSE IF job = "RECV" THEN "IDLE" ELSE "RECV"
    /\ UNCHANGED <<perNum, atomicFreq, atomicSf, modemVars, hostVars, cont,
                   job, arg, loraCfg, workq, wpc, pastVars, older>>

\* A print has gone out.
Said ==
    /\ pc = "say"
    /\ TimerMayExpire
    /\ pc' = IF job = "PER_MEAS" THEN "offRelease" ELSE "cas"
    /\ older' = FALSE
    /\ UNCHANGED <<appVars, modemVars, hostVars, cont, job, arg, loraCfg,
                   workq, wpc, pastVars>>

-----------------------------------------------------------------------------
(* common_task: calls into the LoRa driver *)

\* modem_release: only a busy modem is released; the caller waits for the
\* radio to go to sleep and then frees it.
Release(next) ==
    IF modem = "BUSY"
    THEN modem' = "CLEANUP" /\ pc' = "sleep" /\ cont' = next
    ELSE pc' = next /\ UNCHANGED <<modem, cont>>

\* Mutant of Released: modem_release leaves operation_done as it is.
ReleasedKeepsSignal ==
    /\ pc = "sleep"
    /\ radio' = "sleep"
    /\ modem' = "FREE"
    /\ pc' = cont
    /\ UNCHANGED <<appVars, tuned, asyncCb, signal, hostVars, cont, job, arg,
                   loraCfg, workq, wpc, pastVars, older>>

Released ==
    /\ pc = "sleep"
    /\ radio' = "sleep"
    /\ modem' = "FREE"
    /\ signal' = "none"
    /\ pc' = cont
    /\ UNCHANGED <<appVars, tuned, asyncCb, hostVars, cont, job, arg, loraCfg,
                   workq, wpc, pastVars, older>>

\* lora_recv_async(dev, NULL, NULL)
StopReception ==
    /\ pc = "offRelease"
    /\ Release(CASE job = "PER_MEAS" -> "perTop"
                 [] job = "STOP" -> "say"
                 [] OTHER -> "cfgAcquire")
    /\ UNCHANGED <<appVars, tuned, radio, asyncCb, signal, hostVars, job, arg,
                   loraCfg, workq, wpc, pastVars, older>>

\* Mutant of Adjusted: a frequency is not cut to the width of its field.
AdjustedWide ==
    CASE job = "INCR_FREQ" -> [loraCfg EXCEPT !.frequency = @ + FreqStep]
      [] job = "DECR_FREQ" -> [loraCfg EXCEPT !.frequency = @ - FreqStep]
      [] job = "SET_FREQ" -> [loraCfg EXCEPT !.frequency = arg * Kilo]
      [] job = "SET_SF" -> [loraCfg EXCEPT !.datarate = arg]
      [] OTHER -> loraCfg

\* What the job changes in lora_cfg before it calls lora_config.
Adjusted ==
    CASE job = "INCR_FREQ" ->
            [loraCfg EXCEPT !.frequency = (@ + FreqStep) % Word]
      [] job = "DECR_FREQ" ->
            [loraCfg EXCEPT !.frequency = (@ + Word - FreqStep) % Word]
      [] job = "SET_FREQ" -> [loraCfg EXCEPT !.frequency = (arg * Kilo) % Word]
      [] job = "SET_SF" -> [loraCfg EXCEPT !.datarate = arg]
      [] OTHER -> loraCfg

AfterConfig ==
    CASE job = "TRANSMIT" -> "pause"
      [] job = "PER_MEAS" -> "ioAcquire"
      [] OTHER -> "say"

\* lora_config finds the modem free and starts to program the radio.
ConfigStart ==
    /\ pc = "cfgAcquire"
    /\ modem = "FREE"
    /\ modem' = "BUSY"
    /\ loraCfg' = Adjusted
    /\ pc' = "cfgDone"
    /\ UNCHANGED <<appVars, tuned, radio, asyncCb, signal, hostVars, cont,
                   job, arg, workq, wpc, pastVars, older>>

\* lora_config returns -EBUSY.  per_meas calls it again at once, for as long
\* as it takes and without blocking: that loop is no step at all here.
ConfigBusy ==
    /\ pc = "cfgAcquire"
    /\ modem # "FREE"
    /\ job # "PER_MEAS"
    /\ loraCfg' = Adjusted
    /\ pc' = AfterConfig
    /\ UNCHANGED <<appVars, modemVars, hostVars, cont, job, arg, workq, wpc,
                   pastVars, older>>

\* What lora_cfg asks of the radio.
Asked == [frequency |-> loraCfg.frequency, datarate |-> loraCfg.datarate]

\* Mutant of ConfigDone: the modem is not released after it is configured.
ConfigDoneKeepsModem ==
    /\ pc = "cfgDone"
    /\ tuned' = Asked
    /\ pc' = AfterConfig
    /\ UNCHANGED <<appVars, modem, cont, radio, asyncCb, signal, hostVars,
                   job, arg, loraCfg, workq, wpc, pastVars, older>>

ConfigDone ==
    /\ pc = "cfgDone"
    /\ tuned' = Asked
    /\ Release(AfterConfig)
    /\ UNCHANGED <<appVars, radio, asyncCb, signal, hostVars, job, arg,
                   loraCfg, workq, wpc, pastVars, older>>

\* Mutant of StartReception: no callback is registered.
StartReceptionDeaf ==
    /\ pc = "rxAcquire"
    /\ IF modem = "FREE"
       THEN modem' = "BUSY" /\ pc' = "rxStart"
       ELSE pc' = "cas" /\ UNCHANGED modem
    /\ UNCHANGED <<appVars, tuned, asyncCb, radio, signal, hostVars, cont,
                   job, arg, loraCfg, workq, wpc, pastVars, older>>

\* lora_recv_async(dev, lora_receive_cb, lora_rx_error_timeout_cb)
StartReception ==
    /\ pc = "rxAcquire"
    /\ IF modem = "FREE"
       THEN modem' = "BUSY" /\ asyncCb' = TRUE /\ pc' = "rxStart"
       ELSE pc' = "cas" /\ UNCHANGED <<modem, asyncCb>>
    /\ UNCHANGED <<appVars, tuned, radio, signal, hostVars, cont, job, arg,
                   loraCfg, workq, wpc, pastVars, older>>

ReceptionStarted ==
    /\ pc = "rxStart"
    /\ radio' = "rx"
    /\ pc' = "cas"
    /\ UNCHANGED <<appVars, tuned, modem, asyncCb, signal, hostVars, cont,
                   job, arg, loraCfg, workq, wpc, pastVars, older>>

\* lora_send if the modem is configured to transmit, lora_recv otherwise.
Sending == loraCfg.tx

AfterIo ==
    CASE job = "TRANSMIT" -> "rxAcquire"
      [] job # "TRANSMIT" /\ Sending -> "cfgAcquire"
      [] OTHER -> "status"

\* per_meas clears lora_cfg->tx when lora_send has returned.
CfgAfterIo == [loraCfg EXCEPT !.tx = job = "TRANSMIT"]

\* k_sleep(K_MSEC(300)) before the answer is sent
PauseEnds ==
    /\ pc = "pause"
    /\ TimerMayExpire
    /\ pc' = "ioAcquire"
    /\ older' = FALSE
    /\ UNCHANGED <<appVars, modemVars, hostVars, cont, job, arg, loraCfg,
                   workq, wpc, pastVars>>

IoStart ==
    /\ pc = "ioAcquire"
    /\ modem = "FREE"
    /\ modem' = "BUSY"
    /\ signal' = "armed"
    /\ asyncCb' = (asyncCb /\ Sending)
    /\ pc' = "ioStart"
    /\ UNCHANGED <<appVars, tuned, radio, hostVars, cont, job, arg, loraCfg,
                   workq, wpc, pastVars, older>>

\* -EBUSY
IoRefused ==
    /\ pc = "ioAcquire"
    /\ modem # "FREE"
    /\ pc' = AfterIo
    /\ loraCfg' = CfgAfterIo
    /\ UNCHANGED <<appVars, modemVars, hostVars, cont, job, arg, workq, wpc,
                   pastVars, older>>

\* Mutant of IoStarted: the operation is waited for without a time limit.
IoStartedForGood ==
    /\ pc = "ioStart"
    /\ radio' = IF Sending THEN "tx" ELSE "rx"
    /\ pc' = "ioForever"
    /\ UNCHANGED <<appVars, tuned, modem, asyncCb, signal, hostVars, cont,
                   job, arg, loraCfg, workq, wpc, pastVars, older>>

IoStarted ==
    /\ pc = "ioStart"
    /\ radio' = IF Sending THEN "tx" ELSE "rx"
    /\ pc' = "ioWait"
    /\ UNCHANGED <<appVars, tuned, modem, asyncCb, signal, hostVars, cont,
                   job, arg, loraCfg, workq, wpc, pastVars, older>>

\* k_poll returns because the signal was raised.
IoSignalled ==
    /\ pc \in {"ioWait", "ioForever"}
    /\ signal = "raised"
    /\ signal' = "none"
    /\ pc' = AfterIo
    /\ loraCfg' = CfgAfterIo
    /\ UNCHANGED <<appVars, tuned, modem, radio, asyncCb, hostVars, cont, job,
                   arg, workq, wpc, pastVars, older>>

\* k_poll times out.  If the modem cannot be released its interrupt handler
\* must be at work, and the call waits for it without a limit.
IoTimeout ==
    /\ pc = "ioWait"
    /\ TimerMayExpire
    /\ signal # "raised"
    /\ IF modem = "BUSY"
       THEN /\ Release(AfterIo)
            /\ loraCfg' = CfgAfterIo
       ELSE pc' = "ioForever" /\ UNCHANGED <<modem, cont, loraCfg>>
    /\ older' = FALSE
    /\ UNCHANGED <<appVars, tuned, radio, asyncCb, signal, hostVars, job, arg,
                   workq, wpc, pastVars>>

-----------------------------------------------------------------------------
(* common_task: the measurement loop of per_meas *)

\* Mutant of PerTransaction: the state word is not looked at.
PerTransactionBlindly ==
    /\ pc = "perTop"
    /\ arg > 0
    /\ loraCfg' = [loraCfg EXCEPT !.tx = TRUE]
    /\ pc' = "cfgAcquire"
    /\ UNCHANGED <<appVars, modemVars, hostVars, cont, job, arg, workq, wpc,
                   pastVars, older>>

PerTransaction ==
    /\ pc = "perTop"
    /\ arg > 0
    /\ curState = "PER_MEAS"
    /\ loraCfg' = [loraCfg EXCEPT !.tx = TRUE]
    /\ pc' = "cfgAcquire"
    /\ UNCHANGED <<appVars, modemVars, hostVars, cont, job, arg, workq, wpc,
                   pastVars, older>>

PerLeave ==
    /\ pc = "perTop"
    /\ arg = 0 \/ curState # "PER_MEAS"
    /\ pc' = "cas"
    /\ UNCHANGED <<appVars, modemVars, hostVars, cont, job, arg, loraCfg,
                   workq, wpc, pastVars, older>>

\* print_per_status has gone out
PerStatusSaid ==
    /\ pc = "status"
    /\ TimerMayExpire
    /\ arg' = arg - 1
    /\ pc' = "perNap"
    /\ older' = FALSE
    /\ UNCHANGED <<appVars, modemVars, hostVars, cont, job, loraCfg, workq,
                   wpc, pastVars>>

PerWake ==
    /\ pc = "perNap"
    /\ TimerMayExpire
    /\ pc' = "perTop"
    /\ older' = FALSE
    /\ UNCHANGED <<appVars, modemVars, hostVars, cont, job, arg, loraCfg,
                   workq, wpc, pastVars>>

-----------------------------------------------------------------------------
(* The system work queue: work_uart_data_proc_handler *)

StateFor(cmd) ==
    CASE cmd = "PER" -> "PER_MEAS"
      [] cmd = "FREQ+" -> "INCR_FREQ"
      [] cmd = "FREQ-" -> "DECR_FREQ"
      [] cmd = "SET_FREQ_KHZ" -> "SET_FREQ"
      [] cmd \in {"STOP", "GET_CFG", "SET_SF"} -> cmd
      [] OTHER -> "IDLE"

WorkerFree(item) ==
    /\ ~MidRun
    /\ wpc = "idle"
    /\ workq # <<>>
    /\ Head(workq) = item
    /\ workq' = Tail(workq)

\* Mutant of ParseCommand: reception is armed before the answer to STOP.
ParseCommandArmsFirst ==
    /\ WorkerFree("uart")
    /\ curState' = StateFor(uartBuf.cmd)
    /\ wpc' = IF uartBuf.cmd = "STOP" THEN "say" ELSE wpc
    /\ uart' = "listening"
    /\ UNCHANGED <<perNum, atomicFreq, atomicSf, modemVars, uartBuf, used,
                   packets, mainVars, older, pastVars>>

\* The handler up to its end, or for STOP up to its print.
ParseCommand ==
    /\ WorkerFree("uart")
    /\ curState' = StateFor(uartBuf.cmd)
    /\ perNum' = IF uartBuf.cmd = "PER" THEN uartBuf.arg ELSE perNum
    /\ atomicFreq' = IF uartBuf.cmd = "SET_FREQ_KHZ" THEN uartBuf.arg
                     ELSE atomicFreq
    /\ atomicSf' = IF uartBuf.cmd = "SET_SF" /\ uartBuf.arg \in SpreadFactors
                   THEN uartBuf.arg ELSE atomicSf
    /\ IF uartBuf.cmd = "STOP"
       THEN wpc' = "say" /\ UNCHANGED uart
       ELSE uart' = "listening" /\ UNCHANGED wpc
    /\ aborted' = (uartBuf.cmd = "STOP" \/ (aborted /\ uartBuf.cmd # "PER"))
    /\ latest' = StateFor(uartBuf.cmd)
    /\ UNCHANGED <<modemVars, uartBuf, used, packets, mainVars, older>>

\* Mutant of StopAnswered: the handler returns from the STOP branch at once.
StopAnsweredReturns ==
    /\ ~MidRun
    /\ wpc = "say"
    /\ wpc' = "idle"
    /\ UNCHANGED <<appVars, modemVars, hostVars, mainVars, workq, pastVars,
                   older>>

StopAnswered ==
    /\ ~MidRun
    /\ wpc = "say"
    /\ uart' = "listening"
    /\ wpc' = "idle"
    /\ UNCHANGED <<appVars, modemVars, uartBuf, used, packets, mainVars,
                   workq, pastVars, older>>

-----------------------------------------------------------------------------
(* The system work queue: the DIO handler, the driver's events and the
   application's callback *)

\* modem_release as the work queue calls it: go to `on' if it was released.
WorkerRelease(on, otherwise) ==
    IF modem = "BUSY"
    THEN modem' = "CLEANUP" /\ wpc' = on
    ELSE UNCHANGED modem /\ wpc' = otherwise

\* The handler looks at what the radio is doing now, not at what raised it.
HandleDio ==
    /\ WorkerFree("dio")
    /\ CASE radio = "rx" -> wpc' = "rxRead" /\ UNCHANGED <<modem, radio>>
         [] radio = "tx" -> WorkerRelease("finish", "idle") /\ radio' = "sleep"
         [] OTHER -> UNCHANGED <<modem, radio, wpc>>
    /\ older' = (pc \in Sleeps)
    /\ UNCHANGED <<appVars, tuned, asyncCb, signal, hostVars, mainVars,
                   pastVars>>

\* The packet has been read.  sx12xx_ev_rx_done in the middle of a lora_recv:
RxDoneSync ==
    /\ ~MidRun
    /\ wpc = "rxRead"
    /\ ~asyncCb
    /\ WorkerRelease("finish", "idle")
    /\ UNCHANGED <<appVars, tuned, radio, asyncCb, signal, hostVars, mainVars,
                   workq, pastVars, older>>

\* The modem sleeps; it is freed and the waiting call is signalled.
Finish ==
    /\ ~MidRun
    /\ wpc = "finish"
    /\ radio' = "sleep"
    /\ modem' = "FREE"
    /\ signal' = IF signal = "armed" THEN "raised" ELSE signal
    /\ wpc' = "idle"
    /\ UNCHANGED <<appVars, tuned, asyncCb, hostVars, mainVars, workq,
                   pastVars, older>>

\* ... and with lora_receive_cb registered: the callback stops reception
\* and asks for an answer; both happen at once when there is nothing to stop.
RxDoneCallback ==
    /\ ~MidRun
    /\ wpc = "rxRead"
    /\ asyncCb
    /\ WorkerRelease("cbSleep", "cbRx")
    /\ IF modem = "BUSY"
       THEN UNCHANGED <<curState, latest>>
       ELSE curState' = "TRANSMIT" /\ latest' = "TRANSMIT"
    /\ UNCHANGED <<perNum, atomicFreq, atomicSf, tuned, radio, asyncCb,
                   signal, hostVars, mainVars, workq, aborted, older>>

\* Mutant of CallbackReleased: the callback frees no modem.
CallbackReleasedLeaks ==
    /\ ~MidRun
    /\ wpc = "cbSleep"
    /\ curState' = "TRANSMIT"
    /\ latest' = "TRANSMIT"
    /\ wpc' = "cbRx"
    /\ UNCHANGED <<perNum, atomicFreq, atomicSf, modemVars, hostVars, mainVars,
                   workq, aborted, older>>

CallbackReleased ==
    /\ ~MidRun
    /\ wpc = "cbSleep"
    /\ radio' = "sleep"
    /\ modem' = "FREE"
    /\ signal' = "none"
    /\ curState' = "TRANSMIT"
    /\ latest' = "TRANSMIT"
    /\ wpc' = "cbRx"
    /\ UNCHANGED <<perNum, atomicFreq, atomicSf, tuned, asyncCb, hostVars,
                   mainVars, workq, aborted, older>>

\* Radio.Rx(0), which the driver calls after the callback whatever it did.
RestartAfterCallback ==
    /\ ~MidRun
    /\ wpc = "cbRx"
    /\ radio' = "rx"
    /\ wpc' = "idle"
    /\ UNCHANGED <<appVars, tuned, modem, asyncCb, signal, hostVars, mainVars,
                   workq, pastVars, older>>

-----------------------------------------------------------------------------
(* Interrupts *)

\* A line arrives.  UART_RX_RDY disables reception, which raises
\* UART_RX_DISABLED, which submits the command handler: one interrupt.
HostSends(c) ==
    /\ uart = "listening"
    /\ used[c] < Budget[c]
    /\ used' = [used EXCEPT ![c] = @ + 1]
    /\ uartBuf' = c
    /\ uart' = "off"
    /\ workq' = Submit("uart")
    /\ UNCHANGED <<appVars, modemVars, packets, mainVars, wpc, pastVars,
                   older>>

PacketArrives ==
    /\ radio = "rx"
    /\ packets < MaxPackets
    /\ packets' = packets + 1
    /\ workq' = Submit("dio")
    /\ UNCHANGED <<appVars, modemVars, uart, uartBuf, used, mainVars, wpc,
                   pastVars, older>>

TransmissionEnds ==
    /\ radio = "tx"
    /\ ~Queued("dio")
    /\ workq' = Submit("dio")
    /\ UNCHANGED <<appVars, modemVars, hostVars, mainVars, wpc, pastVars,
                   older>>

-----------------------------------------------------------------------------
MainStep ==
    \/ Dispatch \/ Wake \/ EndJob \/ Said \/ Released \/ StopReception
    \/ ConfigStart \/ ConfigBusy \/ ConfigDone
    \/ StartReception \/ ReceptionStarted \/ PauseEnds
    \/ IoStart \/ IoRefused \/ IoStarted \/ IoSignalled \/ IoTimeout
    \/ PerTransaction \/ PerLeave \/ PerStatusSaid \/ PerWake

WorkerStep ==
    \/ ParseCommand \/ StopAnswered \/ HandleDio \/ RxDoneSync \/ Finish
    \/ RxDoneCallback \/ CallbackReleased \/ RestartAfterCallback

Host == \E c \in HostCommands : HostSends(c)

Next == MainStep \/ WorkerStep \/ Host \/ PacketArrives \/ TransmissionEnds

Spec == Init /\ [][Next]_vars

\* common_task runs on when what it waits for has come, and a transmission
\* ends.  The work queue has the priority of common_task and runs whenever
\* that blocks; it is ready at some of those moments only, hence SF.
FairSpec ==
    /\ Spec
    /\ WF_vars(MainStep)
    /\ SF_vars(WorkerStep)
    /\ WF_vars(TransmissionEnds)

-----------------------------------------------------------------------------
MainPCs == {"loop", "nap", "cas", "say", "offRelease", "sleep", "cfgAcquire",
            "cfgDone", "pause", "ioAcquire", "ioStart", "ioWait", "ioForever",
            "rxAcquire", "rxStart", "perTop", "status", "perNap"}

WorkerPCs == {"idle", "say", "rxRead", "finish", "cbSleep", "cbRx"}

Frequencies == 0 .. Word - 1
Configs == [tx : BOOLEAN, frequency : Frequencies, datarate : Nat]

AppTypes ==
    /\ curState \in States
    /\ perNum \in Nat /\ atomicFreq \in Nat /\ atomicSf \in Nat

ModemTypes ==
    /\ tuned \in [frequency : Frequencies, datarate : Nat]
    /\ modem \in {"FREE", "BUSY", "CLEANUP"}
    /\ radio \in {"sleep", "rx", "tx"}
    /\ asyncCb \in BOOLEAN
    /\ signal \in {"none", "armed", "raised"}

HostTypes ==
    /\ uart \in {"listening", "off"}
    /\ uartBuf \in [cmd : Cmds, arg : Nat]
    /\ used \in [HostCommands -> Nat]
    /\ packets \in Nat

MainTypes ==
    /\ pc \in MainPCs /\ cont \in MainPCs
    /\ job \in States
    /\ arg \in Nat
    /\ loraCfg \in Configs

WorkTypes ==
    /\ workq \in Seq({"dio", "uart"})
    /\ wpc \in WorkerPCs
    /\ older \in BOOLEAN

PastTypes ==
    /\ aborted \in BOOLEAN
    /\ latest \in States \cup {"none"}

\* Every variable keeps its type.
TypeOK ==
    AppTypes /\ ModemTypes /\ HostTypes /\ MainTypes /\ WorkTypes /\ PastTypes

\* The command channel is in one place at a time: reception runs, or the
\* line is queued for the handler, or the handler is at work.  So uart_buf_rx
\* is never overwritten before it is parsed, no line is parsed twice, and
\* the channel is never lost.  Only the handler that a line starts arms
\* reception (main.c:110): a device that does not listen when the command loop
\* starts never hears a command.
CommandChannel ==
    LET q == {i \in 1 .. Len(workq) : workq[i] = "uart"} IN
    /\ uart = "listening" => q = {} /\ wpc # "say"
    /\ wpc = "say" => q = {}
    /\ \A i, j \in q : i = j
    /\ RxArmedAtBoot <=> (uart = "listening" \/ q # {} \/ wpc = "say")

\* The modem is never leaked.  Exactly one thread cleans up while modem_usage
\* says CLEANUP, and a busy modem is in the hands of common_task or receives
\* for lora_receive_cb; anything else would be -EBUSY for ever.
ModemAccounted ==
    LET main == pc = "sleep"
        worker == wpc \in {"finish", "cbSleep"}
    IN /\ modem = "CLEANUP" <=> (main \/ worker)
       /\ ~(main /\ worker)
       /\ modem = "BUSY" =>
             \/ pc \in {"cfgDone", "ioStart", "ioWait", "rxStart"}
             \/ asyncCb /\ radio = "rx"

\* The driver keeps a pointer to a signal on the stack of lora_send or
\* lora_recv only while that call is in progress.
SignalInScope ==
    signal # "none" => pc \in {"ioStart", "ioWait", "ioForever", "sleep"}

Quiet == pc = "nap" /\ curState = "IDLE" /\ wpc = "idle" /\ workq = <<>>

\* "After execution this case will be started receive" (main.c:195 and after
\* every other command): a device with nothing left to do is receiving.
ReceptionResumes == Quiet => radio = "rx" /\ asyncCb

\* "For abort PER measurement" (main.c:229): once STOP has been accepted the
\* running measurement starts no further transaction, whatever packets and other
\* commands come after it, unless another PER revives it (service_device_common.c:38
\* looks at the state word only).
StopAborts == [][PerTransaction => ~aborted]_vars

\* A request that comes while another job runs outlives it: when the loop
\* looks at the state word again it finds what the work queue asked for last,
\* unless that is the very state just served (main.c:173 to main.c:233).
LatestRequestSurvives ==
    pc = "loop" /\ latest \notin {"none", job} => curState = latest

\* The two ways in which common_task stops for good: lora_config asked again
\* and again while the work queue, which it keeps from running, holds the
\* modem; and lora_send waiting for an interrupt handler that is not there.
Spinning == pc = "cfgAcquire" /\ job = "PER_MEAS" /\ modem # "FREE"
Stranded == pc = "ioForever" /\ signal = "none"

\* Every case of the command loop comes to its end, these two cases apart.
EveryJobEnds == pc # "loop" ~> pc = "loop" \/ Spinning \/ Stranded

\* Reception of commands is always armed again, unless common_task spins.
CommandsHeard == uart = "off" ~> uart = "listening" \/ Spinning

\* "Change currently state on STATE_RECV if it still equals STATE_PER_MEAS"
\* (main.c:189): per_meas returns, unless lora_send keeps it for ever.
PerMeasReturns == job = "PER_MEAS" /\ pc # "cas" ~> pc = "cas" \/ Stranded

\* "Get modem configuration" (main.c:194): what GET_CFG prints, the fields of
\* lora_cfg, is what the radio is programmed with.
CfgPrintIsTrue == job = "GET_CFG" /\ pc = "say" => tuned = Asked

\* "Start UART receive" (main.c:171): after STATE_RECV commands are heard.
UartStarted ==
    job = "RECV" /\ pc = "cas" => \/ uart = "listening"
                                  \/ Queued("uart")
                                  \/ wpc = "say"
=============================================================================

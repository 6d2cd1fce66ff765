------------------------------ MODULE Terminal ------------------------------
(***************************************************************************)
(* send_to_terminal (src/app/src/libs/service_device_common.h) as several  *)
(* threads use it at once.  Two threads do in this firmware: common_task   *)
(* prints modem settings and measurement results, and the system work      *)
(* queue answers the STOP command.  They share one flag,                   *)
(* atomic_uart_tx_done, and one UART whose driver accepts one transfer at  *)
(* a time.  The UART and its interrupt run beside both threads.            *)
(*                                                                         *)
(* A step of a thread is one access to the flag or one call of uart_tx,    *)
(* so that the interrupt can fall between any two of them.  The threads    *)
(* interleave freely, which includes every schedule of the cooperative     *)
(* build (two threads of priority 0, no time slices).                      *)
(*                                                                         *)
(* The text of a message does not matter: the n-th call of a thread prints *)
(* message n, and calls[t] is also what the buffer of t holds.             *)
(***************************************************************************)
EXTENDS Naturals

CONSTANTS Threads,      \* the threads that call send_to_terminal
          NoThread,     \* says that the UART sends for nobody
          MaxCalls      \* bound: calls each thread makes

ASSUME TerminalAssumption ==
    /\ NoThread \notin Threads
    /\ MaxCalls \in Nat

VARIABLES pc,        \* where each thread is in send_to_terminal
          calls,     \* calls each thread has made so far
          txDone,    \* atomic_uart_tx_done
          line,      \* the UART transmitter: idle, dma (reads memory), shift
          sender,    \* the thread whose transfer the UART runs, or NoThread
          sending,   \* the message in its buffer when the transfer started
          shown,     \* the last message of each thread that went out
          clash      \* history: the last call of the thread met another call,
                     \* or a transfer that an earlier one had left behind

vars == <<pc, calls, txDone, line, sender, sending, shown, clash>>

\* The driver's busy test is buffer_length # 0.  The end of the DMA clears
\* it; the event that sets txDone follows when the last byte has left.
UartBusy == line = "dma"

Init ==
    /\ pc = [t \in Threads |-> "out"]
    /\ calls = [t \in Threads |-> 0]
    /\ txDone = TRUE
    /\ line = "idle"
    /\ sender = NoThread
    /\ sending = 0
    /\ shown = [t \in Threads |-> 0]
    /\ clash = [t \in Threads |-> FALSE]

-----------------------------------------------------------------------------
Goto(t, from, to) ==
    /\ pc[t] = from
    /\ pc' = [pc EXCEPT ![t] = to]

Inside(t) == pc[t] # "out"

\* The caller formats the next message into its buffer and calls.
Call(t) ==
    /\ calls[t] < MaxCalls
    /\ Goto(t, "out", "claim")
    /\ calls' = [calls EXCEPT ![t] = @ + 1]
    /\ clash' = [u \in Threads |->
                   IF u = t THEN line # "idle" \/ \E v \in Threads : Inside(v)
                   ELSE clash[u] \/ Inside(u)]
    /\ UNCHANGED <<txDone, line, sender, sending, shown>>

\* atomic_cas succeeds: this thread has taken the flag and sleeps 1 ms
\* before it looks again.
ClaimAndSleep(t) ==
    /\ txDone
    /\ Goto(t, "claim", "nap")
    /\ txDone' = FALSE
    /\ UNCHANGED <<calls, line, sender, sending, shown, clash>>

WakeAfterClaim(t) ==
    /\ Goto(t, "nap", "claim")
    /\ UNCHANGED <<calls, txDone, line, sender, sending, shown, clash>>

\* Mutant of ClaimFails: a clear flag is taken for a transfer under way.
ClaimFailsAndWaits(t) ==
    /\ ~txDone
    /\ Goto(t, "claim", "wait")
    /\ UNCHANGED <<calls, txDone, line, sender, sending, shown, clash>>

\* atomic_cas fails: the flag is clear, by this thread or by another.
ClaimFails(t) ==
    /\ ~txDone
    /\ Goto(t, "claim", "start")
    /\ UNCHANGED <<calls, txDone, line, sender, sending, shown, clash>>

\* uart_tx starts the transfer, or returns -EBUSY, which nobody looks at.
UartTx(t) ==
    /\ Goto(t, "start", "wait")
    /\ IF UartBusy
       THEN UNCHANGED <<line, sender, sending>>
       ELSE /\ line' = "dma"
            /\ sender' = t
            /\ sending' = calls[t]
    /\ UNCHANGED <<calls, txDone, shown, clash>>

\* Mutant of Return: uart_tx is not waited for.
ReturnAtOnce(t) ==
    /\ Goto(t, "wait", "out")
    /\ UNCHANGED <<calls, txDone, line, sender, sending, shown, clash>>

\* The polling loop sees the flag set.
Return(t) ==
    /\ txDone
    /\ Goto(t, "wait", "out")
    /\ UNCHANGED <<calls, txDone, line, sender, sending, shown, clash>>

-----------------------------------------------------------------------------
\* Mutant of DmaComplete: the flag is set already when the DMA has ended.
DmaCompleteSetsFlag ==
    /\ line = "dma"
    /\ line' = "shift"
    /\ shown' = [shown EXCEPT ![sender] = sending]
    /\ txDone' = TRUE
    /\ UNCHANGED <<pc, calls, sender, sending, clash>>

\* The DMA has moved the last byte: the driver takes a new transfer again.
DmaComplete ==
    /\ line = "dma"
    /\ line' = "shift"
    /\ shown' = [shown EXCEPT ![sender] = sending]
    /\ UNCHANGED <<pc, calls, txDone, sender, sending, clash>>

\* Mutants of TxDoneEvent: event_cb does not set the flag; the driver does
\* not let go of the buffer.
TxDoneEventIgnored ==
    /\ line = "shift"
    /\ line' = "idle"
    /\ sender' = NoThread
    /\ sending' = 0
    /\ UNCHANGED <<pc, calls, txDone, shown, clash>>

TxDoneEventKeepsBuffer ==
    /\ line = "shift"
    /\ line' = "idle"
    /\ txDone' = TRUE
    /\ UNCHANGED <<pc, calls, sender, sending, shown, clash>>

\* The transmission-complete interrupt: UART_TX_DONE in event_cb.
TxDoneEvent ==
    /\ line = "shift"
    /\ line' = "idle"
    /\ sender' = NoThread
    /\ sending' = 0
    /\ txDone' = TRUE
    /\ UNCHANGED <<pc, calls, shown, clash>>

ThreadStep(t) ==
    \/ ClaimAndSleep(t) \/ WakeAfterClaim(t) \/ ClaimFails(t)
    \/ UartTx(t) \/ Return(t)

Uart == DmaComplete \/ TxDoneEvent

Next ==
    \/ \E t \in Threads : Call(t) \/ ThreadStep(t)
    \/ Uart

Spec == Init /\ [][Next]_vars

\* A thread is scheduled again after every sleep and the UART never stops.
FairSpec ==
    /\ Spec
    /\ \A t \in Threads : WF_vars(ThreadStep(t))
    /\ WF_vars(Uart)

-----------------------------------------------------------------------------
PCs == {"out", "claim", "nap", "start", "wait"}

\* Every variable keeps its type, and the UART names a thread and one of its
\* messages exactly while it sends.
TypeOK ==
    /\ pc \in [Threads -> PCs]
    /\ calls \in [Threads -> 0 .. MaxCalls]
    /\ txDone \in BOOLEAN
    /\ line \in {"idle", "dma", "shift"}
    /\ sender \in IF line = "idle" THEN {NoThread} ELSE Threads
    /\ sending \in 0 .. MaxCalls
    /\ shown \in [Threads -> 0 .. MaxCalls]
    /\ clash \in [Threads -> BOOLEAN]

\* While the flag is clear somebody is bound to set it: the UART is sending,
\* or a thread is on its way to uart_tx.  If this failed, every thread that
\* polls the flag in send_to_terminal would poll for ever.
NoLostWakeup ==
    ~txDone => \/ line # "idle"
               \/ \E t \in Threads : pc[t] \in {"claim", "nap", "start"}

\* "Wait while uart transaction will be ended" (service_device_common.h:122):
\* a thread that has left send_to_terminal has no transfer under way.
ReturnMeansSent ==
    \A t \in Threads : sender = t => pc[t] # "out"

\* send_to_terminal has no result: a caller cannot learn that its message was
\* dropped.  None is, as long as the call meets no other call and no transfer
\* left behind, whatever clashes came before it.
NothingDropped ==
    \A t \in Threads : ~Inside(t) /\ ~clash[t] => shown[t] = calls[t]

\* A caller writes its next message into the buffer of the last one
\* (service_device_common.c:129).  If the UART has not let go of that, the
\* last call clashed: nothing else brings a call back before its transfer ends.
BufferStable ==
    [][\A t \in Threads : calls'[t] # calls[t] /\ sender = t => clash[t]]_vars

\* Every call of send_to_terminal returns, whatever the interleaving: the
\* device does not hang in a print.
EveryCallReturns ==
    \A t \in Threads : Inside(t) ~> ~Inside(t)

\* The calls that have come back, as the callers count them.
Answered == [t \in Threads |-> IF Inside(t) THEN calls[t] - 1 ELSE calls[t]]

PrinterState ==
    CASE line = "dma" -> "printing" [] line = "shift" -> "printed" [] OTHER -> "free"

Promise == INSTANCE Printer
           WITH asked <- calls, answered <- Answered, printer <- PrinterState

\* send_to_terminal implements Printer, progress included: callers that
\* overlap get no more than it says, and no less.
KeepsPromise == Promise!FairSpec
=============================================================================

--------------------------- MODULE TerminalProofs ---------------------------
(***************************************************************************)
(* Theorems about send_to_terminal for any number of threads and of calls. *)
(***************************************************************************)
EXTENDS Terminal, TLAPS

(***************************************************************************)
(* Any callers                                                             *)
(***************************************************************************)

LEMMA TypeInit == Init => TypeOK
  BY TerminalAssumption DEF Init, TypeOK, PCs

LEMMA TypeStep == TypeOK /\ [Next]_vars => TypeOK'
<1> SUFFICES ASSUME TypeOK, [Next]_vars PROVE TypeOK'
  OBVIOUS
<1> USE TerminalAssumption DEF TypeOK, PCs
<1>1. ASSUME NEW t \in Threads, Call(t) PROVE TypeOK'
  <2>1. clash' \in [Threads -> BOOLEAN]
    BY <1>1 DEF Call, Inside
  <2> QED
    BY <1>1, <2>1 DEF Call, Goto
<1>2. ASSUME NEW t \in Threads, ClaimAndSleep(t) PROVE TypeOK'
  BY <1>2 DEF ClaimAndSleep, Goto
<1>3. ASSUME NEW t \in Threads, WakeAfterClaim(t) PROVE TypeOK'
  BY <1>3 DEF WakeAfterClaim, Goto
<1>4. ASSUME NEW t \in Threads, ClaimFails(t) PROVE TypeOK'
  BY <1>4 DEF ClaimFails, Goto
<1>5. ASSUME NEW t \in Threads, UartTx(t) PROVE TypeOK'
  BY <1>5 DEF UartTx, Goto, UartBusy
<1>6. ASSUME NEW t \in Threads, Return(t) PROVE TypeOK'
  BY <1>6 DEF Return, Goto
<1>7. CASE DmaComplete
  BY <1>7 DEF DmaComplete
<1>8. CASE TxDoneEvent
  BY <1>8 DEF TxDoneEvent
<1>9. CASE UNCHANGED vars
  BY <1>9 DEF vars
<1> QED
  BY <1>1, <1>2, <1>3, <1>4, <1>5, <1>6, <1>7, <1>8, <1>9
     DEF Next, ThreadStep, Uart

\* send_to_terminal keeps its flag, its transfers and its callers in order.
THEOREM TypeCorrect == Spec => []TypeOK
  BY TypeInit, TypeStep, PTL DEF Spec

LEMMA WakeupStep == TypeOK /\ NoLostWakeup /\ [Next]_vars => NoLostWakeup'
<1> SUFFICES ASSUME TypeOK, NoLostWakeup, [Next]_vars, ~txDone'
             PROVE  \/ line' # "idle"
                    \/ \E t \in Threads : pc'[t] \in {"claim", "nap", "start"}
  BY DEF NoLostWakeup
<1> USE TerminalAssumption DEF TypeOK, NoLostWakeup
<1>1. ASSUME NEW t \in Threads, Call(t)
      PROVE  pc'[t] \in {"claim", "nap", "start"}
  BY <1>1 DEF Call, Goto
<1>2. ASSUME NEW t \in Threads, ClaimAndSleep(t)
      PROVE  pc'[t] \in {"claim", "nap", "start"}
  BY <1>2 DEF ClaimAndSleep, Goto
<1>3. ASSUME NEW t \in Threads, WakeAfterClaim(t)
      PROVE  pc'[t] \in {"claim", "nap", "start"}
  BY <1>3 DEF WakeAfterClaim, Goto
<1>4. ASSUME NEW t \in Threads, ClaimFails(t)
      PROVE  pc'[t] \in {"claim", "nap", "start"}
  BY <1>4 DEF ClaimFails, Goto
<1>5. ASSUME NEW t \in Threads, UartTx(t) PROVE line' # "idle"
  BY <1>5 DEF UartTx, Goto, UartBusy
<1>6. ASSUME NEW t \in Threads, Return(t) PROVE FALSE
  BY <1>6 DEF Return
<1>7. CASE DmaComplete
  BY <1>7 DEF DmaComplete
<1>8. CASE TxDoneEvent
  BY <1>8 DEF TxDoneEvent
<1>9. CASE UNCHANGED vars
  BY <1>9 DEF vars
<1> QED
  BY <1>1, <1>2, <1>3, <1>4, <1>5, <1>6, <1>7, <1>8, <1>9
     DEF Next, ThreadStep, Uart

\* However the threads and the UART interleave, a thread that polls a clear
\* flag has somebody to set it.
THEOREM NoWakeupIsLost == Spec => []NoLostWakeup
<1>1. Init => NoLostWakeup
  BY DEF Init, NoLostWakeup
<1> QED
  BY <1>1, WakeupStep, TypeCorrect, PTL DEF Spec

(***************************************************************************)
(* Calls that have the UART to themselves, among any others                *)
(***************************************************************************)

\* What flag, line and counters say follows from where such a call is, and
\* nobody else is inside.
Clear(t) ==
    /\ ~Inside(t) => shown[t] = calls[t] /\ sender # t
    /\ Inside(t) => \A u \in Threads : Inside(u) => u = t
    /\ pc[t] \in {"claim", "nap", "start"} => line = "idle"
    /\ pc[t] \in {"nap", "start"} => ~txDone
    /\ pc[t] = "wait" =>
          \/ line = "dma" /\ sender = t /\ ~txDone
          \/ line = "shift" /\ sender = t /\ shown[t] = calls[t] /\ ~txDone
          \/ line = "idle" /\ shown[t] = calls[t]

\* A message goes out after its call and before the next of its thread.
InOrder(t) ==
    /\ shown[t] <= calls[t]
    /\ Inside(t) => calls[t] > 0
    /\ pc[t] \in {"claim", "nap", "start"} => shown[t] < calls[t]
    /\ line = "dma" /\ sender = t =>
          /\ shown[t] < sending /\ sending <= calls[t]
          /\ sending = calls[t] \/ clash[t]
          /\ pc[t] \in {"claim", "nap", "start"} => sending < calls[t]

PromiseInv ==
    /\ TypeOK
    /\ \A t \in Threads : InOrder(t)
    /\ \A t \in Threads : ~clash[t] => Clear(t)

LEMMA PromiseInit == Init => PromiseInv
  BY TypeInit, TerminalAssumption
     DEF Init, PromiseInv, Clear, InOrder, Inside

LEMMA OrderStep ==
    TypeOK /\ TypeOK' /\ (\A t \in Threads : InOrder(t)) /\ [Next]_vars =>
      \A t \in Threads : InOrder(t)'
<1> SUFFICES ASSUME TypeOK, TypeOK', \A t \in Threads : InOrder(t), [Next]_vars,
                    NEW u \in Threads
             PROVE  InOrder(u)'
  OBVIOUS
<1> USE TerminalAssumption DEF InOrder, Inside, TypeOK, PCs
<1>1. ASSUME NEW t \in Threads, Call(t) PROVE InOrder(u)'
  BY <1>1 DEF Call, Goto
<1>2. ASSUME NEW t \in Threads, ClaimAndSleep(t) PROVE InOrder(u)'
  BY <1>2 DEF ClaimAndSleep, Goto
<1>3. ASSUME NEW t \in Threads, WakeAfterClaim(t) PROVE InOrder(u)'
  BY <1>3 DEF WakeAfterClaim, Goto
<1>4. ASSUME NEW t \in Threads, ClaimFails(t) PROVE InOrder(u)'
  BY <1>4 DEF ClaimFails, Goto
<1>5. ASSUME NEW t \in Threads, UartTx(t) PROVE InOrder(u)'
  BY <1>5 DEF UartTx, Goto, UartBusy
<1>6. ASSUME NEW t \in Threads, Return(t) PROVE InOrder(u)'
  BY <1>6 DEF Return, Goto
<1>7. CASE DmaComplete
  BY <1>7 DEF DmaComplete
<1>8. CASE TxDoneEvent
  BY <1>8 DEF TxDoneEvent
<1>9. CASE UNCHANGED vars
  BY <1>9 DEF vars
<1> QED
  BY <1>1, <1>2, <1>3, <1>4, <1>5, <1>6, <1>7, <1>8, <1>9
     DEF Next, ThreadStep, Uart

LEMMA ClearStep ==
    PromiseInv /\ TypeOK' /\ [Next]_vars =>
      \A t \in Threads : ~clash'[t] => Clear(t)'
<1> SUFFICES ASSUME PromiseInv, TypeOK', [Next]_vars,
                    NEW u \in Threads, ~clash'[u]
             PROVE  Clear(u)'
  OBVIOUS
<1> USE TerminalAssumption DEF PromiseInv, Clear, InOrder, Inside, TypeOK, PCs
<1>1. ASSUME NEW t \in Threads, Call(t) PROVE Clear(u)'
  <2>1. CASE t = u
    BY <1>1, <2>1 DEF Call, Goto
  <2>2. CASE t # u
    <3>1. ~clash[u] /\ ~Inside(u)
      BY <1>1, <2>2 DEF Call
    <3> QED
      BY <1>1, <2>2, <3>1 DEF Call, Goto
  <2> QED
    BY <2>1, <2>2
<1>2. ASSUME NEW t \in Threads, ClaimAndSleep(t) PROVE Clear(u)'
  BY <1>2 DEF ClaimAndSleep, Goto
<1>3. ASSUME NEW t \in Threads, WakeAfterClaim(t) PROVE Clear(u)'
  BY <1>3 DEF WakeAfterClaim, Goto
<1>4. ASSUME NEW t \in Threads, ClaimFails(t) PROVE Clear(u)'
  BY <1>4 DEF ClaimFails, Goto
<1>5. ASSUME NEW t \in Threads, UartTx(t) PROVE Clear(u)'
  BY <1>5 DEF UartTx, Goto, UartBusy
<1>6. ASSUME NEW t \in Threads, Return(t) PROVE Clear(u)'
  BY <1>6 DEF Return, Goto
<1>7. CASE DmaComplete
  BY <1>7 DEF DmaComplete
<1>8. CASE TxDoneEvent
  BY <1>8 DEF TxDoneEvent
<1>9. CASE UNCHANGED vars
  BY <1>9 DEF vars
<1> QED
  BY <1>1, <1>2, <1>3, <1>4, <1>5, <1>6, <1>7, <1>8, <1>9
     DEF Next, ThreadStep, Uart

LEMMA PromiseInvStep == PromiseInv /\ [Next]_vars => PromiseInv'
  BY TypeStep, OrderStep, ClearStep DEF PromiseInv

LEMMA PromiseAlways == Spec => []PromiseInv
  BY PromiseInit, PromiseInvStep, PTL DEF Spec

\* A call that meets no other call and no transfer left behind has put its
\* message on the wire when it comes back, however the others overlap before
\* and after it.
THEOREM NothingIsDropped == Spec => []NothingDropped
<1>1. PromiseInv => NothingDropped
  BY DEF PromiseInv, Clear, NothingDropped
<1> QED
  BY <1>1, PromiseAlways, PTL

\* A caller that rewrites a buffer which the UART still has, has clashed before.
THEOREM BuffersAreStable == Spec => BufferStable
<1>1. PromiseInv /\ [Next]_vars =>
        [\A t \in Threads : calls'[t] # calls[t] /\ sender = t => clash[t]]_vars
  <2> SUFFICES ASSUME PromiseInv, Next, NEW t \in Threads,
                      calls'[t] # calls[t], sender = t, ~clash[t]
               PROVE  FALSE
    OBVIOUS
  <2>1. Inside(t)
    BY DEF PromiseInv, Clear
  <2>2. \A u \in Threads : ~ThreadStep(u)
    BY DEF ThreadStep, ClaimAndSleep, WakeAfterClaim, ClaimFails, UartTx, Return
  <2>3. ~Uart
    BY DEF Uart, DmaComplete, TxDoneEvent
  <2>4. \A u \in Threads : ~Call(u)
    BY <2>1 DEF Call, Goto, Inside, PromiseInv, TypeOK
  <2> QED
    BY <2>2, <2>3, <2>4 DEF Next
<1> QED
  BY <1>1, PromiseAlways, PTL DEF Spec, BufferStable

(***************************************************************************)
(* The refinement                                                          *)
(***************************************************************************)

LEMMA WaitsMeansInside ==
  ASSUME PromiseInv, NEW t \in Threads
  PROVE  Promise!Waits(t) <=> Inside(t)
  BY DEF PromiseInv, TypeOK, InOrder, Promise!Waits, Answered

LEMMA PromiseStep == PromiseInv /\ [Next]_vars => [Promise!Next]_Promise!vars
<1> SUFFICES ASSUME PromiseInv, [Next]_vars PROVE [Promise!Next]_Promise!vars
  OBVIOUS
<1>0. TypeOK /\ TypeOK'
  BY TypeStep DEF PromiseInv
<1>1. ASSUME NEW t \in Threads, Call(t) PROVE Promise!Ask(t)
  <2>1. Answered' = Answered
    BY <1>0, <1>1 DEF Call, Goto, Answered, Inside, TypeOK
  <2>2. clash' = [u \in Threads |->
                    IF u = t THEN PrinterState # "free"
                                  \/ \E v \in Threads : Promise!Waits(v)
                    ELSE clash[u] \/ Promise!Waits(u)]
    <3>1. PrinterState # "free" <=> line # "idle"
      BY <1>0 DEF TypeOK, PrinterState
    <3>2. \A u \in Threads : Promise!Waits(u) <=> Inside(u)
      BY WaitsMeansInside
    <3> QED
      BY <1>1, <3>1, <3>2 DEF Call
  <2>3. ~Promise!Waits(t)
    BY <1>1, WaitsMeansInside DEF Call, Goto, Inside
  <2> QED
    BY <1>1, <2>1, <2>2, <2>3 DEF Call, PrinterState, Promise!Ask
<1>2. ASSUME NEW t \in Threads, Return(t) PROVE Promise!Answer(t)
  <2>1. Inside(t) /\ pc' = [pc EXCEPT ![t] = "out"] /\ calls' = calls
    BY <1>2 DEF Return, Goto, Inside
  <2>2. calls[t] \in Nat /\ Answered[t] = calls[t] - 1
    BY <1>0, <2>1 DEF Answered, TypeOK
  <2>3. Answered' = [Answered EXCEPT ![t] = @ + 1]
    <3>1. Answered' = [u \in Threads |-> IF u = t THEN calls[t] ELSE Answered[u]]
      BY <1>0, <2>1 DEF Answered, Inside, TypeOK
    <3>2. calls[t] = Answered[t] + 1
      BY <2>2
    <3>3. Answered = [u \in Threads |-> Answered[u]]
      BY DEF Answered
    <3> QED
      BY <3>1, <3>2, <3>3
  <2>4. clash[t] \/ (shown[t] = calls[t] /\ PrinterState = "free")
    BY <1>2 DEF Return, Goto, PromiseInv, Clear, PrinterState
  <2> QED
    BY <1>2, <2>1, <2>3, <2>4, WaitsMeansInside
       DEF Return, PrinterState, Promise!Answer
<1>3. ASSUME NEW t \in Threads, UartTx(t)
      PROVE  Promise!Take(t) \/ UNCHANGED Promise!vars
  <2>1. Answered' = Answered
    BY <1>0, <1>3 DEF UartTx, Goto, Answered, Inside, TypeOK
  <2>2. CASE UartBusy
    BY <1>3, <2>1, <2>2 DEF UartTx, PrinterState, Promise!vars
  <2>3. CASE ~UartBusy
    <3>1. Promise!Waits(t) /\ shown[t] < calls[t]
      BY <1>3, WaitsMeansInside DEF UartTx, Goto, Inside, PromiseInv, InOrder
    <3> QED
      BY <1>3, <2>1, <2>3, <3>1
         DEF UartTx, UartBusy, PrinterState, Promise!Take
  <2> QED
    BY <2>2, <2>3
<1>4. CASE DmaComplete
  <2>1. sender \in Threads /\ Answered' = Answered
    BY <1>0, <1>4 DEF DmaComplete, TypeOK, Answered, Inside
  <2>2. /\ shown[sender] < sending /\ sending <= calls[sender]
        /\ sending = calls[sender] \/ clash[sender]
    BY <1>4, <2>1 DEF DmaComplete, PromiseInv, InOrder
  <2>3. Promise!Show(sender, sending)
    BY <1>4, <2>1, <2>2 DEF DmaComplete, PrinterState, Promise!Show
  <2>4. sending \in 1 .. calls[sender]
    BY <1>0, <2>1, <2>2 DEF TypeOK
  <2> QED
    BY <2>1, <2>3, <2>4 DEF Promise!Next, Promise!Emit
<1>5. CASE TxDoneEvent
  <2>1. Answered' = Answered
    BY <1>5 DEF TxDoneEvent, Answered, Inside
  <2> QED
    BY <1>5, <2>1
       DEF TxDoneEvent, PrinterState, Promise!Finish, Promise!Next, Promise!Emit
<1>6. ASSUME NEW t \in Threads,
             ClaimAndSleep(t) \/ WakeAfterClaim(t) \/ ClaimFails(t)
      PROVE  UNCHANGED Promise!vars
  <2>1. Answered' = Answered
    BY <1>0, <1>6
       DEF ClaimAndSleep, WakeAfterClaim, ClaimFails, Goto, Answered, Inside, TypeOK
  <2> QED
    BY <1>6, <2>1
       DEF ClaimAndSleep, WakeAfterClaim, ClaimFails, PrinterState, Promise!vars
<1>7. CASE UNCHANGED vars
  BY <1>7 DEF vars, Answered, Inside, PrinterState, Promise!vars
<1> QED
  BY <1>1, <1>2, <1>3, <1>4, <1>5, <1>6, <1>7
     DEF Next, ThreadStep, Uart, Promise!Next

\* Whatever its callers do, send_to_terminal does what Printer says: messages
\* go out in order and at most once, and a call that has the UART to itself
\* comes back after its message.
THEOREM ImplementsPrinter == Spec => Promise!Spec
<1>1. Init => Promise!Init
  BY DEF Init, Answered, Inside, PrinterState, Promise!Init
<1> QED
  BY <1>1, PromiseStep, PromiseAlways, PTL DEF Spec, Promise!Spec
=============================================================================

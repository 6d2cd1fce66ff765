--------------------------- MODULE ReceptionProofs ---------------------------
(***************************************************************************)
(* A theorem about the service device: after every case of the command     *)
(* loop the device receives again (ReceptionResumes).  No case guarantees  *)
(* that by itself.  The reception call at its end is refused whenever the  *)
(* work queue holds the modem, an interrupt handler may put the radio to   *)
(* sleep behind the back of common_task, and lora_recv, which clears the   *)
(* callback, may still have a handler at work when it returns.  So the     *)
(* invariant below has to follow both threads through every exchange with  *)
(* the radio.                                                              *)
(***************************************************************************)
EXTENDS ServiceDeviceProofs

\* The labels through which common_task serves a state.
Course(state) ==
    LET io == {"cfgAcquire", "cfgDone", "ioAcquire", "ioStart", "ioWait",
               "ioForever"}
    IN {"cas", "loop"} \cup
       CASE state = "RECV" -> {"rxAcquire", "rxStart"}
         [] state = "IDLE" -> {"nap"}
         [] state = "TRANSMIT" -> io \cup {"pause", "rxAcquire", "rxStart"}
         [] state = "PER_MEAS" ->
               io \cup {"say", "offRelease", "perTop", "status", "perNap"}
         [] OTHER -> {"offRelease", "cfgAcquire", "cfgDone", "say"}

OnCourse ==
    /\ Here \in Course(job)
    /\ pc = "sleep" => cont \in IF job = "TRANSMIT"
                                THEN {"pause", "rxAcquire"}
                                ELSE {"perTop", "say", "cfgAcquire",
                                      "ioAcquire", "status"}
    /\ job = "IDLE" => pc \in {"nap", "loop"}
    /\ job = "TRANSMIT" => loraCfg.tx

\* Only the end of STATE_RECV makes the device idle.
IdleByReception == curState = "IDLE" => pc \in {"loop", "nap"}

\* The work queue is not in an exchange with the radio.
Resting == wpc \in {"idle", "say"}

\* An exchange that began in a sleep of common_task which is over is not
\* "older" any more; and a callback at work when lora_recv clears its pointer
\* restarts reception before that call can time out.
Exchange ==
    /\ older /\ ~Resting => pc \in Sleeps
    /\ wpc = "cbSleep" => asyncCb
    /\ wpc = "cbRx" /\ ~asyncCb =>
          /\ job = "PER_MEAS" /\ pc \in {"ioStart", "ioWait"}
          /\ modem = "BUSY" /\ ~older

\* Where common_task can be while the end of a blocking call puts the radio
\* to sleep: in front of a label that starts reception it has to wait.
Finishing ==
    wpc = "finish" =>
        \/ pc \in {"cfgDone", "ioWait", "ioForever"}
        \/ pc \in {"pause", "say", "status"} /\ ~older
        \/ pc \in {"cfgAcquire", "ioAcquire"} /\ job = "PER_MEAS"
        \/ pc = "ioStart" /\ job = "PER_MEAS" /\ ~asyncCb

\* A transmission belongs to a call of lora_send; a measurement may be on its
\* way out of that call.
Transmitting ==
    radio = "tx" =>
        \/ pc = "sleep"
        \/ pc \in {"ioWait", "ioForever"} /\ Sending
        \/ /\ pc \in {"cfgAcquire", "cfgDone"} /\ job = "PER_MEAS"
           /\ Resting
           /\ pc = "cfgDone" => modem = "BUSY"

\* What a raised signal tells the call that finds it.
Signalled ==
    signal = "raised" =>
        /\ pc = "ioStart" => job = "PER_MEAS" /\ radio = "sleep" /\ Resting
        /\ pc # "ioStart" /\ Sending => radio # "rx" /\ Resting
        /\ job = "TRANSMIT" => radio = "sleep"

\* An answer with no callback registered follows an interrupted measurement:
\* the radio must have gone to sleep before lora_send takes the modem.
Answering ==
    job = "TRANSMIT" /\ ~asyncCb =>
        /\ pc = "cfgAcquire" => modem = "FREE"
        /\ pc = "cfgDone" /\ modem = "FREE" => radio = "sleep"
        /\ pc = "pause" => radio = "sleep" \/ wpc = "finish"
        /\ pc = "pause" /\ ~Resting => ~older
        /\ pc \in {"ioAcquire", "ioStart"} => radio = "sleep" /\ Resting

\* Served means receiving, or about to receive again after a callback.
Settled ==
    \/ pc = "nap"
    \/ pc = "cas" /\ job = "RECV"
    \/ pc = "loop" /\ curState = "IDLE"
    => asyncCb /\ (radio = "rx" \/ wpc \in {"cbSleep", "cbRx"})

ReceptionInv ==
    /\ OnCourse /\ IdleByReception /\ Exchange /\ Finishing
    /\ Transmitting /\ Signalled /\ Answering /\ Settled

(***************************************************************************)
(* The host sends commands only                                            *)
(***************************************************************************)
OnlyCommands == \A c \in HostCommands : c.cmd # "unknown"

KnownLine == Queued("uart") => uartBuf.cmd # "unknown"

LEMMA QueuedAfterTail ==
  ASSUME workq \in Seq({"dio", "uart"}), workq # <<>>
  PROVE  /\ Head(workq) = "uart" => Queued("uart")
         /\ workq' = Tail(workq) /\ Queued("uart")' => Queued("uart")
<1>1. Head(workq) = workq[1] /\ 1 \in 1 .. Len(workq)
  OBVIOUS
<1>2. /\ Len(Tail(workq)) = Len(workq) - 1
      /\ \A i \in 1 .. Len(Tail(workq)) : /\ Tail(workq)[i] = workq[i + 1]
                                          /\ i + 1 \in 1 .. Len(workq)
  OBVIOUS
<1> QED
  BY <1>1, <1>2 DEF Queued

LEMMA QueuedAfterSubmit ==
  ASSUME workq \in Seq({"dio", "uart"}), workq' = Submit("dio"),
         Queued("uart")'
  PROVE  Queued("uart")
<1>1. \A i \in 1 .. Len(Append(workq, "dio")) :
         \/ i \in 1 .. Len(workq) /\ Append(workq, "dio")[i] = workq[i]
         \/ Append(workq, "dio")[i] = "dio"
  OBVIOUS
<1> QED
  BY <1>1 DEF Queued, Submit

LEMMA KnownLineStep ==
  ASSUME OnlyCommands, TypeOK, KnownLine, [Next]_vars
  PROVE  KnownLine'
<1>0. workq \in Seq({"dio", "uart"})
  BY DEF TypeOK, WorkTypes
<1>1. ASSUME NEW c \in HostCommands, HostSends(c) PROVE KnownLine'
  BY <1>1 DEF HostSends, OnlyCommands, KnownLine
<1>2. CASE ParseCommand \/ HandleDio
  <2>1. uartBuf' = uartBuf /\ workq # <<>> /\ workq' = Tail(workq)
    BY <1>2 DEF ParseCommand, HandleDio, WorkerFree, hostVars
  <2> QED
    BY <1>0, <2>1, QueuedAfterTail DEF KnownLine
<1>3. CASE PacketArrives \/ TransmissionEnds
  <2>1. uartBuf' = uartBuf /\ workq' = Submit("dio")
    BY <1>3 DEF PacketArrives, TransmissionEnds, hostVars
  <2> QED
    BY <1>0, <2>1, QueuedAfterSubmit DEF KnownLine
<1>4. CASE \/ StopAnswered \/ RxDoneSync \/ Finish \/ RxDoneCallback
           \/ CallbackReleased \/ RestartAfterCallback \/ UNCHANGED vars
  BY <1>4
     DEF StopAnswered, RxDoneSync, Finish, RxDoneCallback, CallbackReleased,
         RestartAfterCallback, vars, hostVars, KnownLine, Queued
<1>5. CASE MainStep
  BY <1>5
     DEF MainStep, Dispatch, Wake, EndJob, Said, Released, StopReception,
         ConfigStart, ConfigBusy, ConfigDone, StartReception,
         ReceptionStarted, PauseEnds, IoStart, IoRefused, IoStarted,
         IoSignalled, IoTimeout, PerTransaction, PerLeave, PerStatusSaid,
         PerWake, hostVars, KnownLine, Queued
<1> QED
  BY <1>1, <1>2, <1>3, <1>4, <1>5 DEF Next, WorkerStep, Host

(***************************************************************************)
(* The invariant is inductive                                              *)
(***************************************************************************)
LEMMA ReceptionStep ==
  TypeOK /\ DriverInv /\ KnownLine /\ ReceptionInv /\ [Next]_vars
  => ReceptionInv'
<1> SUFFICES ASSUME TypeOK, DriverInv, KnownLine, ReceptionInv, [Next]_vars
             PROVE  ReceptionInv'
  OBVIOUS
<1> USE DEF TypeOK, ModemTypes, MainTypes, Configs, DriverInv,
            ModemAccounted, SignalInScope, ReceptionInv, OnCourse, Course,
            Here, IdleByReception, Exchange, Resting, Sleeps, Finishing,
            Transmitting, Sending, Signalled, Answering, Settled, MidRun,
            TimerMayExpire, appVars, modemVars, hostVars, mainVars, pastVars
<1>1. CASE Dispatch
  BY <1>1 DEF Dispatch, EntryOf
<1>2. CASE Wake
  BY <1>2 DEF Wake
<1>3. CASE EndJob
  BY <1>3 DEF EndJob
<1>4. CASE Said
  BY <1>4 DEF Said
<1>5. CASE Released
  BY <1>5 DEF Released
<1>6. CASE StopReception
  BY <1>6 DEF StopReception, Release
<1>7. CASE ConfigStart
  BY <1>7 DEF ConfigStart, Adjusted
<1>8. CASE ConfigBusy
  BY <1>8 DEF ConfigBusy, Adjusted, AfterConfig
<1>9. CASE ConfigDone
  BY <1>9 DEF ConfigDone, AfterConfig, Release
<1>10. CASE StartReception
  BY <1>10 DEF StartReception
<1>11. CASE ReceptionStarted
  BY <1>11 DEF ReceptionStarted
<1>12. CASE PauseEnds
  BY <1>12 DEF PauseEnds
<1>13. CASE IoStart
  BY <1>13 DEF IoStart
<1>14. CASE IoRefused
  BY <1>14 DEF IoRefused, AfterIo, CfgAfterIo
<1>15. CASE IoStarted
  BY <1>15 DEF IoStarted
<1>16. CASE IoSignalled
  BY <1>16 DEF IoSignalled, AfterIo, CfgAfterIo
<1>17. CASE IoTimeout
  <2>1. job \in {"TRANSMIT", "PER_MEAS"}
    BY <1>17 DEF IoTimeout
  <2>2. CASE modem = "BUSY"
    <3>1. /\ pc' = "sleep" /\ cont' = AfterIo /\ loraCfg' = CfgAfterIo
          /\ older' = FALSE
          /\ UNCHANGED <<curState, asyncCb, radio, signal, job, wpc>>
      BY <1>17, <2>2 DEF IoTimeout, Release
    <3>2. /\ job = "TRANSMIT" => AfterIo = "rxAcquire"
          /\ job # "TRANSMIT" => AfterIo \in {"cfgAcquire", "status"}
      BY DEF AfterIo
    <3>3. job = "TRANSMIT" => CfgAfterIo.tx
      BY DEF CfgAfterIo
    <3>4. OnCourse'
      BY <2>1, <3>1, <3>2, <3>3
    <3>5. IdleByReception' /\ Exchange' /\ Finishing'
      BY <1>17, <2>2, <3>1 DEF IoTimeout
    <3> QED
      BY <1>17, <3>1, <3>4, <3>5 DEF IoTimeout
  <2>3. CASE modem # "BUSY"
    BY <1>17, <2>1, <2>3 DEF IoTimeout
  <2> QED
    BY <2>2, <2>3
<1>18. CASE PerTransaction
  BY <1>18 DEF PerTransaction
<1>19. CASE PerLeave
  BY <1>19 DEF PerLeave
<1>20. CASE PerStatusSaid
  BY <1>20 DEF PerStatusSaid
<1>21. CASE PerWake
  BY <1>21 DEF PerWake
<1>22. CASE ParseCommand
  <2>1. uartBuf.cmd \in Cmds /\ uartBuf.cmd # "unknown"
    BY <1>22, QueuedAfterTail
       DEF ParseCommand, WorkerFree, KnownLine, HostTypes, WorkTypes
  <2>2. StateFor(uartBuf.cmd) # "IDLE"
    BY <2>1 DEF StateFor, Cmds
  <2> QED
    BY <1>22, <2>2 DEF ParseCommand, WorkerFree
<1>23. CASE StopAnswered
  BY <1>23 DEF StopAnswered
<1>24. CASE HandleDio
  <2>1. CASE radio = "rx"
    BY <1>24, <2>1 DEF HandleDio, WorkerFree
  <2>2. CASE radio = "tx"
    BY <1>24, <2>2 DEF HandleDio, WorkerFree, WorkerRelease
  <2>3. CASE radio \notin {"rx", "tx"}
    BY <1>24, <2>3 DEF HandleDio, WorkerFree
  <2> QED
    BY <2>1, <2>2, <2>3
<1>25. CASE RxDoneSync
  BY <1>25 DEF RxDoneSync, WorkerRelease
<1>26. CASE Finish
  BY <1>26 DEF Finish
<1>27. CASE RxDoneCallback
  BY <1>27 DEF RxDoneCallback, WorkerRelease
<1>28. CASE CallbackReleased
  BY <1>28 DEF CallbackReleased
<1>29. CASE RestartAfterCallback
  BY <1>29 DEF RestartAfterCallback
<1>30. CASE PacketArrives
  BY <1>30 DEF PacketArrives
<1>31. CASE TransmissionEnds
  BY <1>31 DEF TransmissionEnds
<1>32. ASSUME NEW c \in HostCommands, HostSends(c) PROVE ReceptionInv'
  BY <1>32 DEF HostSends
<1>33. CASE UNCHANGED vars
  BY <1>33 DEF vars
<1> QED
  BY <1>1, <1>2, <1>3, <1>4, <1>5, <1>6, <1>7, <1>8, <1>9, <1>10, <1>11,
     <1>12, <1>13, <1>14, <1>15, <1>16, <1>17, <1>18, <1>19, <1>20, <1>21,
     <1>22, <1>23, <1>24, <1>25, <1>26, <1>27, <1>28, <1>29, <1>30, <1>31,
     <1>32, <1>33
     DEF Next, MainStep, WorkerStep, Host

\* As long as the host sends commands only, a device that has nothing left to
\* do is receiving, with its callback registered: no interleaving of packets,
\* commands, timeouts and refused calls of the driver leaves it deaf.  (A line
\* that is no command does: run device_garbage.)
THEOREM ReceptionIsResumed ==
  ASSUME OnlyCommands PROVE Spec => []ReceptionResumes
<1>1. Init => DriverInv /\ KnownLine /\ ReceptionInv
  BY DEF Init, DriverInv, ModemAccounted, SignalInScope, KnownLine, Queued,
         ReceptionInv, OnCourse, Course, Here, IdleByReception, Exchange,
         Resting, Finishing, Transmitting, Signalled, Answering, Settled
<1>2. TypeOK /\ KnownLine /\ [Next]_vars => KnownLine'
  BY KnownLineStep
<1>3. ReceptionInv => ReceptionResumes
  BY DEF ReceptionInv, Settled, ReceptionResumes, Quiet
<1> QED
  BY <1>1, <1>2, <1>3, TypeCorrect, DriverStep, ReceptionStep, PTL DEF Spec
=============================================================================

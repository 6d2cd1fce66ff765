------------------------ MODULE ServiceDeviceProofs ------------------------
(***************************************************************************)
(* Theorems about the service device, for every set of host lines, every   *)
(* number of them and of packets, and every arithmetic constant.           *)
(***************************************************************************)
EXTENDS ServiceDevice, TLAPS

(***************************************************************************)
(* Type correctness                                                        *)
(***************************************************************************)

LEMMA ModuloInRange == \A n \in Nat : n % Word \in Frequencies
  BY ServiceDeviceAssumption DEF Frequencies

LEMMA AdjustedType ==
  ASSUME loraCfg \in Configs, arg \in Nat
  PROVE  Adjusted \in Configs
<1> USE ServiceDeviceAssumption DEF Configs, Frequencies
<1>1. (loraCfg.frequency + FreqStep) % Word \in Frequencies
  BY ModuloInRange
<1>2. (loraCfg.frequency + Word - FreqStep) % Word \in Frequencies
  BY ModuloInRange
<1>3. (arg * Kilo) % Word \in Frequencies
  BY ModuloInRange
<1> QED
  BY <1>1, <1>2, <1>3 DEF Adjusted

LEMMA SubmitType ==
  ASSUME workq \in Seq({"dio", "uart"}), NEW item \in {"dio", "uart"}
  PROVE  Submit(item) \in Seq({"dio", "uart"})
  BY DEF Submit

LEMMA StateForType == \A cmd : StateFor(cmd) \in States
  BY DEF StateFor, States

LEMMA HelperTypes ==
  ASSUME TypeOK
  PROVE  /\ EntryOf(curState) \in MainPCs
         /\ ArgOf(curState) \in Nat
         /\ AfterConfig \in MainPCs
         /\ AfterIo \in MainPCs
         /\ CfgAfterIo \in Configs
<1>1. EntryOf(curState) \in MainPCs
  BY DEF EntryOf, MainPCs
<1>2. ArgOf(curState) \in Nat
  BY DEF ArgOf, TypeOK, AppTypes
<1>3. AfterConfig \in MainPCs /\ AfterIo \in MainPCs
  BY DEF AfterConfig, AfterIo, MainPCs
<1>4. CfgAfterIo \in Configs
  BY DEF CfgAfterIo, Configs, TypeOK, MainTypes
<1> QED
  BY <1>1, <1>2, <1>3, <1>4

LEMMA TypeInit == Init => TypeOK
<1> SUFFICES ASSUME Init PROVE TypeOK
  OBVIOUS
<1> USE ServiceDeviceAssumption DEF Init
<1>1. BootFreq \in Frequencies /\ BootFreq \in Nat
  BY DEF Frequencies
<1>2. AppTypes
  BY <1>1 DEF AppTypes, States
<1>3. ModemTypes
  BY <1>1 DEF ModemTypes
<1>4. HostTypes
  BY DEF HostTypes, NoCommand, Cmds
<1>5. MainTypes
  BY <1>1 DEF MainTypes, MainPCs, States, Configs
<1>6. WorkTypes
  <2>1. workq \in Seq({"dio", "uart"})
    OBVIOUS
  <2> QED
    BY <2>1 DEF WorkTypes, WorkerPCs
<1>7. PastTypes
  BY DEF PastTypes
<1> QED
  BY <1>2, <1>3, <1>4, <1>5, <1>6, <1>7 DEF TypeOK

(***************************************************************************)
(* per_meas counts its transactions down, and arg - 1 is a natural number  *)
(* only because it never prints a status with no transaction left.         *)
(***************************************************************************)
Here == IF pc = "sleep" THEN cont ELSE pc
IoLabels == {"ioAcquire", "ioStart", "ioWait", "ioForever", "status"}

PerCounts ==
    /\ Here \in IoLabels => job \in {"TRANSMIT", "PER_MEAS"}
    /\ Here = "pause" => job = "TRANSMIT"
    /\ Here = "status" => job = "PER_MEAS"
    /\ job = "PER_MEAS" /\ Here \in IoLabels \cup {"cfgAcquire", "cfgDone"} =>
          arg > 0

LEMMA CountStep == TypeOK /\ PerCounts /\ [Next]_vars => PerCounts'
<1> SUFFICES ASSUME TypeOK, PerCounts, [Next]_vars PROVE PerCounts'
  OBVIOUS
<1> USE DEF PerCounts, Here, IoLabels
<1>1. CASE Dispatch
  BY <1>1 DEF Dispatch, EntryOf
<1>2. CASE Wake
  BY <1>2 DEF Wake
<1>3. CASE EndJob
  BY <1>3 DEF EndJob
<1>4. CASE Said
  BY <1>4 DEF Said
<1>5. CASE Released
  BY <1>5 DEF Released
<1>6. CASE StopReception
  BY <1>6 DEF StopReception, Release
<1>7. CASE ConfigStart
  BY <1>7 DEF ConfigStart
<1>8. CASE ConfigBusy
  BY <1>8 DEF ConfigBusy, AfterConfig
<1>9. CASE ConfigDone
  BY <1>9 DEF ConfigDone, AfterConfig, Release
<1>10. CASE StartReception
  BY <1>10 DEF StartReception
<1>11. CASE ReceptionStarted
  BY <1>11 DEF ReceptionStarted
<1>12. CASE PauseEnds
  BY <1>12 DEF PauseEnds
<1>13. CASE IoStart
  BY <1>13 DEF IoStart
<1>14. CASE IoRefused
  BY <1>14 DEF IoRefused, AfterIo, CfgAfterIo, Sending
<1>15. CASE IoStarted
  BY <1>15 DEF IoStarted
<1>16. CASE IoSignalled
  BY <1>16 DEF IoSignalled, AfterIo, Sending
<1>17. CASE IoTimeout
  BY <1>17 DEF IoTimeout, Release, AfterIo, Sending
<1>18. CASE PerTransaction
  BY <1>18 DEF PerTransaction
<1>19. CASE PerLeave
  BY <1>19 DEF PerLeave
<1>20. CASE PerStatusSaid
  BY <1>20 DEF PerStatusSaid, TypeOK, MainTypes
<1>21. CASE PerWake
  BY <1>21 DEF PerWake
<1>22. CASE \/ WorkerStep \/ Host \/ PacketArrives \/ TransmissionEnds
           \/ UNCHANGED vars
  <2>1. UNCHANGED mainVars
    BY <1>22
       DEF ParseCommand, StopAnswered, HandleDio, RxDoneSync, Finish,
           RxDoneCallback, CallbackReleased, RestartAfterCallback, Host,
           HostSends, PacketArrives, TransmissionEnds, WorkerStep, vars
  <2> QED
    BY <2>1 DEF mainVars
<1> QED
  BY <1>1, <1>2, <1>3, <1>4, <1>5, <1>6, <1>7, <1>8, <1>9, <1>10, <1>11,
     <1>12, <1>13, <1>14, <1>15, <1>16, <1>17, <1>18, <1>19, <1>20, <1>21,
     <1>22
     DEF Next, MainStep

LEMMA TypeStep == TypeOK /\ PerCounts /\ [Next]_vars => TypeOK'
<1> SUFFICES ASSUME TypeOK, PerCounts, [Next]_vars PROVE TypeOK'
  OBVIOUS
<1>0. /\ UNCHANGED appVars => AppTypes'
      /\ UNCHANGED modemVars => ModemTypes'
      /\ UNCHANGED hostVars => HostTypes'
      /\ UNCHANGED mainVars => MainTypes'
      /\ UNCHANGED <<workq, wpc, older>> => WorkTypes'
      /\ UNCHANGED pastVars => PastTypes'
  BY DEF TypeOK, AppTypes, ModemTypes, HostTypes, MainTypes, WorkTypes,
         PastTypes, appVars, modemVars, hostVars, mainVars, pastVars
<1>1. CASE Dispatch
  <2>1. MainTypes'
    BY <1>1, HelperTypes
       DEF Dispatch, Configs, AppTypes, TypeOK, MainTypes, MainPCs
  <2>2. PastTypes'
    BY <1>1
       DEF Dispatch, TypeOK, PastTypes, States
  <2> QED
    BY <1>0, <1>1, <2>1, <2>2
       DEF Dispatch, TypeOK
<1>2. CASE Wake
  <2>1. MainTypes'
    BY <1>2
       DEF Wake, TypeOK, MainTypes, MainPCs
  <2>2. WorkTypes'
    BY <1>2
       DEF Wake, TypeOK, WorkTypes, WorkerPCs
  <2> QED
    BY <1>0, <1>2, <2>1, <2>2
       DEF Wake, TypeOK
<1>3. CASE EndJob
  <2>1. AppTypes'
    BY <1>3
       DEF EndJob, MainTypes, TypeOK, AppTypes, States
  <2>2. MainTypes'
    BY <1>3
       DEF EndJob, TypeOK, MainTypes, MainPCs
  <2> QED
    BY <1>0, <1>3, <2>1, <2>2
       DEF EndJob, TypeOK
<1>4. CASE Said
  <2>1. MainTypes'
    BY <1>4
       DEF Said, TypeOK, MainTypes, MainPCs
  <2>2. WorkTypes'
    BY <1>4
       DEF Said, TypeOK, WorkTypes, WorkerPCs
  <2> QED
    BY <1>0, <1>4, <2>1, <2>2
       DEF Said, TypeOK
<1>5. CASE Released
  <2>1. ModemTypes'
    BY <1>5
       DEF Released, TypeOK, ModemTypes
  <2>2. MainTypes'
    BY <1>5
       DEF Released, TypeOK, MainTypes, MainPCs
  <2> QED
    BY <1>0, <1>5, <2>1, <2>2
       DEF Released, TypeOK
<1>6. CASE StopReception
  <2>1. ModemTypes'
    BY <1>6
       DEF StopReception, Release, TypeOK, ModemTypes
  <2>2. MainTypes'
    BY <1>6
       DEF StopReception, Release, TypeOK, MainTypes, MainPCs
  <2> QED
    BY <1>0, <1>6, <2>1, <2>2
       DEF StopReception, TypeOK
<1>7. CASE ConfigStart
  <2>1. ModemTypes'
    BY <1>7
       DEF ConfigStart, TypeOK, ModemTypes
  <2>2. MainTypes'
    BY <1>7, AdjustedType
       DEF ConfigStart, TypeOK, MainTypes, MainPCs
  <2> QED
    BY <1>0, <1>7, <2>1, <2>2
       DEF ConfigStart, TypeOK
<1>8. CASE ConfigBusy
  <2>1. MainTypes'
    BY <1>8, AdjustedType, HelperTypes
       DEF ConfigBusy, TypeOK, MainTypes, MainPCs
  <2> QED
    BY <1>0, <1>8, <2>1
       DEF ConfigBusy, TypeOK
<1>9. CASE ConfigDone
  <2>1. ModemTypes'
    BY <1>9
       DEF ConfigDone, Release, Asked, Configs, MainTypes, TypeOK, ModemTypes
  <2>2. MainTypes'
    BY <1>9, HelperTypes
       DEF ConfigDone, Release, TypeOK, MainTypes, MainPCs
  <2> QED
    BY <1>0, <1>9, <2>1, <2>2
       DEF ConfigDone, TypeOK
<1>10. CASE StartReception
  <2>1. ModemTypes'
    BY <1>10
       DEF StartReception, TypeOK, ModemTypes
  <2>2. MainTypes'
    BY <1>10
       DEF StartReception, TypeOK, MainTypes, MainPCs
  <2> QED
    BY <1>0, <1>10, <2>1, <2>2
       DEF StartReception, TypeOK
<1>11. CASE ReceptionStarted
  <2>1. ModemTypes'
    BY <1>11
       DEF ReceptionStarted, TypeOK, ModemTypes
  <2>2. MainTypes'
    BY <1>11
       DEF ReceptionStarted, TypeOK, MainTypes, MainPCs
  <2> QED
    BY <1>0, <1>11, <2>1, <2>2
       DEF ReceptionStarted, TypeOK
<1>12. CASE PauseEnds
  <2>1. MainTypes'
    BY <1>12
       DEF PauseEnds, TypeOK, MainTypes, MainPCs
  <2>2. WorkTypes'
    BY <1>12
       DEF PauseEnds, TypeOK, WorkTypes, WorkerPCs
  <2> QED
    BY <1>0, <1>12, <2>1, <2>2
       DEF PauseEnds, TypeOK
<1>13. CASE IoStart
  <2>1. ModemTypes'
    BY <1>13
       DEF IoStart, Sending, TypeOK, ModemTypes
  <2>2. MainTypes'
    BY <1>13
       DEF IoStart, TypeOK, MainTypes, MainPCs
  <2> QED
    BY <1>0, <1>13, <2>1, <2>2
       DEF IoStart, TypeOK
<1>14. CASE IoRefused
  <2>1. MainTypes'
    BY <1>14, HelperTypes
       DEF IoRefused, TypeOK, MainTypes, MainPCs
  <2> QED
    BY <1>0, <1>14, <2>1
       DEF IoRefused, TypeOK
<1>15. CASE IoStarted
  <2>1. ModemTypes'
    BY <1>15
       DEF IoStarted, TypeOK, ModemTypes
  <2>2. MainTypes'
    BY <1>15
       DEF IoStarted, TypeOK, MainTypes, MainPCs
  <2> QED
    BY <1>0, <1>15, <2>1, <2>2
       DEF IoStarted, TypeOK
<1>16. CASE IoSignalled
  <2>1. ModemTypes'
    BY <1>16
       DEF IoSignalled, TypeOK, ModemTypes
  <2>2. MainTypes'
    BY <1>16, HelperTypes
       DEF IoSignalled, TypeOK, MainTypes, MainPCs
  <2> QED
    BY <1>0, <1>16, <2>1, <2>2
       DEF IoSignalled, TypeOK
<1>17. CASE IoTimeout
  <2>1. ModemTypes'
    BY <1>17
       DEF IoTimeout, Release, TypeOK, ModemTypes
  <2>2. MainTypes'
    BY <1>17, HelperTypes
       DEF IoTimeout, Release, TypeOK, MainTypes, MainPCs
  <2>3. WorkTypes'
    BY <1>17
       DEF IoTimeout, TypeOK, WorkTypes, WorkerPCs
  <2> QED
    BY <1>0, <1>17, <2>1, <2>2, <2>3
       DEF IoTimeout, TypeOK
<1>18. CASE PerTransaction
  <2>1. MainTypes'
    BY <1>18
       DEF PerTransaction, Configs, TypeOK, MainTypes, MainPCs
  <2> QED
    BY <1>0, <1>18, <2>1
       DEF PerTransaction, TypeOK
<1>19. CASE PerLeave
  <2>1. MainTypes'
    BY <1>19
       DEF PerLeave, TypeOK, MainTypes, MainPCs
  <2> QED
    BY <1>0, <1>19, <2>1
       DEF PerLeave, TypeOK
<1>20. CASE PerStatusSaid
  <2>1. MainTypes'
    BY <1>20
       DEF PerStatusSaid, TypeOK, MainTypes, MainPCs, PerCounts, Here,
           IoLabels
  <2>2. WorkTypes'
    BY <1>20
       DEF PerStatusSaid, TypeOK, WorkTypes, WorkerPCs
  <2> QED
    BY <1>0, <1>20, <2>1, <2>2
       DEF PerStatusSaid, TypeOK
<1>21. CASE PerWake
  <2>1. MainTypes'
    BY <1>21
       DEF PerWake, TypeOK, MainTypes, MainPCs
  <2>2. WorkTypes'
    BY <1>21
       DEF PerWake, TypeOK, WorkTypes, WorkerPCs
  <2> QED
    BY <1>0, <1>21, <2>1, <2>2
       DEF PerWake, TypeOK
<1>22. CASE ParseCommand
  <2>1. AppTypes'
    BY <1>22, StateForType
       DEF ParseCommand, HostTypes, TypeOK, AppTypes, States
  <2>2. HostTypes'
    BY <1>22
       DEF ParseCommand, TypeOK, HostTypes
  <2>3. WorkTypes'
    BY <1>22
       DEF ParseCommand, WorkerFree, TypeOK, WorkTypes, WorkerPCs
  <2>4. PastTypes'
    BY <1>22, StateForType
       DEF ParseCommand, TypeOK, PastTypes, States
  <2> QED
    BY <1>0, <1>22, <2>1, <2>2, <2>3, <2>4
       DEF ParseCommand, TypeOK
<1>23. CASE StopAnswered
  <2>1. HostTypes'
    BY <1>23
       DEF StopAnswered, TypeOK, HostTypes
  <2>2. WorkTypes'
    BY <1>23
       DEF StopAnswered, TypeOK, WorkTypes, WorkerPCs
  <2> QED
    BY <1>0, <1>23, <2>1, <2>2
       DEF StopAnswered, TypeOK
<1>24. CASE HandleDio
  <2>1. ModemTypes'
    BY <1>24
       DEF HandleDio, WorkerFree, WorkerRelease, TypeOK, ModemTypes
  <2>2. WorkTypes'
    BY <1>24
       DEF HandleDio, WorkerFree, WorkerRelease, TypeOK, WorkTypes, WorkerPCs
  <2> QED
    BY <1>0, <1>24, <2>1, <2>2
       DEF HandleDio, TypeOK
<1>25. CASE RxDoneSync
  <2>1. ModemTypes'
    BY <1>25
       DEF RxDoneSync, WorkerRelease, TypeOK, ModemTypes
  <2>2. WorkTypes'
    BY <1>25
       DEF RxDoneSync, WorkerRelease, TypeOK, WorkTypes, WorkerPCs
  <2> QED
    BY <1>0, <1>25, <2>1, <2>2
       DEF RxDoneSync, TypeOK
<1>26. CASE Finish
  <2>1. ModemTypes'
    BY <1>26
       DEF Finish, TypeOK, ModemTypes
  <2>2. WorkTypes'
    BY <1>26
       DEF Finish, TypeOK, WorkTypes, WorkerPCs
  <2> QED
    BY <1>0, <1>26, <2>1, <2>2
       DEF Finish, TypeOK
<1>27. CASE RxDoneCallback
  <2>1. AppTypes'
    BY <1>27
       DEF RxDoneCallback, TypeOK, AppTypes, States
  <2>2. ModemTypes'
    BY <1>27
       DEF RxDoneCallback, WorkerRelease, TypeOK, ModemTypes
  <2>3. WorkTypes'
    BY <1>27
       DEF RxDoneCallback, WorkerRelease, TypeOK, WorkTypes, WorkerPCs
  <2>4. PastTypes'
    BY <1>27
       DEF RxDoneCallback, TypeOK, PastTypes, States
  <2> QED
    BY <1>0, <1>27, <2>1, <2>2, <2>3, <2>4
       DEF RxDoneCallback, TypeOK
<1>28. CASE CallbackReleased
  <2>1. AppTypes'
    BY <1>28
       DEF CallbackReleased, TypeOK, AppTypes, States
  <2>2. ModemTypes'
    BY <1>28
       DEF CallbackReleased, TypeOK, ModemTypes
  <2>3. WorkTypes'
    BY <1>28
       DEF CallbackReleased, TypeOK, WorkTypes, WorkerPCs
  <2>4. PastTypes'
    BY <1>28
       DEF CallbackReleased, TypeOK, PastTypes, States
  <2> QED
    BY <1>0, <1>28, <2>1, <2>2, <2>3, <2>4
       DEF CallbackReleased, TypeOK
<1>29. CASE RestartAfterCallback
  <2>1. ModemTypes'
    BY <1>29
       DEF RestartAfterCallback, TypeOK, ModemTypes
  <2>2. WorkTypes'
    BY <1>29
       DEF RestartAfterCallback, TypeOK, WorkTypes, WorkerPCs
  <2> QED
    BY <1>0, <1>29, <2>1, <2>2
       DEF RestartAfterCallback, TypeOK
<1>30. CASE PacketArrives
  <2>1. HostTypes'
    BY <1>30
       DEF PacketArrives, TypeOK, HostTypes
  <2>2. WorkTypes'
    BY <1>30, SubmitType
       DEF PacketArrives, TypeOK, WorkTypes, WorkerPCs
  <2> QED
    BY <1>0, <1>30, <2>1, <2>2
       DEF PacketArrives, TypeOK
<1>31. CASE TransmissionEnds
  <2>1. WorkTypes'
    BY <1>31, SubmitType
       DEF TransmissionEnds, TypeOK, WorkTypes, WorkerPCs
  <2> QED
    BY <1>0, <1>31, <2>1
       DEF TransmissionEnds, TypeOK
<1>32. ASSUME NEW c \in HostCommands, HostSends(c) PROVE TypeOK'
  <2>1. HostTypes'
    BY <1>32, ServiceDeviceAssumption
       DEF HostSends, TypeOK, HostTypes
  <2>2. WorkTypes'
    BY <1>32, SubmitType
       DEF HostSends, TypeOK, WorkTypes, WorkerPCs
  <2> QED
    BY <1>0, <1>32, <2>1, <2>2
       DEF HostSends, TypeOK
<1>33. CASE UNCHANGED vars
  BY <1>0, <1>33 DEF vars, TypeOK
<1> QED
  BY <1>1, <1>2, <1>3, <1>4, <1>5, <1>6, <1>7, <1>8, <1>9, <1>10, <1>11,
     <1>12, <1>13, <1>14, <1>15, <1>16, <1>17, <1>18, <1>19, <1>20, <1>21,
     <1>22, <1>23, <1>24, <1>25, <1>26, <1>27, <1>28, <1>29, <1>30, <1>31,
     <1>32, <1>33
     DEF Next, MainStep, WorkerStep, Host

\* The state word, the driver's state and the two threads keep their types.
THEOREM TypeCorrect == Spec => []TypeOK
<1>1. Init => PerCounts
  BY DEF Init, PerCounts, Here, IoLabels
<1> QED
  BY <1>1, TypeInit, TypeStep, CountStep, PTL DEF Spec

(***************************************************************************)
(* A request outlives the job it arrives in                                *)
(***************************************************************************)

\* The state word holds the last request, or common_task has just served it;
\* the work queue cannot run between the atomic_cas and the next switch.
LatestInv ==
    latest # "none" => curState = latest \/ (pc = "loop" /\ latest = job)

LEMMA LatestStep == LatestInv /\ [Next]_vars => LatestInv'
<1> SUFFICES ASSUME LatestInv, [Next]_vars PROVE LatestInv'
  OBVIOUS
<1> USE DEF LatestInv
<1>1. CASE Dispatch
  BY <1>1 DEF Dispatch
<1>2. CASE EndJob
  BY <1>2 DEF EndJob, pastVars
<1>3. CASE ParseCommand
  BY <1>3 DEF ParseCommand
<1>4. CASE RxDoneCallback
  BY <1>4 DEF RxDoneCallback, mainVars, MidRun
<1>5. CASE CallbackReleased
  BY <1>5 DEF CallbackReleased
<1>6. ASSUME UNCHANGED <<curState, latest, job>>, pc # "loop" \/ pc' = pc
      PROVE  LatestInv'
  BY <1>6
<1>7. CASE MainStep /\ ~Dispatch /\ ~EndJob
  BY <1>6, <1>7
     DEF MainStep, Wake, Said, Released, StopReception, ConfigStart,
         ConfigBusy, ConfigDone, StartReception, ReceptionStarted, PauseEnds,
         IoStart, IoRefused, IoStarted, IoSignalled, IoTimeout,
         PerTransaction, PerLeave, PerStatusSaid, PerWake, appVars, pastVars,
         Release
<1>8. CASE \/ StopAnswered \/ HandleDio \/ RxDoneSync \/ Finish
           \/ RestartAfterCallback \/ Host \/ PacketArrives
           \/ TransmissionEnds \/ UNCHANGED vars
  BY <1>6, <1>8
     DEF StopAnswered, HandleDio, RxDoneSync, Finish, RestartAfterCallback,
         Host, HostSends, PacketArrives, TransmissionEnds, vars, appVars,
         pastVars, mainVars
<1> QED
  BY <1>1, <1>2, <1>3, <1>4, <1>5, <1>7, <1>8 DEF Next, MainStep, WorkerStep

\* No command and no packet that the work queue turns into a request is wiped
\* out by the end of the job that runs meanwhile, unless it asks for that job.
THEOREM RequestsSurvive == Spec => []LatestRequestSurvives
<1>1. Init => LatestInv
  BY DEF Init, LatestInv
<1>2. LatestInv => LatestRequestSurvives
  BY DEF LatestInv, LatestRequestSurvives
<1> QED
  BY <1>1, <1>2, LatestStep, PTL DEF Spec

(***************************************************************************)
(* STOP ends a measurement                                                 *)
(***************************************************************************)

\* Nothing but PER puts STATE_PER_MEAS back into the state word.
AbortInv == aborted => curState # "PER_MEAS"

LEMMA AbortStep == AbortInv /\ [Next]_vars => AbortInv'
<1> SUFFICES ASSUME AbortInv, [Next]_vars PROVE AbortInv'
  OBVIOUS
<1> USE DEF AbortInv
<1>1. CASE Dispatch
  BY <1>1 DEF Dispatch
<1>2. CASE EndJob
  BY <1>2 DEF EndJob, pastVars
<1>3. CASE ParseCommand
  BY <1>3 DEF ParseCommand, StateFor
<1>4. CASE RxDoneCallback
  BY <1>4 DEF RxDoneCallback
<1>5. CASE CallbackReleased
  BY <1>5 DEF CallbackReleased
<1>6. ASSUME UNCHANGED <<curState, aborted>> PROVE AbortInv'
  BY <1>6
<1>7. CASE MainStep /\ ~Dispatch /\ ~EndJob
  BY <1>6, <1>7
     DEF MainStep, Wake, Said, Released, StopReception, ConfigStart,
         ConfigBusy, ConfigDone, StartReception, ReceptionStarted, PauseEnds,
         IoStart, IoRefused, IoStarted, IoSignalled, IoTimeout,
         PerTransaction, PerLeave, PerStatusSaid, PerWake, appVars, pastVars
<1>8. CASE \/ StopAnswered \/ HandleDio \/ RxDoneSync \/ Finish
           \/ RestartAfterCallback \/ Host \/ PacketArrives
           \/ TransmissionEnds \/ UNCHANGED vars
  BY <1>6, <1>8
     DEF StopAnswered, HandleDio, RxDoneSync, Finish, RestartAfterCallback,
         Host, HostSends, PacketArrives, TransmissionEnds, vars, appVars,
         pastVars
<1> QED
  BY <1>1, <1>2, <1>3, <1>4, <1>5, <1>7, <1>8 DEF Next, MainStep, WorkerStep

\* After STOP no packet, no other command and no end of a job makes per_meas
\* start another transaction; only another PER can.
THEOREM StopIsObeyed == Spec => StopAborts
<1>1. Init => AbortInv
  BY DEF Init, AbortInv
<1>2. AbortInv /\ [Next]_vars => [PerTransaction => ~aborted]_vars
  BY DEF AbortInv, PerTransaction
<1> QED
  BY <1>1, <1>2, AbortStep, PTL DEF Spec, StopAborts

(***************************************************************************)
(* The modem                                                               *)
(***************************************************************************)

\* The strengthening says what a raised signal and the labels of the blocking
\* calls tell about modem_usage.
DriverInv ==
    /\ ModemAccounted
    /\ SignalInScope
    /\ cont \notin {"sleep", "rxStart"}
    /\ pc = "rxStart" => asyncCb
    /\ signal = "raised" => modem = "FREE"
    /\ pc = "ioForever" => modem # "BUSY"

LEMMA DriverStep == TypeOK /\ DriverInv /\ [Next]_vars => DriverInv'
<1> SUFFICES ASSUME TypeOK, DriverInv, [Next]_vars PROVE DriverInv'
  OBVIOUS
<1> USE DEF DriverInv, ModemAccounted, SignalInScope
<1>1. CASE Dispatch
  BY <1>1 DEF Dispatch, EntryOf, modemVars
<1>2. CASE Wake
  BY <1>2 DEF Wake, modemVars
<1>3. CASE EndJob
  BY <1>3 DEF EndJob, modemVars
<1>4. CASE Said
  BY <1>4 DEF Said, modemVars
<1>5. CASE Released
  BY <1>5 DEF Released
<1>6. CASE StopReception
  BY <1>6 DEF StopReception, Release
<1>7. CASE ConfigStart
  BY <1>7 DEF ConfigStart
<1>8. CASE ConfigBusy
  BY <1>8 DEF ConfigBusy, AfterConfig, modemVars
<1>9. CASE ConfigDone
  BY <1>9 DEF ConfigDone, AfterConfig, Release
<1>10. CASE StartReception
  BY <1>10 DEF StartReception
<1>11. CASE ReceptionStarted
  BY <1>11 DEF ReceptionStarted
<1>12. CASE PauseEnds
  BY <1>12 DEF PauseEnds, modemVars
<1>13. CASE IoStart
  BY <1>13 DEF IoStart
<1>14. CASE IoRefused
  BY <1>14 DEF IoRefused, AfterIo, modemVars
<1>15. CASE IoStarted
  BY <1>15 DEF IoStarted
<1>16. CASE IoSignalled
  BY <1>16 DEF IoSignalled, AfterIo
<1>17. CASE IoTimeout
  BY <1>17 DEF IoTimeout, Release, AfterIo
<1>18. CASE PerTransaction
  BY <1>18 DEF PerTransaction, modemVars
<1>19. CASE PerLeave
  BY <1>19 DEF PerLeave, modemVars
<1>20. CASE PerStatusSaid
  BY <1>20 DEF PerStatusSaid, modemVars
<1>21. CASE PerWake
  BY <1>21 DEF PerWake, modemVars
<1>22. CASE ParseCommand
  BY <1>22 DEF ParseCommand, WorkerFree, modemVars, mainVars
<1>23. CASE StopAnswered
  BY <1>23 DEF StopAnswered, modemVars, mainVars
<1>24. CASE HandleDio
  BY <1>24 DEF HandleDio, WorkerFree, WorkerRelease, mainVars
<1>25. CASE RxDoneSync
  BY <1>25 DEF RxDoneSync, WorkerRelease, mainVars
<1>26. CASE Finish
  BY <1>26 DEF Finish, mainVars
<1>27. CASE RxDoneCallback
  BY <1>27 DEF RxDoneCallback, WorkerRelease, mainVars
<1>28. CASE CallbackReleased
  BY <1>28 DEF CallbackReleased, mainVars
<1>29. CASE RestartAfterCallback
  BY <1>29 DEF RestartAfterCallback, mainVars
<1>30. CASE PacketArrives
  BY <1>30 DEF PacketArrives, modemVars, mainVars
<1>31. CASE TransmissionEnds
  BY <1>31 DEF TransmissionEnds, modemVars, mainVars
<1>32. ASSUME NEW c \in HostCommands, HostSends(c) PROVE DriverInv'
  BY <1>32 DEF HostSends, modemVars, mainVars
<1>33. CASE UNCHANGED vars
  BY <1>33 DEF vars, modemVars, mainVars
<1> QED
  BY <1>1, <1>2, <1>3, <1>4, <1>5, <1>6, <1>7, <1>8, <1>9, <1>10, <1>11,
     <1>12, <1>13, <1>14, <1>15, <1>16, <1>17, <1>18, <1>19, <1>20, <1>21,
     <1>22, <1>23, <1>24, <1>25, <1>26, <1>27, <1>28, <1>29, <1>30, <1>31,
     <1>32, <1>33
     DEF Next, MainStep, WorkerStep, Host

\* The modem is never leaked, and never cleaned up by two threads at once.
THEOREM ModemIsAccounted == Spec => []ModemAccounted
<1>1. Init => DriverInv
  BY DEF Init, DriverInv, ModemAccounted, SignalInScope
<1>2. DriverInv => ModemAccounted
  BY DEF DriverInv
<1> QED
  BY <1>1, <1>2, DriverStep, TypeCorrect, PTL DEF Spec

\* The driver never keeps the address of a signal whose function has returned.
THEOREM SignalIsInScope == Spec => []SignalInScope
<1>1. Init => DriverInv
  BY DEF Init, DriverInv, ModemAccounted, SignalInScope
<1>2. DriverInv => SignalInScope
  BY DEF DriverInv
<1> QED
  BY <1>1, <1>2, DriverStep, TypeCorrect, PTL DEF Spec

(***************************************************************************)
(* The command channel                                                     *)
(***************************************************************************)

\* The places of the command handler in a queue of work items.
Places(q) == {i \in 1 .. Len(q) : q[i] = "uart"}
AtMostOne(S) == \A i, j \in S : i = j

LEMMA PlacesAfterTail ==
  ASSUME NEW q \in Seq({"dio", "uart"}), q # <<>>, AtMostOne(Places(q))
  PROVE  /\ Head(q) = "uart" => Places(Tail(q)) = {}
         /\ Head(q) = "dio" => /\ AtMostOne(Places(Tail(q)))
                               /\ Places(Tail(q)) = {} <=> Places(q) = {}
<1> DEFINE r == Tail(q)
<1>1. /\ Len(q) \in Nat /\ Len(q) > 0 /\ q[1] = Head(q)
      /\ Len(r) = Len(q) - 1
      /\ \A i \in 1 .. Len(r) : r[i] = q[i + 1]
  OBVIOUS
<1> HIDE DEF r
<1>2. \A i \in Places(r) : i + 1 \in Places(q) /\ i \in Nat /\ i # 0
  BY <1>1 DEF Places
<1>3. ASSUME Head(q) = "uart" PROVE Places(r) = {}
  <2>1. 1 \in Places(q)
    BY <1>1, <1>3 DEF Places
  <2> QED
    BY <1>2, <2>1 DEF AtMostOne
<1>4. ASSUME Head(q) = "dio" PROVE AtMostOne(Places(r))
  BY <1>2 DEF AtMostOne
<1>5. ASSUME Head(q) = "dio", NEW i \in Places(q) PROVE i - 1 \in Places(r)
  BY <1>1, <1>5 DEF Places
<1> QED
  BY <1>2, <1>3, <1>4, <1>5 DEF r

LEMMA PlacesAfterSubmit ==
  ASSUME workq \in Seq({"dio", "uart"})
  PROVE  /\ Places(Submit("dio")) = Places(workq)
         /\ Places(workq) = {} =>
               /\ Places(Submit("uart")) # {}
               /\ AtMostOne(Places(Submit("uart")))
<1>1. ASSUME NEW item \in {"dio", "uart"}
      PROVE  LET r == Append(workq, item)
             IN /\ Len(r) = Len(workq) + 1
                /\ r[Len(workq) + 1] = item
                /\ \A i \in 1 .. Len(workq) : r[i] = workq[i]
  OBVIOUS
<1>2. Places(Append(workq, "dio")) = Places(workq)
  BY <1>1 DEF Places
<1>3. Places(workq) = {} =>
         Places(Append(workq, "uart")) = {Len(workq) + 1}
  BY <1>1 DEF Places
<1>4. Places(workq) = {} => ~Queued("uart")
  BY DEF Places, Queued
<1> QED
  BY <1>2, <1>3, <1>4 DEF Submit, AtMostOne

LEMMA ChannelStep == TypeOK /\ CommandChannel /\ [Next]_vars => CommandChannel'
<1> SUFFICES ASSUME TypeOK, CommandChannel, [Next]_vars PROVE CommandChannel'
  OBVIOUS
<1> DEFINE q == Places(workq)
           OnePlace(u, S, w) == /\ u = "listening" => S = {} /\ w # "say"
                                /\ w = "say" => S = {}
                                /\ AtMostOne(S)
                                /\ RxArmedAtBoot <=>
                                      (u = "listening" \/ S # {} \/ w = "say")
<1>0. workq \in Seq({"dio", "uart"})
  BY DEF TypeOK, WorkTypes
<1>1. OnePlace(uart, q, wpc)
  BY DEF CommandChannel, Places, AtMostOne
<1>2. SUFFICES OnePlace(uart', q', wpc')
  BY DEF CommandChannel, Places, AtMostOne
<1> HIDE DEF q
<1>3. CASE ParseCommand
  <2>1. workq # <<>> /\ Head(workq) = "uart" /\ workq' = Tail(workq)
    BY <1>3 DEF ParseCommand, WorkerFree
  <2>2. q' = {}
    BY <1>0, <1>1, <2>1, PlacesAfterTail DEF q
  <2>3. q # {}
    <3>1. 1 \in 1 .. Len(workq) /\ workq[1] = Head(workq)
      BY <1>0, <2>1
    <3> QED
      BY <2>1, <3>1 DEF q, Places
  <2> QED
    BY <1>1, <1>3, <2>2, <2>3 DEF ParseCommand, WorkerFree, AtMostOne
<1>4. CASE HandleDio
  <2>1. workq # <<>> /\ Head(workq) = "dio" /\ workq' = Tail(workq)
    BY <1>4 DEF HandleDio, WorkerFree
  <2>2. AtMostOne(q') /\ (q' = {} <=> q = {})
    BY <1>0, <1>1, <2>1, PlacesAfterTail DEF q
  <2>3. uart' = uart /\ wpc # "say" /\ wpc' # "say"
    BY <1>4 DEF HandleDio, WorkerFree, WorkerRelease, hostVars
  <2> QED
    BY <1>1, <2>2, <2>3
<1>5. ASSUME NEW c \in HostCommands, HostSends(c) PROVE OnePlace(uart', q', wpc')
  <2>1. q' # {} /\ AtMostOne(q')
    BY <1>0, <1>1, <1>5, PlacesAfterSubmit DEF HostSends, q
  <2> QED
    BY <1>1, <1>5, <2>1 DEF HostSends
<1>6. CASE PacketArrives \/ TransmissionEnds
  <2>1. q' = q
    BY <1>0, <1>6, PlacesAfterSubmit DEF PacketArrives, TransmissionEnds, q
  <2> QED
    BY <1>1, <1>6, <2>1 DEF PacketArrives, TransmissionEnds, hostVars
<1>7. CASE StopAnswered
  <2>1. q' = q /\ wpc = "say" /\ wpc' = "idle" /\ uart' = "listening"
    BY <1>7 DEF StopAnswered, q
  <2> QED
    BY <1>1, <2>1
<1>8. CASE \/ RxDoneSync \/ Finish \/ RxDoneCallback \/ CallbackReleased
           \/ RestartAfterCallback
  <2>1. q' = q /\ uart' = uart /\ wpc # "say" /\ wpc' # "say"
    BY <1>8
       DEF RxDoneSync, Finish, RxDoneCallback, CallbackReleased,
           RestartAfterCallback, WorkerRelease, hostVars, q
  <2> QED
    BY <1>1, <2>1
<1>9. CASE MainStep \/ UNCHANGED vars
  <2>1. UNCHANGED <<uart, workq, wpc>>
    BY <1>9
       DEF MainStep, Dispatch, Wake, EndJob, Said, Released, StopReception,
           ConfigStart, ConfigBusy, ConfigDone, StartReception,
           ReceptionStarted, PauseEnds, IoStart, IoRefused, IoStarted,
           IoSignalled, IoTimeout, PerTransaction, PerLeave, PerStatusSaid,
           PerWake, vars, hostVars
  <2> QED
    BY <1>1, <2>1 DEF q
<1> QED
  BY <1>3, <1>4, <1>5, <1>6, <1>7, <1>8, <1>9 DEF Next, WorkerStep, Host

\* The command channel is never lost and never duplicated: as many parties
\* own it as when the command loop started, one if reception had been armed,
\* none in the firmware as it is.
THEOREM ChannelIsKept == Spec => []CommandChannel
<1>1. Init => CommandChannel
  BY DEF Init, CommandChannel
<1>2. TypeOK /\ CommandChannel /\ [Next]_vars => CommandChannel'
  BY ChannelStep
<1> QED
  BY <1>1, <1>2, TypeCorrect, PTL DEF Spec

\* main.c arms reception nowhere before its loop.  Then no command is ever
\* taken, and the state word only moves between reception and its answer.
UnarmedIsDeaf ==
    ~RxArmedAtBoot =>
        /\ \A c \in HostCommands : used[c] = 0
        /\ curState \in {"RECV", "IDLE", "TRANSMIT"}

LEMMA DeafStep ==
  TypeOK /\ CommandChannel /\ UnarmedIsDeaf /\ [Next]_vars => UnarmedIsDeaf'
<1> SUFFICES ASSUME TypeOK, CommandChannel, UnarmedIsDeaf, [Next]_vars,
                    ~RxArmedAtBoot
             PROVE  UnarmedIsDeaf'
  BY DEF UnarmedIsDeaf
<1>1. /\ uart # "listening" /\ wpc # "say"
      /\ \A i \in 1 .. Len(workq) : workq[i] # "uart"
  BY DEF CommandChannel
<1>2. ~(workq # <<>> /\ Head(workq) = "uart")
  <2>1. workq \in Seq({"dio", "uart"})
    BY DEF TypeOK, WorkTypes
  <2>2. workq # <<>> => 1 \in 1 .. Len(workq) /\ workq[1] = Head(workq)
    BY <2>1
  <2> QED
    BY <1>1, <2>2
<1>3. ~ParseCommand /\ ~StopAnswered /\ ~Host
  BY <1>1, <1>2 DEF ParseCommand, WorkerFree, StopAnswered, Host, HostSends
<1>4. CASE EndJob
  BY <1>4 DEF EndJob, UnarmedIsDeaf, hostVars
<1>5. CASE RxDoneCallback
  BY <1>5 DEF RxDoneCallback, UnarmedIsDeaf, hostVars
<1>6. CASE CallbackReleased
  BY <1>6 DEF CallbackReleased, UnarmedIsDeaf, hostVars
<1>7. CASE MainStep /\ ~EndJob
  <2>1. UNCHANGED <<curState, used>>
    BY <1>7
       DEF MainStep, Dispatch, Wake, Said, Released, StopReception,
           ConfigStart, ConfigBusy, ConfigDone, StartReception,
           ReceptionStarted, PauseEnds, IoStart, IoRefused, IoStarted,
           IoSignalled, IoTimeout, PerTransaction, PerLeave, PerStatusSaid,
           PerWake, appVars, hostVars
  <2> QED
    BY <2>1 DEF UnarmedIsDeaf
<1>8. CASE \/ HandleDio \/ RxDoneSync \/ Finish \/ RestartAfterCallback
           \/ PacketArrives \/ TransmissionEnds \/ UNCHANGED vars
  <2>1. UNCHANGED <<curState, used>>
    BY <1>8
       DEF HandleDio, RxDoneSync, Finish, RestartAfterCallback,
           PacketArrives, TransmissionEnds, vars, appVars, hostVars
  <2> QED
    BY <2>1 DEF UnarmedIsDeaf
<1> QED
  BY <1>3, <1>4, <1>5, <1>6, <1>7, <1>8 DEF Next, WorkerStep

\* The firmware as it is built: with reception unarmed at the start the device
\* answers packets, and no command ever reaches it.
THEOREM UnarmedStaysDeaf == Spec => []UnarmedIsDeaf
<1>1. Init => UnarmedIsDeaf
  BY ServiceDeviceAssumption DEF Init, UnarmedIsDeaf
<1> QED
  BY <1>1, DeafStep, TypeCorrect, ChannelIsKept, PTL DEF Spec
=============================================================================

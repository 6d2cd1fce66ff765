------------------------------- MODULE Ranging -------------------------------
(***************************************************************************)
(* Two-way ranging over the DW1000 transceiver: the calls of mesh_twr.cc   *)
(* (twr_intiate, twr_respond, uwb_ping, uwb_ping_rx) on the mp_*() layer   *)
(* of meshposition.cc, which drives the chip through dwt_*() registers.    *)
(*                                                                         *)
(* Every node runs one call at a time; calls of different nodes overlap.   *)
(* A node is a program (pc) and a chip (chip, status, registers) that runs *)
(* by itself: it sends at a programmed time, turns the receiver on some    *)
(* time after a frame has left, times out, and sets status bits the        *)
(* program polls.  A frame is heard by every node whose receiver is on,    *)
(* and may be spoiled or missed at each of them.                           *)
(*                                                                         *)
(* Time is discrete (one tick stands for 100 us of the protocol).  The     *)
(* chip is punctual: a tick waits for its events.  The program may be slow *)
(* at every step.  Time stamps are counts modulo Period (40 bits in the    *)
(* chip), and modulo Period32 in the frames (32 bits).                     *)
(***************************************************************************)
EXTENDS Integers

CONSTANTS
  Node,          \* the transceivers
  Offset,        \* what each chip's counter shows at time 0
  Script,        \* Script[n]: the calls <<operation, peer>> node n may make
  Budget,        \* Budget[n]: how many calls it makes (bound)
  RxAfterPoll,   \* POLL_TX_TO_RESP_RX_DLY_UUS
  RespDelay,     \* POLL_RX_TO_RESP_TX_DLY_UUS
  RxAfterResp,   \* RESP_TX_TO_FINAL_RX_DLY_UUS
  FinalDelay,    \* RESP_RX_TO_FINAL_TX_DLY_UUS
  Timeout,       \* RX_TIMEOUT_1_MS
  BusyWait,      \* k_busy_wait(100)
  AntAssumed,    \* TX_ANT_DLY of mesh_twr.cc
  AntDelay,      \* the antenna delay written to the chip
  Flight,        \* the true time of flight between any two antennas
  Grain,         \* delayed times are multiples of this (9 bits in the chip)
  Period,        \* size of the chip's counter (2^40)
  Period32,      \* size of a time stamp in a frame (2^32)
  MaxLag         \* how long a program may be kept from going on (bound)

Ops   == {"initiate", "respond", "ping", "ping_rx"}
Ids   == {"twr_1_poll", "twr_2_resp", "twr_3_final", "ping"}
Stamp == 0 .. Period - 1
Word  == 0 .. Period32 - 1
Half  == Period \div 2

ASSUME RangingAssumption ==
  /\ Script \in [Node -> SUBSET (Ops \X Node)]
  /\ Budget \in [Node -> Nat]
  /\ {RxAfterPoll, RespDelay, RxAfterResp, FinalDelay, BusyWait, AntAssumed,
      AntDelay, MaxLag} \subseteq Nat
  /\ {Timeout, Flight, Grain, Period, Period32} \subseteq Nat \ {0}
  /\ Offset \in [Node -> Stamp]
  \* a counter of 2^40 units holds whole grains and whole 32-bit words
  /\ \E k \in 1 .. Period : Period = k * Period32
  /\ \E k \in 1 .. Period : Period = k * Grain
  \* a late transmission is noticed: no program lags half a counter period
  /\ RespDelay < Half /\ FinalDelay < Half /\ MaxLag < Half
  /\ BusyWait <= MaxLag

(* msg_header_t and msg_twr_final_t as one record.  No condition of the code *)
(* reads seq; each call of a node is given another one.  "mixed" is not      *)
(* sent: it records for the properties that a foreign frame was taken.       *)
Frame == [id : Ids, seq : Nat, src : Node, dst : Node, poll_tx : Word,
          resp_rx : Word, final_tx : Word, mixed : BOOLEAN]

Header(i, q, s, d) == [id |-> i, seq |-> q, src |-> s, dst |-> d, poll_tx |-> 0,
                       resp_rx |-> 0, final_tx |-> 0, mixed |-> FALSE]

Size(i) == IF i = "twr_3_final" THEN "long" ELSE "short"

VARIABLES
  now,       \* the time, counted modulo Period
  pc,        \* where the program of each node is
  peer,      \* the other node named in the call
  lag,       \* how long the program could have gone on, and has not
  left,      \* calls the node may still make
  poll_rx,   \* local poll_rx_ts of twr_respond
  range,     \* res["range"] of the last call, as a set: empty without one
  seq,       \* argument sequence, or rx_poll_msg.header.sequence of twr_respond
  mixed,     \* the exchange took a frame of another exchange (history)
  chip,      \* "off", "armed" (to send), "turning" (to receive), "on"
  timer,     \* ticks until the chip turns the receiver on, or gives up
  dx,        \* DX_TIME: when to send
  w4r,       \* WAIT4RESP: receive after sending
  rxdelay,   \* ACK_RESP_T: how long after sending
  rxto,      \* RX_FWTO with RXWTOE: 0 is no time-out
  status,    \* the bits of SYS_STATUS the program reads
  txbuf,     \* TX_BUFFER, the frame to send
  rxbuf,     \* RX_BUFFER, the frame received last
  tx_stamp,  \* TX_TIME
  rx_stamp,  \* RX_TIME
  air        \* frames on their way

progVars == <<pc, peer, lag, left, poll_rx, range, seq, mixed>>
regVars  == <<dx, w4r, rxdelay, rxto, txbuf>>
rxVars   == <<rxbuf, rx_stamp>>
chipVars == <<chip, timer, status, tx_stamp, rxVars, regVars>>
vars     == <<now, progVars, chipVars, air>>

-----------------------------------------------------------------------------
(* Time and arithmetic *)

\* SYS_TIME of node n.
Own(n) == (now + Offset[n]) % Period

\* What a delayed time becomes: the chip ignores its low bits.
Grid(t) == t - (t % Grain)

\* Mutants of Trunc and Diff: no conversion, no wrap.
TruncNot(t)         == t
DiffUnwrapped(s, t) == s - t

\* (uint32_t) of a time stamp, and the difference of two such words.
Trunc(t)    == t % Period32
Diff(s, t)  == (s - t) % Period32

\* Division of the C conversion (int64_t): towards zero.
Quotient(a, b) == IF a >= 0 THEN a \div b ELSE -((-a) \div b)

\* What the double-sided formula of twr_respond may give: 0.0 / 0.0 is not a
\* number, and its conversion to an integer is not defined.
Tof(ra, rb, da, db) ==
  LET sum == ra + rb + da + db
  IN IF sum = 0 THEN Word ELSE {Quotient(ra * rb - da * db, sum)}

-----------------------------------------------------------------------------
(* The chip *)

RxGood == "RXFCG"
RxBad  == {"RXTO", "RXERR"}

\* The chip of n must act before time moves on.
SendDue(n) == chip[n] = "armed" /\ dx[n] = Own(n)
TurnDue(n) == chip[n] = "turning" /\ timer[n] = 0
GiveUpDue(n) == chip[n] = "on" /\ rxto[n] > 0 /\ timer[n] = 0

\* The frame leaves: stamp, TXFRS, and the receiver to follow if asked for.
Depart(n) ==
  /\ SendDue(n)
  /\ tx_stamp' = [tx_stamp EXCEPT ![n] = (Own(n) + AntDelay) % Period]
  /\ status' = [status EXCEPT ![n] = @ \cup {"TXFRS"}]
  /\ air' = air \cup {[frame |-> txbuf[n], from |-> n, left |-> AntDelay + Flight,
                       stamp |-> Trunc((Own(n) + AntDelay) % Period)]}
  /\ chip' = [chip EXCEPT ![n] = IF w4r[n] THEN "turning" ELSE "off"]
  /\ timer' = [timer EXCEPT ![n] = IF w4r[n] THEN rxdelay[n] ELSE 0]
  /\ UNCHANGED <<now, progVars, rxVars, regVars>>

\* The receiver comes on after the delay, and its time-out starts.
TurnOn(n) ==
  /\ TurnDue(n)
  /\ chip' = [chip EXCEPT ![n] = "on"]
  /\ timer' = [timer EXCEPT ![n] = rxto[n]]
  /\ UNCHANGED <<now, progVars, status, tx_stamp, rxVars, regVars, air>>

\* The frame wait time-out.
GiveUp(n) ==
  /\ GiveUpDue(n)
  /\ chip' = [chip EXCEPT ![n] = "off"]
  /\ status' = [status EXCEPT ![n] = @ \cup {"RXTO"}]
  /\ UNCHANGED <<now, progVars, timer, tx_stamp, rxVars, regVars, air>>

Listening(a) == {n \in Node \ {a.from} : chip[n] = "on"}

\* A frame reaches the receivers that are on: each takes it, takes an error
\* (noise, or two frames at once) or misses it.
Arrive(a) ==
  /\ a.left = 0
  /\ air' = air \ {a}
  /\ \E heard \in [Listening(a) -> {"good", "error", "missed"}] :
       LET got(n) == n \in Listening(a) /\ heard[n] = "good"
           bad(n) == n \in Listening(a) /\ heard[n] = "error"
       IN /\ status' = [n \in Node |-> status[n]
                           \cup (IF got(n) THEN {RxGood} ELSE {})
                           \cup (IF bad(n) THEN {"RXERR"} ELSE {})]
          /\ chip' = [n \in Node |-> IF got(n) \/ bad(n) THEN "off" ELSE chip[n]]
          /\ rxbuf' = [n \in Node |-> IF got(n) THEN a.frame ELSE rxbuf[n]]
          /\ rx_stamp' = [n \in Node |-> IF got(n) THEN Own(n) ELSE rx_stamp[n]]
  /\ UNCHANGED <<now, progVars, timer, tx_stamp, regVars>>

ChipDue == \/ \E n \in Node : SendDue(n) \/ TurnDue(n) \/ GiveUpDue(n)
           \/ \E a \in air : a.left = 0

-----------------------------------------------------------------------------
(* The mp_*() layer: what one call does to the chip of n *)

\* mp_rx_now
RxNow(n) ==
  /\ rxto' = [rxto EXCEPT ![n] = Timeout]
  /\ chip' = [chip EXCEPT ![n] = "on"]
  /\ timer' = [timer EXCEPT ![n] = Timeout]
  /\ UNCHANGED <<dx, w4r, rxdelay, txbuf>>

\* Mutants of RxAfterTx: one of the two registers is not written.
RxAfterTxForever(n, delay) ==
  rxdelay' = [rxdelay EXCEPT ![n] = delay] /\ UNCHANGED rxto
RxAfterTxAtOnce(n, delay) ==
  rxto' = [rxto EXCEPT ![n] = Timeout] /\ UNCHANGED rxdelay

\* mp_rx_after_tx
RxAfterTx(n, delay) ==
  /\ rxdelay' = [rxdelay EXCEPT ![n] = delay]
  /\ rxto' = [rxto EXCEPT ![n] = Timeout]

\* mp_request and mp_send: write the frame, start sending now, do not wait.
SendNow(n, f, answered) ==
  /\ txbuf' = [txbuf EXCEPT ![n] = f]
  /\ dx' = [dx EXCEPT ![n] = Own(n)]
  /\ w4r' = [w4r EXCEPT ![n] = answered]
  /\ chip' = [chip EXCEPT ![n] = "armed"]
  /\ UNCHANGED timer

\* HPDWARN: the time asked for is more than half a period ahead, so behind;
\* TXPUTE, at the time itself: it may or may not still power up.
LateOutcomes(n, t) ==
  LET ahead == (t - Own(n)) % Period
  IN IF ahead > Half THEN {TRUE} ELSE IF ahead = 0 THEN BOOLEAN ELSE {FALSE}

\* mp_send_at and mp_request_at up to dwt_starttx: late is its error, and the
\* transceiver is switched off again.
SendAt(n, f, t, answered, late) ==
  /\ late \in LateOutcomes(n, t)
  /\ txbuf' = [txbuf EXCEPT ![n] = f]
  /\ dx' = [dx EXCEPT ![n] = t]
  /\ w4r' = [w4r EXCEPT ![n] = answered]
  /\ chip' = [chip EXCEPT ![n] = IF late THEN "off" ELSE "armed"]
  /\ UNCHANGED timer

\* Mutant of AwaitSent: it clears every bit.
AwaitSentClearsAll(n) ==
  "TXFRS" \in status[n] /\ status' = [status EXCEPT ![n] = {}]

\* mp_send_at once it has started: it polls for TXFRS and clears that bit.
AwaitSent(n) ==
  /\ "TXFRS" \in status[n]
  /\ status' = [status EXCEPT ![n] = @ \ {"TXFRS"}]

\* Mutant of Receive: TXFRS is left alone.
ReceiveKeepsSent(n, id, ok) ==
  /\ status[n] \cap ({RxGood} \cup RxBad) # {}
  /\ status' = [status EXCEPT ![n] = @ \ ({RxGood} \cup RxBad)]
  /\ ok <=> RxGood \in status[n] /\ rxbuf[n].id = id

\* mp_poll_rx and mp_receive: it ends on a good frame, a time-out or an error,
\* and clears what it saw; ok is its result for a frame of this id.
Receive(n, id, ok) ==
  \/ /\ RxGood \in status[n]
     /\ status' = [status EXCEPT ![n] = @ \ {RxGood, "TXFRS"}]
     /\ ok <=> Size(rxbuf[n].id) = Size(id) /\ rxbuf[n].id = id
  \/ /\ RxGood \notin status[n]
     /\ RxBad \cap status[n] # {}
     /\ status' = [status EXCEPT ![n] = @ \ RxBad]
     /\ ~ok

-----------------------------------------------------------------------------
(* The calls of mesh_twr.cc *)

Goto(n, l) == /\ pc' = [pc EXCEPT ![n] = l]
              /\ lag' = [lag EXCEPT ![n] = 0]

\* The next step is timed from the frame just received, if there is one.
GoOn(n, ok, l) == /\ pc' = [pc EXCEPT ![n] = IF ok THEN l ELSE "idle"]
                  /\ lag' = [lag EXCEPT ![n] = IF ok THEN @ ELSE 0]

\* A call is made when the last frame of the node has left and its receiver
\* is off (see CallReturnsQuiet for the second half).
Call(n, op, p) ==
  /\ pc[n] = "idle" /\ chip[n] # "armed" /\ left[n] > 0
  /\ <<op, p>> \in Script[n]
  /\ left' = [left EXCEPT ![n] = @ - 1]
  /\ peer' = [peer EXCEPT ![n] = p]
  /\ seq' = [seq EXCEPT ![n] = left[n]]
  /\ mixed' = [mixed EXCEPT ![n] = FALSE]
  /\ range' = [range EXCEPT ![n] = {}]
  /\ UNCHANGED <<now, poll_rx, status, tx_stamp, rxVars, air>>

\* twr_intiate and uwb_ping wait 100 us for the other side to listen.
CallInitiate(n, p) ==
  /\ Call(n, "initiate", p)
  /\ Goto(n, "i_wait")
  /\ UNCHANGED <<chip, timer, regVars>>

CallPing(n, p) ==
  /\ Call(n, "ping", p)
  /\ Goto(n, "p_wait")
  /\ UNCHANGED <<chip, timer, regVars>>

\* twr_respond and uwb_ping_rx listen at once.
CallRespond(n, p) ==
  /\ Call(n, "respond", p)
  /\ Goto(n, "r_poll")
  /\ RxNow(n)

CallPingRx(n, p) ==
  /\ Call(n, "ping_rx", p)
  /\ Goto(n, "q_ping")
  /\ RxNow(n)

\* uwb_ping
SendPing(n) ==
  /\ pc[n] = "p_wait" /\ lag[n] >= BusyWait
  /\ SendNow(n, Header("ping", seq[n], n, peer[n]), FALSE)
  /\ Goto(n, "idle")
  /\ UNCHANGED <<now, peer, left, poll_rx, range, seq, mixed, status, tx_stamp,
                 rxdelay, rxto, rxVars, air>>

\* uwb_ping_rx
ReceivePing(n) ==
  /\ pc[n] = "q_ping"
  /\ \E ok \in BOOLEAN : Receive(n, "ping", ok)
  /\ Goto(n, "idle")
  /\ UNCHANGED <<now, peer, left, poll_rx, range, seq, mixed, chip, timer, tx_stamp,
                 rxVars, regVars, air>>

\* twr_intiate: the poll, with the receiver to follow
SendPoll(n) ==
  /\ pc[n] = "i_wait" /\ lag[n] >= BusyWait
  /\ RxAfterTx(n, RxAfterPoll)
  /\ SendNow(n, Header("twr_1_poll", seq[n], n, peer[n]), TRUE)
  /\ Goto(n, "i_resp")
  /\ UNCHANGED <<now, peer, left, poll_rx, range, seq, mixed, status, tx_stamp,
                 rxVars, air>>

\* f is no frame of the exchange that n is in, or was answered with one.
Foreign(n, f, s) == f.mixed \/ f.src # peer[n] \/ f.dst # n \/ f.seq # s

\* twr_intiate: any frame with the id of a response is taken
ReceiveResp(n) ==
  /\ pc[n] = "i_resp"
  /\ \E ok \in BOOLEAN :
       /\ Receive(n, "twr_2_resp", ok)
       /\ GoOn(n, ok, "i_final")
       /\ mixed' = [mixed EXCEPT ![n] = ok /\ Foreign(n, rxbuf[n], seq[n] + 1)]
  /\ UNCHANGED <<now, peer, left, poll_rx, range, seq, chip, timer, tx_stamp,
                 rxVars, regVars, air>>

\* When twr_intiate sends the final frame, and what it says of that moment.
FinalTime(n) == Grid((rx_stamp[n] + FinalDelay) % Period)

\* Mutant of FinalStamp: without the mask 0xFFFFFFFE.
FinalStampUnmasked(n) == ((rx_stamp[n] + FinalDelay) % Period) + AntAssumed

FinalStamp(n) == FinalTime(n) + AntAssumed

FinalFrame(n) ==
  [Header("twr_3_final", seq[n], n, peer[n]) EXCEPT
     !.poll_tx = Trunc(tx_stamp[n]), !.resp_rx = Trunc(rx_stamp[n]),
     !.final_tx = Trunc(FinalStamp(n)), !.mixed = mixed[n]]

\* Mutant of SendFinal: mp_request_at in place of mp_send_at.
SendFinalRequested(n) ==
  /\ pc[n] = "i_final"
  /\ SendAt(n, FinalFrame(n), FinalTime(n), TRUE, FALSE)
  /\ Goto(n, "i_sent")
  /\ UNCHANGED <<now, peer, left, poll_rx, range, seq, mixed, status, tx_stamp,
                 rxdelay, rxto, rxVars, air>>

SendFinal(n) ==
  /\ pc[n] = "i_final"
  /\ \E late \in BOOLEAN :
       /\ SendAt(n, FinalFrame(n), FinalTime(n), FALSE, late)
       /\ Goto(n, IF late THEN "idle" ELSE "i_sent")
  /\ UNCHANGED <<now, peer, left, poll_rx, range, seq, mixed, status, tx_stamp,
                 rxdelay, rxto, rxVars, air>>

FinalSent(n) ==
  /\ pc[n] = "i_sent"
  /\ AwaitSent(n)
  /\ Goto(n, "idle")
  /\ UNCHANGED <<now, peer, left, poll_rx, range, seq, mixed, chip, timer, tx_stamp,
                 rxVars, regVars, air>>

\* twr_respond: a poll for this node from the expected initiator (poll_rx is
\* not read again if it is none)
ReceivePoll(n) ==
  /\ pc[n] = "r_poll"
  /\ \E ok \in BOOLEAN :
       /\ Receive(n, "twr_1_poll", ok)
       /\ GoOn(n, ok /\ rxbuf[n].dst = n /\ rxbuf[n].src = peer[n], "r_resp")
       /\ seq' = [seq EXCEPT ![n] = IF ok THEN rxbuf[n].seq ELSE @]
  /\ poll_rx' = [poll_rx EXCEPT ![n] = rx_stamp[n]]
  /\ UNCHANGED <<now, peer, left, range, mixed, chip, timer, tx_stamp, rxVars,
                 regVars, air>>

SendResp(n) ==
  /\ pc[n] = "r_resp"
  /\ RxAfterTx(n, RxAfterResp)
  /\ \E late \in BOOLEAN :
       /\ SendAt(n, Header("twr_2_resp", rxbuf[n].seq + 1, n, rxbuf[n].src),
                 Grid((poll_rx[n] + RespDelay) % Period), TRUE, late)
       /\ Goto(n, IF late THEN "idle" ELSE "r_sent")
  /\ UNCHANGED <<now, peer, left, poll_rx, range, seq, mixed, status, tx_stamp,
                 rxVars, air>>

RespSent(n) ==
  /\ pc[n] = "r_sent"
  /\ AwaitSent(n)
  /\ Goto(n, "r_final")
  /\ UNCHANGED <<now, peer, left, poll_rx, range, seq, mixed, chip, timer, tx_stamp,
                 rxVars, regVars, air>>

\* twr_respond: any frame with the id of a final one is taken
ReceiveFinal(n) ==
  /\ pc[n] = "r_final"
  /\ \E ok \in BOOLEAN :
       /\ Receive(n, "twr_3_final", ok)
       /\ Goto(n, IF ok THEN "r_range" ELSE "idle")
       /\ mixed' = [mixed EXCEPT ![n] = ok /\ Foreign(n, rxbuf[n], seq[n])]
  /\ UNCHANGED <<now, peer, left, poll_rx, range, seq, chip, timer, tx_stamp,
                 rxVars, regVars, air>>

\* The distance, as a time: 32-bit differences of time stamps.
Compute(n) ==
  /\ pc[n] = "r_range"
  /\ LET f  == rxbuf[n]
         ra == Diff(f.resp_rx, f.poll_tx)
         rb == Diff(Trunc(rx_stamp[n]), Trunc(tx_stamp[n]))
         da == Diff(f.final_tx, f.resp_rx)
         db == Diff(Trunc(tx_stamp[n]), Trunc(poll_rx[n]))
     IN \E tof \in Tof(ra, rb, da, db) : range' = [range EXCEPT ![n] = {tof}]
  /\ Goto(n, "idle")
  /\ UNCHANGED <<now, peer, left, poll_rx, seq, mixed, chipVars, air>>

-----------------------------------------------------------------------------
Polling(n) == pc[n] \in {"i_resp", "q_ping", "r_poll", "r_final"}
Sending(n) == pc[n] \in {"i_sent", "r_sent"}

\* The program of n waits for nothing but the processor (or for k_busy_wait).
CanGoOn(n) == \/ Polling(n) /\ status[n] \cap ({RxGood} \cup RxBad) # {}
              \/ Sending(n) /\ "TXFRS" \in status[n]
              \/ pc[n] \in {"i_wait", "p_wait", "i_final", "r_resp", "r_range"}

\* Time passes when no event of a chip is due, while something goes on.
Tick ==
  /\ ~ChipDue
  /\ \E n \in Node : pc[n] # "idle" \/ chip[n] # "off"
  /\ \A n \in Node : CanGoOn(n) => lag[n] < MaxLag
  /\ now' = (now + 1) % Period
  /\ lag' = [n \in Node |-> IF CanGoOn(n) THEN lag[n] + 1 ELSE lag[n]]
  /\ timer' = [n \in Node |-> IF chip[n] \in {"turning", "on"} /\ timer[n] > 0
                              THEN timer[n] - 1 ELSE timer[n]]
  /\ air' = {[a EXCEPT !.left = @ - 1] : a \in air}
  /\ UNCHANGED <<pc, peer, left, poll_rx, range, seq, mixed, chip, status, tx_stamp,
                 rxVars, regVars>>

Init ==
  /\ now = 0
  /\ pc = [n \in Node |-> "idle"]
  /\ peer = [n \in Node |-> n]
  /\ lag = [n \in Node |-> 0]
  /\ left = Budget
  /\ poll_rx = [n \in Node |-> 0]
  /\ range = [n \in Node |-> {}]
  /\ seq = [n \in Node |-> 0]
  /\ mixed = [n \in Node |-> FALSE]
  /\ chip = [n \in Node |-> "off"]
  /\ timer = [n \in Node |-> 0]
  /\ dx = [n \in Node |-> 0]
  /\ w4r = [n \in Node |-> FALSE]
  /\ rxdelay = [n \in Node |-> 0]
  /\ rxto = [n \in Node |-> 0]
  /\ status = [n \in Node |-> {}]
  /\ txbuf = [n \in Node |-> Header("ping", 0, n, n)]
  /\ rxbuf = [n \in Node |-> Header("ping", 0, n, n)]
  /\ tx_stamp = [n \in Node |-> 0]
  /\ rx_stamp = [n \in Node |-> 0]
  /\ air = {}

NewCall(n) == \E p \in Node : \/ CallInitiate(n, p) \/ CallRespond(n, p)
                              \/ CallPing(n, p) \/ CallPingRx(n, p)

\* The steps of a call under way.
Program(n) == \/ SendPing(n) \/ ReceivePing(n)
              \/ SendPoll(n) \/ ReceiveResp(n) \/ SendFinal(n) \/ FinalSent(n)
              \/ ReceivePoll(n) \/ SendResp(n) \/ RespSent(n) \/ ReceiveFinal(n)
              \/ Compute(n)

Chip(n) == Depart(n) \/ TurnOn(n) \/ GiveUp(n)

Medium == \E a \in air : Arrive(a)

Next == \/ \E n \in Node : NewCall(n) \/ Program(n) \/ Chip(n)
        \/ Medium
        \/ Tick

Spec == Init /\ [][Next]_vars

\* The chips, the medium and time go on by themselves; a call under way is
\* executed.  No call has to be made.
Fairness == /\ \A n \in Node : WF_vars(Program(n)) /\ WF_vars(Chip(n))
            /\ WF_vars(Medium)
            /\ WF_vars(Tick)

FairSpec == Spec /\ Fairness

-----------------------------------------------------------------------------
(* Properties *)

Steps == {"idle", "i_wait", "i_resp", "i_final", "i_sent", "p_wait", "q_ping",
          "r_poll", "r_resp", "r_sent", "r_final", "r_range"}

Bits == {"RXFCG", "RXTO", "RXERR", "TXFRS"}

\* The registers, buffers and locals hold what their C types can.
TypeOK ==
  /\ now \in Stamp
  /\ pc \in [Node -> Steps]
  /\ peer \in [Node -> Node]
  /\ lag \in [Node -> Nat]
  /\ left \in [Node -> Nat]
  /\ poll_rx \in [Node -> Stamp]
  /\ range \in [Node -> SUBSET Int]
  /\ seq \in [Node -> Nat]
  /\ mixed \in [Node -> BOOLEAN]
  /\ chip \in [Node -> {"off", "armed", "turning", "on"}]
  /\ timer \in [Node -> Nat]
  /\ dx \in [Node -> Stamp]
  /\ w4r \in [Node -> BOOLEAN]
  /\ rxdelay \in [Node -> Nat]
  /\ rxto \in [Node -> Nat]
  /\ status \in [Node -> SUBSET Bits]
  /\ txbuf \in [Node -> Frame]
  /\ rxbuf \in [Node -> Frame]
  /\ tx_stamp \in [Node -> Stamp]
  /\ rx_stamp \in [Node -> Stamp]
  /\ air \subseteq [frame : Frame, from : Node, left : Nat, stamp : Word]

\* The receiver of n is on, or will be without the program's doing.
Hears(n) == \/ chip[n] \in {"turning", "on"}
            \/ chip[n] = "armed" /\ w4r[n]

\* mp_poll_rx has no limit of its own (meshposition.cc:184): whenever a program
\* polls, a bit it waits for is set, or a receiver with a time-out will set one.
\* No other frame, error or order of events may take that away.
NeverDeaf ==
  \A n \in Node : Polling(n) =>
    \/ status[n] \cap ({RxGood} \cup RxBad) # {}
    \/ Hears(n) /\ rxto[n] > 0

\* mp_send_at polls for TXFRS, a bit an earlier frame may have left: when the
\* bit is there, it is that call's own frame that has gone (meshposition.cc:318).
SentMeansSent ==
  \A n \in Node : Sending(n) =>
    (chip[n] = "armed" <=> "TXFRS" \notin status[n])

\* No call, however it ends (a frame for somebody else, a time-out, a late
\* transmission), leaves the receiver on or about to come on behind its back.
CallReturnsQuiet ==
  \A n \in Node : pc[n] = "idle" => ~Hears(n)

\* "prorammed TX + antenna delay" (mesh_twr.cc:164): the time final_tx_ts that
\* the initiator puts in the frame before sending it is the time at which the
\* frame then leaves its antenna.
FinalStampTrue ==
  \A x \in air : x.frame.id = "twr_3_final" => x.frame.final_tx = x.stamp

\* That time, predicted from a reception on the grid of delayed sending before
\* the frame exists, misses the true one by the difference of the antenna delay
\* assumed and the one in the chip, and by nothing else: wherever the two
\* counters wrap, however late the program was (mesh_twr.cc:163-165).
FinalStampOff ==
  \A x \in air : x.frame.id = "twr_3_final" =>
    x.frame.final_tx = Trunc(x.stamp + AntAssumed - AntDelay)

\* Delays and time-outs fit together (mesh_twr.cc:50-52): with nobody else on
\* the air, a response and a final frame find the receiver of their addressee
\* on, however slow either program was.
AnswersFindReceiver ==
  \A x \in air : x.left = 0 /\ x.frame.id \in {"twr_2_resp", "twr_3_final"} =>
    chip[x.frame.dst] = "on"

\* The ranges that the difference of the antenna delays accounts for.  In the
\* firmware, where the chip delays longer than the code assumes, a range is at
\* least the time of flight and exceeds it by at most half the difference.
NearFlight ==
  LET long == AntDelay - AntAssumed
  IN {r \in Int : 2 * (r - Flight) \in (IF long >= 0 THEN 0 .. long
                                         ELSE long - 1 .. 0)}

\* A range is the true time of flight but for the antenna delays, whatever
\* calls came before and whenever the counters wrap, unless a frame of a third
\* node, or of an earlier exchange of the same two, was taken for one of this
\* (mesh_twr.cc:98,157 look at the id only).
RangeIsFlightTime ==
  \A n \in Node : ~mixed[n] => range[n] \subseteq NearFlight

\* Every call comes to its end: a lost frame, an error or a late transmission
\* ends it, it never waits for ever.
EveryCallReturns ==
  \A n \in Node : (pc[n] # "idle") ~> (pc[n] = "idle")

=============================================================================

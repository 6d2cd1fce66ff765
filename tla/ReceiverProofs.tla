--------------------------- MODULE ReceiverProofs ---------------------------
(***************************************************************************)
(* The theorem about the delays of two-way ranging: with two nodes on the  *)
(* air, a response and a final frame find the receiver of their addressee  *)
(* on (AnswersFindReceiver), however slow the programs were, whatever was  *)
(* lost or spoiled, and whatever either node called before.                *)
(*                                                                         *)
(* A node that has sent a poll or a response asks for an answer: its       *)
(* receiver comes on some time later and goes off again at its time-out.   *)
(* The chip's own timer says how long ago the question left (Elapsed).     *)
(* The invariant ties this clock, at every stage of the answer, to the     *)
(* other node's: the flight of the question, the lag of the program that   *)
(* has read it, the time to a transmission that is programmed, the flight  *)
(* of the answer (Met).  What makes it hard is that the receiver goes off  *)
(* when it takes any frame: so it also has to say that no other frame of   *)
(* the other node can come while it is on (Behind).                        *)
(***************************************************************************)
EXTENDS RangingProofs

\* How long a frame takes from one chip to the other
Way == AntDelay + Flight

(* Two frames ask for an answer, the poll and the response. *)
Asks       == {"twr_1_poll", "twr_2_resp"}
Answer(k)  == IF k = "twr_1_poll" THEN "twr_2_resp" ELSE "twr_3_final"
OnAfter(k) == IF k = "twr_1_poll" THEN RxAfterPoll ELSE RxAfterResp
Reply(k)   == IF k = "twr_1_poll" THEN RespDelay ELSE FinalDelay

\* The receiver comes on when two flights are over, before the answer can be
\* back (the grid of the delayed transmission may take up to a grain off the
\* programmed delay), and stays on until it is.
InTime(k) ==
  /\ 2 * Way < OnAfter(k)
  /\ OnAfter(k) < 2 * Way + Reply(k) - Grain + 1
  /\ 2 * Way + Reply(k) < OnAfter(k) + Timeout

\* What the theorem asks of the constants: at most two nodes, neither of which
\* ranges with itself, delays that fit (mesh_twr.cc:45-55), and a busy wait
\* that takes some time.  Without the last, the next poll of an initiator could
\* meet the receiver together with its final frame, and switch it off.
DelaysMeet ==
  /\ \A a, b, c \in Node : a = b \/ a = c \/ b = c
  /\ \A n \in Node, op \in Ops : <<op, n>> \notin Script[n]
  /\ 0 < BusyWait
  /\ \A k \in Asks : InTime(k)

(***************************************************************************)
(* Questions and answers                                                   *)
(***************************************************************************)

\* n has asked k, or is about to, and its call goes on with the answer.
Awaits(n, k) ==
  pc[n] \in IF k = "twr_1_poll" THEN {"i_resp"} ELSE {"r_sent", "r_final"}

\* The question has left, and the receiver has not gone off since.
Asking(n, k) == Awaits(n, k) /\ chip[n] \in {"turning", "on"}

\* How long ago it left
Elapsed(n) ==
  IF chip[n] = "turning" THEN rxdelay[n] - timer[n]
                         ELSE rxdelay[n] + rxto[n] - timer[n]

\* m has received k, and has not programmed its answer yet.
Reading(m, k) ==
  \/ /\ pc[m] = IF k = "twr_1_poll" THEN "r_poll" ELSE "i_resp"
     /\ RxGood \in status[m] /\ rxbuf[m].id = k
  \/ pc[m] = IF k = "twr_1_poll" THEN "r_resp" ELSE "i_final"

\* The answer is programmed, and leaves in Due(m).
Replying(m, k) ==
  chip[m] = "armed" /\ pc[m] = IF k = "twr_1_poll" THEN "r_sent" ELSE "i_sent"

Due(m) == (dx[m] - Own(m)) % Period

\* Whatever else m has on the air passes before the receiver of n is on.
Behind(n, m) == \A y \in air : y.from = m => y.left + Elapsed(n) <= 2 * Way

\* The four stages: the question is on its way, is read, is being answered, and
\* the answer is on its way.  A program that has read it too late to answer in
\* time owes nothing: its transmission will be refused.
Met(n, m, k) ==
  /\ \A x \in air : x.from = n /\ x.frame.id = k =>
       Asking(n, k) /\ x.left + Elapsed(n) = Way
  /\ Reading(m, k) /\ lag[m] <= Reply(k) =>
       Asking(n, k) /\ Elapsed(n) = Way + lag[m] /\ Behind(n, m)
  /\ Replying(m, k) =>
       /\ Asking(n, k) /\ Behind(n, m)
       /\ Due(m) + Elapsed(n) \in Way + Reply(k) - Grain + 1 .. Way + Reply(k)
  /\ \A x \in air : x.from = m /\ x.frame.id = Answer(k) =>
       /\ Asking(n, k)
       /\ x.left + Elapsed(n) \in
            2 * Way + Reply(k) - Grain + 1 .. 2 * Way + Reply(k)
       /\ \A y \in air : y.from = m =>
            y = x \/ y.left > x.left \/ y.left + Elapsed(n) <= 2 * Way

\* The program of n knows how long ago the frame came that it goes on with.
Clock(n) ==
  /\ Polling(n) /\ status[n] \cap RxBits = {} => lag[n] = 0
  /\ \A k \in Asks : Reading(n, k) =>
       lag[n] <= MaxLag /\ Own(n) = (rx_stamp[n] + lag[n]) % Period
  /\ pc[n] = "r_resp" => poll_rx[n] = rx_stamp[n] /\ rxbuf[n].src = peer[n]
  /\ pc[n] # "idle" => peer[n] # n

\* What it has put into its chip
Programmed(n) ==
  /\ \A k \in Asks : Awaits(n, k) => rxdelay[n] = OnAfter(k) /\ rxto[n] = Timeout
  /\ chip[n] = "turning" => timer[n] <= rxdelay[n]
  /\ chip[n] = "on" => timer[n] <= rxto[n]
  /\ chip[n] = "armed" =>
       /\ pc[n] = "idle" => txbuf[n].id = "ping"
       /\ pc[n] = "i_resp" => txbuf[n].id = "twr_1_poll"
       /\ pc[n] = "r_sent" =>
            txbuf[n].id = "twr_2_resp" /\ txbuf[n].dst # n /\ w4r[n]
       /\ pc[n] = "i_sent" => txbuf[n].id = "twr_3_final" /\ txbuf[n].dst # n
       /\ pc[n] \in {"idle", "i_resp"} => dx[n] = Own(n)

\* Its frames on the air: a final frame has left before the program goes on to
\* its next call, and is ahead of what that sends.
Sent(n) ==
  \A x \in air : x.from = n =>
    /\ x.left <= Way
    /\ x.frame.id \in {"twr_2_resp", "twr_3_final"} => x.frame.dst # n
    /\ x.frame.id = "twr_3_final" =>
         /\ pc[n] \in {"i_wait", "p_wait"} => x.left + lag[n] <= Way
         /\ chip[n] = "armed" /\ pc[n] \in {"idle", "i_resp"} => x.left < Way

MeetInv ==
  \A n \in Node : /\ Clock(n) /\ Programmed(n) /\ Sent(n)
                  /\ \A m \in Node \ {n}, k \in Asks : Met(n, m, k)

Sound == TypeOK /\ DriverInv /\ MeetInv

(***************************************************************************)
(* Numbers                                                                 *)
(***************************************************************************)
LEMMA MeetConstants ==
  ASSUME DelaysMeet, NEW k \in Asks
  PROVE  /\ Way \in Nat /\ 0 < Way
         /\ OnAfter(k) \in Nat /\ Reply(k) \in Nat /\ Reply(k) < Half
         /\ Grain \in Nat /\ 0 < Grain /\ Timeout \in Nat /\ 0 < Timeout
         /\ 2 * Way < OnAfter(k)
         /\ OnAfter(k) < 2 * Way + Reply(k) - Grain + 1
         /\ 2 * Way + Reply(k) < OnAfter(k) + Timeout
<1>1. RespDelay < Half /\ FinalDelay < Half
  BY RangingAssumption
<1>2. InTime(k)
  BY DEF DelaysMeet
<1> QED
  BY <1>1, <1>2, ConstantTypes DEF InTime, Way, OnAfter, Reply

LEMMA MeetTypes ==
  ASSUME TypeOK
  PROVE  /\ pc \in [Node -> Steps] /\ peer \in [Node -> Node]
         /\ chip \in [Node -> {"off", "armed", "turning", "on"}]
         /\ lag \in [Node -> Nat] /\ timer \in [Node -> Nat]
         /\ rxdelay \in [Node -> Nat] /\ rxto \in [Node -> Nat]
         /\ w4r \in [Node -> BOOLEAN] /\ status \in [Node -> SUBSET Bits]
         /\ dx \in [Node -> Stamp] /\ rx_stamp \in [Node -> Stamp]
         /\ poll_rx \in [Node -> Stamp]
         /\ txbuf \in [Node -> Frame] /\ rxbuf \in [Node -> Frame]
         /\ \A x \in air : x.left \in Nat /\ x.from \in Node
         /\ \A n \in Node : Elapsed(n) \in Int /\ Own(n) \in Stamp
<1>1. \A n \in Node : rxdelay[n] \in Nat /\ rxto[n] \in Nat /\ timer[n] \in Nat
  BY DEF TypeOK
<1>2. ASSUME NEW n \in Node PROVE Elapsed(n) \in Int
  <2>1. rxdelay[n] - timer[n] \in Int /\ rxdelay[n] + rxto[n] - timer[n] \in Int
    BY <1>1
  <2> QED
    BY <2>1 DEF Elapsed
<1>3. \A x \in air : x.left \in Nat /\ x.from \in Node
  BY DEF TypeOK
<1> QED
  BY <1>2, <1>3, OwnType DEF TypeOK

LEMMA DueType ==
  ASSUME TypeOK, NEW m \in Node
  PROVE  Due(m) \in 0 .. Period - 1
<1>1. dx[m] - Own(m) \in Int
  BY MeetTypes DEF Stamp
<1> QED
  BY <1>1, ConstantTypes, ModuloInRange DEF Due

\* A frame came at t, the program goes on at some time later and sends the
\* answer D after t, on the grid: unless it is late, the answer leaves between
\* D less a grain and D after t.
LEMMA AnswerTime ==
  ASSUME NEW t \in Stamp, NEW D \in Nat, D < Half, Grain <= D,
         NEW l \in 0 .. MaxLag,
         ~ ((Grid((t + D) % Period) - ((t + l) % Period)) % Period > Half)
  PROVE  \E d \in D - Grain + 1 .. D :
           /\ l <= d
           /\ (Grid((t + D) % Period) - ((t + l) % Period)) % Period = d - l
<1> DEFINE w == (t + D) % Period
           i == (t + D) \div Period
           o == (t + l) % Period
           j == (t + l) \div Period
           g == w % Grain
           d == D - g
           a == (Grid(w) - o) % Period
<1>1. /\ t \in Int /\ l \in Int /\ D \in Int /\ Grain \in Nat \ {0}
      /\ Period \in Nat \ {0} /\ MaxLag \in Nat
  BY ConstantTypes DEF Stamp
<1>2. Half \in Int /\ 2 * Half <= Period /\ MaxLag < Half
  BY RangingAssumption, <1>1 DEF Half
<1>3. w \in Int /\ i \in Int /\ t + D = Period * i + w
  BY <1>1, ModuloSplit, ModuloInRange
<1>4. o \in Int /\ j \in Int /\ t + l = Period * j + o
  BY <1>1, ModuloSplit, ModuloInRange
<1> HIDE DEF w, i, o, j
<1>5. g \in 0 .. Grain - 1 /\ Grid(w) = w - g
  BY <1>1, <1>3, ModuloInRange DEF Grid
<1> HIDE DEF g
<1>6. d \in D - Grain + 1 .. D /\ d \in Nat
  BY <1>1, <1>5
<1>7. j - i \in Int /\ Grid(w) - o = Period * (j - i) + (d - l)
  BY <1>1, <1>3, <1>4, <1>5
<1>8. CASE l <= d
  <2>1. d - l \in 0 .. Period - 1
    BY <1>1, <1>2, <1>6, <1>8
  <2>2. a = d - l
    BY <1>1, <1>7, <2>1, ModuloUnique
  <2> QED
    BY <1>6, <1>8, <2>2 DEF w, o
<1>9. CASE l > d
  <2>1. Period + d - l \in 0 .. Period - 1 /\ Period + d - l > Half
    BY <1>1, <1>2, <1>6, <1>9
  <2>2. j - i - 1 \in Int /\ Grid(w) - o = Period * (j - i - 1) + (Period + d - l)
    BY <1>1, <1>6, <1>7
  <2>3. a = Period + d - l
    BY <1>1, <2>1, <2>2, ModuloUnique
  <2> QED
    BY <2>1, <2>3 DEF w, o
<1> QED
  BY <1>1, <1>6, <1>8, <1>9

\* As time goes on, what is due comes nearer.
LEMMA DueComes ==
  ASSUME TypeOK, NEW m \in Node, Due(m) # 0,
         now' = (now + 1) % Period, dx' = dx
  PROVE  Due(m)' = Due(m) - 1
<1> DEFINE f == Offset[m]
           c == dx[m]
           r == (now + 1) % Period
           o == (now + f) % Period
           p == (r + f) % Period
           u == (c - o) % Period
<1>1. /\ now \in Int /\ f \in Int /\ c \in Int /\ Period \in Nat \ {0}
      /\ now + 1 \in Int /\ now + f \in Int
  BY ConstantTypes DEF TypeOK, Stamp
<1>2. Due(m) = u /\ Due(m)' = (c - p) % Period
  BY DEF Due, Own
<1> HIDE DEF f, c
<1>3. PICK j \in Int : now + 1 = Period * j + r
  BY <1>1, ModuloSplit
<1>4. PICK i \in Int : now + f = Period * i + o
  BY <1>1, ModuloSplit
<1>5. r \in Int /\ o \in Int
  BY <1>1, ModuloInRange
<1> HIDE DEF r, o
<1>6. r + f \in Int /\ c - o \in Int
  BY <1>1, <1>5
<1>7. PICK h \in Int : r + f = Period * h + p
  BY <1>1, <1>6, ModuloSplit
<1>8. PICK q \in Int : c - o = Period * q + u
  BY <1>1, <1>6, ModuloSplit
<1>9. p \in Int /\ u \in 0 .. Period - 1
  <2>1. p \in 0 .. Period - 1
    BY <1>1, <1>6, ModuloInRange
  <2>2. u \in 0 .. Period - 1
    BY <1>1, <1>6, ModuloInRange
  <2> QED
    BY <2>1, <2>2
<1> HIDE DEF p, u
<1>10. u - 1 \in 0 .. Period - 1
  BY <1>1, <1>2, <1>9
<1>11. /\ q - i + j + h \in Int
       /\ c - p = Period * (q - i + j + h) + (u - 1)
  BY <1>1, <1>3, <1>4, <1>5, <1>7, <1>8, <1>9
<1>12. (c - p) % Period = u - 1
  BY <1>1, <1>10, <1>11, ModuloUnique
<1> QED
  BY <1>2, <1>12

(***************************************************************************)
(* What the stages say                                                     *)
(***************************************************************************)
LEMMA Silent ==
  ASSUME DriverInv, NEW n \in Node, chip[n] \in {"turning", "on"}
  PROVE  status[n] \cap RxBits = {}
  BY DEF DriverInv, NodeInv, Hears

\* A node asks one question at a time.
LEMMA OneQuestion ==
  ASSUME NEW n \in Node, NEW k \in Asks, NEW j \in Asks,
         Awaits(n, k), Awaits(n, j)
  PROVE  k = j
  BY DEF Asks, Awaits

\* Until two flights have passed, the receiver of a node that asks is off.
LEMMA Early ==
  ASSUME DelaysMeet, Sound, NEW n \in Node, NEW k \in Asks, Asking(n, k),
         Elapsed(n) <= 2 * Way
  PROVE  chip[n] = "turning"
<1>1. /\ rxdelay[n] = OnAfter(k)
      /\ chip[n] = "on" => timer[n] <= rxto[n]
      /\ rxdelay[n] \in Nat /\ rxto[n] \in Nat /\ timer[n] \in Nat
  BY MeetTypes DEF Sound, MeetInv, Programmed, Asking
<1>2. 2 * Way < OnAfter(k) /\ Way \in Nat
  BY MeetConstants
<1>3. CASE chip[n] = "on"
  <2>1. Elapsed(n) = rxdelay[n] + rxto[n] - timer[n]
    BY <1>3 DEF Elapsed
  <2> QED
    BY <1>1, <1>2, <1>3, <2>1
<1> QED
  BY <1>3 DEF Asking

LEMMA MeetInit == Init => MeetInv
<1> SUFFICES ASSUME Init, NEW n \in Node PROVE
       /\ Clock(n) /\ Programmed(n) /\ Sent(n)
       /\ \A m \in Node \ {n}, k \in Asks : Met(n, m, k)
  BY DEF MeetInv
<1>1. Clock(n) /\ Programmed(n) /\ Sent(n)
  BY DEF Init, Clock, Programmed, Sent, Polling, Reading, Awaits
<1>2. \A m \in Node \ {n}, k \in Asks : Met(n, m, k)
  BY DEF Init, Met, Reading, Replying
<1> QED
  BY <1>1, <1>2

(***************************************************************************)
(* Steps of one node                                                       *)
(***************************************************************************)

\* What the invariant says of a node, but for its frames
View(n) == <<pc[n], peer[n], lag[n], poll_rx[n], chip[n], timer[n], dx[n], w4r[n],
             rxdelay[n], rxto[n], status[n], txbuf[n], rxbuf[n], rx_stamp[n]>>

LEMMA ViewKept ==
  ASSUME NEW q \in Node, View(q)' = View(q), now' = now, NEW k
  PROVE  /\ Asking(q, k)' <=> Asking(q, k)
         /\ Elapsed(q)' = Elapsed(q)
         /\ Reading(q, k)' <=> Reading(q, k)
         /\ Replying(q, k)' <=> Replying(q, k)
         /\ Due(q)' = Due(q) /\ lag'[q] = lag[q]
  BY DEF View, Asking, Awaits, Elapsed, Reading, Replying, Due, Own

LEMMA OwnKept ==
  ASSUME NEW q \in Node, View(q)' = View(q), now' = now, Clock(q), Programmed(q)
  PROVE  Clock(q)' /\ Programmed(q)'
<1>1. \A k \in Asks : Reading(q, k)' <=> Reading(q, k)
  BY ViewKept
<1>2. Clock(q)'
  BY <1>1 DEF View, Clock, Polling, Own
<1>3. Programmed(q)'
  BY DEF View, Programmed, Awaits, Own
<1> QED
  BY <1>2, <1>3

\* A step of p alone that puts no frame on the air, and forgets no question.
LEMMA LocalStep ==
  ASSUME Sound, NEW p \in Node, now' = now, air' = air,
         \A q \in Node \ {p} : View(q)' = View(q),
         Clock(p)', Programmed(p)', Sent(p)',
         \A k \in Asks : Asking(p, k) => Asking(p, k)' /\ Elapsed(p)' = Elapsed(p),
         \A k \in Asks : Reading(p, k)' => Reading(p, k) /\ lag'[p] = lag[p],
         \A n \in Node \ {p}, k \in Asks : Replying(p, k)' =>
           /\ Asking(n, k) /\ Behind(n, p)
           /\ Due(p)' + Elapsed(n) \in Way + Reply(k) - Grain + 1 .. Way + Reply(k)
  PROVE  MeetInv'
<1>1. ASSUME NEW n \in Node PROVE Clock(n)' /\ Programmed(n)' /\ Sent(n)'
  <2>1. CASE n # p
    <3>1. View(n)' = View(n) /\ Clock(n) /\ Programmed(n) /\ Sent(n)
      BY <2>1 DEF Sound, MeetInv
    <3>2. Sent(n)'
      BY <3>1 DEF View, Sent, Own
    <3> QED
      BY <3>1, <3>2, OwnKept
  <2> QED
    BY <2>1
<1>2. ASSUME NEW n \in Node, NEW m \in Node \ {n}, NEW k \in Asks PROVE Met(n, m, k)'
  <2>1. Met(n, m, k)
    BY DEF Sound, MeetInv
  <2>2. Asking(n, k) => Asking(n, k)' /\ Elapsed(n)' = Elapsed(n)
    BY ViewKept
  <2>3. Reading(m, k)' => Reading(m, k) /\ lag'[m] = lag[m]
    BY ViewKept
  <2>4. Asking(n, k) /\ Behind(n, m) => Behind(n, m)'
    BY <2>2 DEF Behind
  <2>5. Replying(m, k)' =>
           /\ Asking(n, k) /\ Behind(n, m)
           /\ Due(m)' + Elapsed(n) \in Way + Reply(k) - Grain + 1 .. Way + Reply(k)
    <3>1. CASE m = p
      BY <3>1
    <3>2. CASE m # p
      <4>1. Replying(m, k)' => Replying(m, k) /\ Due(m)' = Due(m)
        BY <3>2, ViewKept
      <4> QED
        BY <2>1, <4>1 DEF Met
    <3> QED
      BY <3>1, <3>2
  <2> QED
    BY <2>1, <2>2, <2>3, <2>4, <2>5 DEF Met
<1> QED
  BY <1>1, <1>2 DEF MeetInv

\* A step that programs no answer
LEMMA QuietStep ==
  ASSUME Sound, NEW p \in Node, now' = now, air' = air,
         \A q \in Node \ {p} : View(q)' = View(q),
         Clock(p)', Programmed(p)', Sent(p)',
         \A k \in Asks : Asking(p, k) => Asking(p, k)' /\ Elapsed(p)' = Elapsed(p),
         \A k \in Asks : Reading(p, k)' => Reading(p, k) /\ lag'[p] = lag[p],
         \A k \in Asks : ~Replying(p, k)'
  PROVE  MeetInv'
  BY LocalStep

\* A call begins: no question is open, and nothing has been read.
LEMMA CallMeets ==
  ASSUME DelaysMeet, Sound, NEW p \in Node, NewCall(p)
  PROVE  MeetInv'
<1>1. PICK o \in Node : \/ CallInitiate(p, o) \/ CallRespond(p, o)
                        \/ CallPing(p, o) \/ CallPingRx(p, o)
  BY DEF NewCall
<1>2. PICK op \in Ops : Call(p, op, o)
  BY <1>1 DEF CallInitiate, CallRespond, CallPing, CallPingRx, Ops
<1>3. /\ pc[p] = "idle" /\ chip[p] # "armed" /\ o # p
      /\ peer' = [peer EXCEPT ![p] = o]
      /\ UNCHANGED <<now, poll_rx, status, rxbuf, rx_stamp, air>>
  BY <1>2 DEF Call, rxVars, DelaysMeet
<1>4. PICK l \in {"i_wait", "p_wait", "r_poll", "q_ping"} :
        /\ pc' = [pc EXCEPT ![p] = l]
        /\ lag' = [lag EXCEPT ![p] = 0]
  BY <1>1 DEF CallInitiate, CallRespond, CallPing, CallPingRx, Goto
<1>5. /\ UNCHANGED <<dx, w4r, rxdelay, txbuf>>
      /\ \/ UNCHANGED <<chip, timer, rxto>>
         \/ /\ chip' = [chip EXCEPT ![p] = "on"]
            /\ timer' = [timer EXCEPT ![p] = Timeout]
            /\ rxto' = [rxto EXCEPT ![p] = Timeout]
  BY <1>1 DEF CallInitiate, CallRespond, CallPing, CallPingRx, RxNow, regVars
<1>6. TypeOK /\ DriverInv /\ NodeInv(p) /\ Clock(p) /\ Programmed(p) /\ Sent(p)
  BY DEF Sound, MeetInv, DriverInv
<1> USE <1>6, MeetTypes
<1>7. status[p] \cap RxBits = {} /\ RxGood \notin status[p] /\ chip[p] = "off"
  BY <1>3 DEF NodeInv, Waiting, Polling, Hears, RxBits
<1>8. \A q \in Node \ {p} : View(q)' = View(q)
  BY <1>3, <1>4, <1>5 DEF View
<1>9. pc'[p] = l /\ lag'[p] = 0 /\ peer'[p] = o /\ status'[p] = status[p]
  BY <1>3, <1>4
<1>10. \A k \in Asks : ~Asking(p, k) /\ ~Reading(p, k)' /\ ~Replying(p, k)' /\ ~Awaits(p, k)'
  BY <1>3, <1>7, <1>9 DEF Asking, Awaits, Reading, Replying
<1>11. Clock(p)'
  BY <1>3, <1>9, <1>10 DEF Clock
<1>12. Programmed(p)'
  <2>1. \/ chip'[p] = "off"
        \/ chip'[p] = "on" /\ timer'[p] = Timeout /\ rxto'[p] = Timeout
    BY <1>5, <1>7
  <2> QED
    BY <1>10, <2>1, ConstantTypes DEF Programmed
<1>13. Sent(p)'
  <2>1. chip'[p] # "armed"
    BY <1>5, <1>7
  <2> QED
    BY <1>3, <1>9, <2>1 DEF Sent
<1> QED
  BY <1>3, <1>8, <1>10, <1>11, <1>12, <1>13, QuietStep DEF Sound

\* A ping, or a poll: the frame leaves at once, after the busy wait.
LEMMA SendNowMeets ==
  ASSUME DelaysMeet, Sound, NEW p \in Node, SendPing(p) \/ SendPoll(p)
  PROVE  MeetInv'
<1>1. TypeOK /\ DriverInv /\ NodeInv(p) /\ Clock(p) /\ Programmed(p) /\ Sent(p)
  BY DEF Sound, MeetInv, DriverInv
<1> USE <1>1, MeetTypes
<1>2. /\ pc[p] \in {"p_wait", "i_wait"} /\ lag[p] >= BusyWait
      /\ lag' = [lag EXCEPT ![p] = 0]
      /\ dx' = [dx EXCEPT ![p] = Own(p)]
      /\ chip' = [chip EXCEPT ![p] = "armed"]
      /\ UNCHANGED <<now, peer, poll_rx, timer, status, rxbuf, rx_stamp, air>>
  BY DEF SendPing, SendPoll, SendNow, Goto, rxVars
<1>3. PICK l \in {"idle", "i_resp"} :
        /\ pc' = [pc EXCEPT ![p] = l]
        /\ txbuf' = [txbuf EXCEPT ![p] = txbuf'[p]]
        /\ w4r' = [w4r EXCEPT ![p] = w4r'[p]]
        /\ rxdelay' = [rxdelay EXCEPT ![p] = rxdelay'[p]]
        /\ rxto' = [rxto EXCEPT ![p] = rxto'[p]]
        /\ l = "idle" => txbuf'[p].id = "ping"
        /\ l = "i_resp" => /\ txbuf'[p].id = "twr_1_poll"
                           /\ rxdelay'[p] = RxAfterPoll /\ rxto'[p] = Timeout
  <2>1. CASE SendPing(p)
    BY <2>1 DEF SendPing, SendNow, Goto, Header
  <2>2. CASE SendPoll(p)
    BY <2>2 DEF SendPoll, SendNow, RxAfterTx, Goto, Header
  <2> QED
    BY <2>1, <2>2
<1>4. status[p] \cap RxBits = {} /\ RxGood \notin status[p] /\ chip[p] # "turning"
      /\ chip[p] # "on"
  BY <1>2 DEF NodeInv, Waiting, Polling, Hears, RxBits
<1>5. \A q \in Node \ {p} : View(q)' = View(q)
  BY <1>2, <1>3 DEF View
<1>6. /\ pc'[p] = l /\ chip'[p] = "armed" /\ lag'[p] = 0 /\ peer'[p] = peer[p]
      /\ status'[p] = status[p] /\ dx'[p] = Own(p)' /\ pc[p] # "idle"
  BY <1>2, <1>3 DEF Own
<1>7. \A k \in Asks : ~Asking(p, k) /\ ~Reading(p, k)' /\ ~Replying(p, k)'
  BY <1>4, <1>6 DEF Asking, Awaits, Reading, Replying
<1>8. Clock(p)'
  BY <1>6, <1>7 DEF Clock
<1>9. Programmed(p)'
  BY <1>3, <1>6 DEF Programmed, Awaits, OnAfter
<1>10. Sent(p)'
  <2>1. 0 < BusyWait /\ BusyWait \in Nat /\ Way \in Int
    BY ConstantTypes DEF DelaysMeet, Way
  <2>2. lag[p] \in Nat /\ \A x \in air : x.left \in Nat
    BY Zenon
  <2> QED
    BY <1>2, <1>6, <2>1, <2>2 DEF Sent
<1> QED
  BY <1>2, <1>5, <1>7, <1>8, <1>9, <1>10, QuietStep

\* mp_receive reads a bit that the chip has set, and it has gone off.
LEMMA Received ==
  ASSUME Sound, NEW p \in Node, Polling(p), NEW id, NEW ok \in BOOLEAN,
         Receive(p, id, ok)
  PROVE  /\ chip[p] = "off"
         /\ status' = [status EXCEPT ![p] = status'[p]]
         /\ RxGood \notin status'[p]
         /\ ok => RxGood \in status[p] /\ rxbuf[p].id = id
<1>1. TypeOK /\ DriverInv /\ NodeInv(p)
  BY DEF Sound, DriverInv
<1>2. /\ status[p] \cap RxBits # {}
      /\ status' = [status EXCEPT ![p] = status'[p]]
      /\ RxGood \notin status'[p]
      /\ ok => RxGood \in status[p] /\ rxbuf[p].id = id
  BY <1>1, MeetTypes DEF Receive, RxBits, RxBad, RxGood
<1>3. ~Hears(p)
  BY <1>1, <1>2 DEF NodeInv
<1>4. chip[p] \in {"off", "armed", "turning", "on"}
  BY <1>1, MeetTypes
<1>5. chip[p] # "armed"
  BY <1>1, <1>3 DEF NodeInv, Hears, Polling
<1> QED
  BY <1>2, <1>3, <1>4, <1>5 DEF Hears

\* The program of p reads a frame, or gives up, and goes on at l.
ReadsOn(p, id, ok, l) ==
  /\ Polling(p) /\ Receive(p, id, ok)
  /\ pc' = [pc EXCEPT ![p] = l]
  /\ lag' = [lag EXCEPT ![p] = lag'[p]]
  /\ poll_rx' = [poll_rx EXCEPT ![p] = poll_rx'[p]]
  /\ l \in {"i_final", "r_resp"} => ok /\ lag'[p] = lag[p]
  /\ l = "i_final" => pc[p] = "i_resp" /\ id = "twr_2_resp"
  /\ l = "r_resp" => /\ pc[p] = "r_poll" /\ id = "twr_1_poll"
                     /\ rxbuf[p].src = peer[p] /\ poll_rx'[p] = rx_stamp[p]

\* A frame is read: the program goes on with it, or its call ends.
LEMMA ReceiveMeets ==
  ASSUME Sound, NEW p \in Node,
         \/ ReceivePing(p) \/ ReceiveResp(p) \/ ReceivePoll(p) \/ ReceiveFinal(p)
  PROVE  MeetInv'
<1>1. TypeOK /\ DriverInv /\ NodeInv(p) /\ Clock(p) /\ Programmed(p) /\ Sent(p)
  BY DEF Sound, MeetInv, DriverInv
<1> USE <1>1, MeetTypes
<1>a. PICK id \in Ids, ok \in BOOLEAN, l \in {"idle", "i_final", "r_resp", "r_range"} :
        ReadsOn(p, id, ok, l)
  <2>1. CASE ReceivePing(p)
    <3>1. PICK ok \in BOOLEAN : Receive(p, "ping", ok)
      BY <2>1 DEF ReceivePing
    <3>2. ReadsOn(p, "ping", ok, "idle")
      BY <2>1, <3>1 DEF ReceivePing, ReadsOn, Goto, Polling
    <3> QED
      BY <3>2 DEF Ids
  <2>2. CASE ReceiveResp(p)
    <3>1. PICK ok \in BOOLEAN :
            Receive(p, "twr_2_resp", ok) /\ GoOn(p, ok, "i_final")
      BY <2>2 DEF ReceiveResp
    <3>2. pc[p] = "i_resp" /\ poll_rx' = poll_rx
      BY <2>2 DEF ReceiveResp
    <3>3. CASE ok
      <4>1. ReadsOn(p, "twr_2_resp", ok, "i_final")
        BY <3>1, <3>2, <3>3 DEF GoOn, ReadsOn, Polling
      <4> QED
        BY <4>1 DEF Ids
    <3>4. CASE ~ok
      <4>1. ReadsOn(p, "twr_2_resp", ok, "idle")
        BY <3>1, <3>2, <3>4 DEF GoOn, ReadsOn, Polling
      <4> QED
        BY <4>1 DEF Ids
    <3> QED
      BY <3>3, <3>4
  <2>3. CASE ReceivePoll(p)
    <3>1. PICK ok \in BOOLEAN :
            /\ Receive(p, "twr_1_poll", ok)
            /\ GoOn(p, ok /\ rxbuf[p].dst = p /\ rxbuf[p].src = peer[p], "r_resp")
      BY <2>3 DEF ReceivePoll
    <3>2. pc[p] = "r_poll" /\ poll_rx' = [poll_rx EXCEPT ![p] = rx_stamp[p]]
      BY <2>3 DEF ReceivePoll
    <3>3. CASE ok /\ rxbuf[p].dst = p /\ rxbuf[p].src = peer[p]
      <4>1. ReadsOn(p, "twr_1_poll", ok, "r_resp")
        BY <3>1, <3>2, <3>3 DEF GoOn, ReadsOn, Polling
      <4> QED
        BY <4>1 DEF Ids
    <3>4. CASE ~(ok /\ rxbuf[p].dst = p /\ rxbuf[p].src = peer[p])
      <4>1. ReadsOn(p, "twr_1_poll", ok, "idle")
        BY <3>1, <3>2, <3>4 DEF GoOn, ReadsOn, Polling
      <4> QED
        BY <4>1 DEF Ids
    <3> QED
      BY <3>3, <3>4
  <2>4. CASE ReceiveFinal(p)
    <3>1. PICK ok \in BOOLEAN :
            /\ Receive(p, "twr_3_final", ok)
            /\ Goto(p, IF ok THEN "r_range" ELSE "idle")
      BY <2>4 DEF ReceiveFinal
    <3>2. pc[p] = "r_final" /\ poll_rx' = poll_rx
      BY <2>4 DEF ReceiveFinal
    <3>3. CASE ok
      <4>1. ReadsOn(p, "twr_3_final", ok, "r_range")
        BY <3>1, <3>2, <3>3 DEF Goto, ReadsOn, Polling
      <4> QED
        BY <4>1 DEF Ids
    <3>4. CASE ~ok
      <4>1. ReadsOn(p, "twr_3_final", ok, "idle")
        BY <3>1, <3>2, <3>4 DEF Goto, ReadsOn, Polling
      <4> QED
        BY <4>1 DEF Ids
    <3> QED
      BY <3>3, <3>4
  <2> QED
    BY <2>1, <2>2, <2>3, <2>4
<1>2. /\ Polling(p) /\ Receive(p, id, ok)
      /\ pc' = [pc EXCEPT ![p] = l]
      /\ lag' = [lag EXCEPT ![p] = lag'[p]]
      /\ poll_rx' = [poll_rx EXCEPT ![p] = poll_rx'[p]]
      /\ l \in {"i_final", "r_resp"} => ok /\ lag'[p] = lag[p]
      /\ l = "i_final" => pc[p] = "i_resp" /\ id = "twr_2_resp"
      /\ l = "r_resp" => /\ pc[p] = "r_poll" /\ id = "twr_1_poll"
                         /\ rxbuf[p].src = peer[p] /\ poll_rx'[p] = rx_stamp[p]
  BY <1>a DEF ReadsOn
<1>3. UNCHANGED <<now, peer, chip, timer, dx, w4r, rxdelay, rxto, txbuf, rxbuf,
                  rx_stamp, air>>
  BY DEF ReceivePing, ReceiveResp, ReceivePoll, ReceiveFinal, rxVars, regVars
<1>4. /\ chip[p] = "off"
      /\ status' = [status EXCEPT ![p] = status'[p]]
      /\ RxGood \notin status'[p]
      /\ ok => RxGood \in status[p] /\ rxbuf[p].id = id
  BY <1>2, Received
<1>5. \A q \in Node \ {p} : View(q)' = View(q)
  BY <1>2, <1>3, <1>4 DEF View
<1>6. pc'[p] = l /\ pc[p] # "idle"
  BY <1>2 DEF Polling
<1>7. \A k \in Asks : ~Asking(p, k) /\ ~Replying(p, k)' /\ ~Awaits(p, k)'
  BY <1>3, <1>4, <1>6 DEF Asking, Awaits, Replying
<1>8. \A k \in Asks : Reading(p, k)' => Reading(p, k) /\ lag'[p] = lag[p]
  BY <1>2, <1>4, <1>6 DEF Reading, Asks
<1>9. Clock(p)'
  <2>1. ~Polling(p)'
    BY <1>6 DEF Polling
  <2>2. Own(p)' = Own(p)
    BY <1>3 DEF Own
  <2> QED
    BY <1>2, <1>3, <1>6, <1>8, <2>1, <2>2 DEF Clock
<1>10. Programmed(p)' /\ Sent(p)'
  BY <1>3, <1>4, <1>6, <1>7 DEF Programmed, Sent
<1> QED
  BY <1>3, <1>5, <1>7, <1>8, <1>9, <1>10, QuietStep

\* A frame that the program waited for has left; or a range is computed.
LEMMA SentMeets ==
  ASSUME Sound, NEW p \in Node, FinalSent(p) \/ RespSent(p) \/ Compute(p)
  PROVE  MeetInv'
<1>1. TypeOK /\ DriverInv /\ NodeInv(p) /\ Clock(p) /\ Programmed(p) /\ Sent(p)
  BY DEF Sound, MeetInv, DriverInv
<1> USE <1>1, MeetTypes
<1>2. PICK l \in {"idle", "r_final"} :
        /\ pc' = [pc EXCEPT ![p] = l]
        /\ lag' = [lag EXCEPT ![p] = 0]
        /\ status' = [status EXCEPT ![p] = status'[p]]
        /\ l = "r_final" => pc[p] = "r_sent"
        /\ l = "idle" => pc[p] \in {"i_sent", "r_range"}
  BY DEF FinalSent, RespSent, Compute, AwaitSent, Goto, chipVars
<1>3. UNCHANGED <<now, peer, poll_rx, chip, timer, dx, w4r, rxdelay, rxto, txbuf,
                  rxbuf, rx_stamp, air>>
  BY DEF FinalSent, RespSent, Compute, chipVars, rxVars, regVars
<1>4. chip[p] # "armed"
  BY DEF FinalSent, RespSent, Compute, AwaitSent, NodeInv, Sending
<1>5. \A q \in Node \ {p} : View(q)' = View(q)
  BY <1>2, <1>3 DEF View
<1>6. pc'[p] = l /\ lag'[p] = 0 /\ pc[p] \in {"r_sent", "i_sent", "r_range"}
  BY <1>2
<1>7. \A k \in Asks : /\ Awaits(p, k)' <=> Awaits(p, k)
                      /\ ~Reading(p, k)' /\ ~Replying(p, k)'
  BY <1>2, <1>3, <1>4, <1>6 DEF Awaits, Reading, Replying
<1>8. \A k \in Asks : Asking(p, k) => Asking(p, k)' /\ Elapsed(p)' = Elapsed(p)
  BY <1>3, <1>7 DEF Asking, Elapsed
<1>9. Clock(p)'
  BY <1>3, <1>6, <1>7 DEF Clock
<1>10. Programmed(p)' /\ Sent(p)'
  BY <1>3, <1>4, <1>6, <1>7 DEF Programmed, Sent
<1> QED
  BY <1>3, <1>5, <1>7, <1>8, <1>9, <1>10, QuietStep

\* The answer is programmed, from the time at which the question came.  When
\* the chip does not refuse it, the program was in time, and so was what it
\* read: the other node still listens.
LEMMA ReplyMeets ==
  ASSUME DelaysMeet, Sound, NEW p \in Node, SendFinal(p) \/ SendResp(p)
  PROVE  MeetInv'
<1>1. TypeOK /\ DriverInv /\ NodeInv(p) /\ Clock(p) /\ Programmed(p) /\ Sent(p)
  BY DEF Sound, MeetInv, DriverInv
<1> USE <1>1, MeetTypes
<1>2. PICK k \in Asks, late \in BOOLEAN :
        /\ Reading(p, k)
        /\ pc[p] = (IF k = "twr_1_poll" THEN "r_resp" ELSE "i_final")
        /\ pc' = [pc EXCEPT ![p] = IF late THEN "idle" ELSE
                                     IF k = "twr_1_poll" THEN "r_sent" ELSE "i_sent"]
        /\ chip' = [chip EXCEPT ![p] = IF late THEN "off" ELSE "armed"]
        /\ dx' = [dx EXCEPT ![p] = Grid((rx_stamp[p] + Reply(k)) % Period)]
        /\ late \in LateOutcomes(p, Grid((rx_stamp[p] + Reply(k)) % Period))
        /\ txbuf' = [txbuf EXCEPT ![p] = txbuf'[p]]
        /\ txbuf'[p].id = Answer(k) /\ txbuf'[p].dst = peer[p]
        /\ w4r' = [w4r EXCEPT ![p] = w4r'[p]]
        /\ rxdelay' = [rxdelay EXCEPT ![p] = rxdelay'[p]]
        /\ rxto' = [rxto EXCEPT ![p] = rxto'[p]]
        /\ k = "twr_1_poll" =>
             w4r'[p] /\ rxdelay'[p] = RxAfterResp /\ rxto'[p] = Timeout
  <2>1. CASE SendResp(p)
    <3>1. /\ pc[p] = "r_resp" /\ Reading(p, "twr_1_poll")
          /\ poll_rx[p] = rx_stamp[p] /\ rxbuf[p].src = peer[p]
      BY <2>1 DEF SendResp, Reading, Clock
    <3>2. /\ rxdelay' = [rxdelay EXCEPT ![p] = RxAfterResp]
          /\ rxto' = [rxto EXCEPT ![p] = Timeout]
      BY <2>1 DEF SendResp, RxAfterTx
    <3>3. PICK late \in BOOLEAN :
            /\ SendAt(p, Header("twr_2_resp", rxbuf[p].seq + 1, p, rxbuf[p].src),
                      Grid((poll_rx[p] + RespDelay) % Period), TRUE, late)
            /\ Goto(p, IF late THEN "idle" ELSE "r_sent")
      BY <2>1 DEF SendResp
    <3> QED
      BY <3>1, <3>2, <3>3 DEF SendAt, Goto, Header, Asks, Reply, Answer
  <2>2. CASE SendFinal(p)
    <3>1. pc[p] = "i_final" /\ Reading(p, "twr_2_resp")
      BY <2>2 DEF SendFinal, Reading
    <3>2. rxdelay' = rxdelay /\ rxto' = rxto
      BY <2>2 DEF SendFinal
    <3>3. PICK late \in BOOLEAN :
            /\ SendAt(p, FinalFrame(p), FinalTime(p), FALSE, late)
            /\ Goto(p, IF late THEN "idle" ELSE "i_sent")
      BY <2>2 DEF SendFinal
    <3>4. FinalFrame(p).id = "twr_3_final" /\ FinalFrame(p).dst = peer[p]
      BY DEF FinalFrame, Header
    <3> QED
      BY <3>1, <3>2, <3>3, <3>4 DEF SendAt, Goto, Asks, Reply, Answer, FinalTime
  <2> QED
    BY <2>1, <2>2
<1>3. UNCHANGED <<now, peer, poll_rx, status, timer, rxbuf, rx_stamp, air>>
  BY DEF SendFinal, SendResp, SendAt, rxVars
<1>4. lag' = [lag EXCEPT ![p] = 0]
  BY DEF SendFinal, SendResp, Goto
<1>5. \A q \in Node \ {p} : View(q)' = View(q)
  BY <1>2, <1>3, <1>4 DEF View
<1>6. /\ pc'[p] = IF late THEN "idle" ELSE
                    IF k = "twr_1_poll" THEN "r_sent" ELSE "i_sent"
      /\ chip'[p] = IF late THEN "off" ELSE "armed"
      /\ peer'[p] = peer[p] /\ peer[p] # p /\ status'[p] = status[p]
  BY <1>2, <1>3 DEF Clock
<1>7. \A j \in Asks : /\ ~Asking(p, j) /\ ~Reading(p, j)'
                      /\ Replying(p, j)' => j = k /\ ~late
  BY <1>2, <1>6 DEF Asking, Awaits, Reading, Replying, Asks
<1>8. ASSUME ~late, NEW n \in Node \ {p}
      PROVE  /\ Asking(n, k) /\ Behind(n, p)
             /\ Due(p)' + Elapsed(n) \in Way + Reply(k) - Grain + 1 .. Way + Reply(k)
  <2>1. /\ lag[p] \in 0 .. MaxLag /\ Own(p) = (rx_stamp[p] + lag[p]) % Period
        /\ rx_stamp[p] \in Stamp
    BY <1>2, ConstantTypes DEF Clock
  <2> DEFINE t == Grid((rx_stamp[p] + Reply(k)) % Period)
  <2>2. Due(p)' = (t - ((rx_stamp[p] + lag[p]) % Period)) % Period
    <3>1. dx'[p] = t /\ Own(p)' = Own(p)
      BY <1>2, <1>3 DEF Own
    <3> QED
      BY <2>1, <3>1 DEF Due
  <2>3. ~ ((t - ((rx_stamp[p] + lag[p]) % Period)) % Period > Half)
    BY <1>2, <1>8, <2>1 DEF LateOutcomes
  <2>4. PICK d \in Reply(k) - Grain + 1 .. Reply(k) :
          lag[p] <= d /\ Due(p)' = d - lag[p]
    <3> DEFINE D == Reply(k)
               l == lag[p]
               u == rx_stamp[p]
    <3>1. D \in Nat /\ D < Half /\ Grain <= D
      BY MeetConstants
    <3>2. l \in 0 .. MaxLag /\ u \in Stamp
      BY <2>1
    <3>3. ~ ((Grid((u + D) % Period) - ((u + l) % Period)) % Period > Half)
      BY <2>3
    <3> HIDE DEF D, l, u
    <3>4. \E d \in D - Grain + 1 .. D :
            /\ l <= d
            /\ (Grid((u + D) % Period) - ((u + l) % Period)) % Period = d - l
      BY <3>1, <3>2, <3>3, AnswerTime
    <3> QED
      BY <2>2, <3>4 DEF D, l, u
  <2>5. Met(n, p, k)
    BY DEF Sound, MeetInv
  <2>6. lag[p] <= Reply(k)
    BY <2>1, <2>4, MeetConstants
  <2>7. Asking(n, k) /\ Elapsed(n) = Way + lag[p] /\ Behind(n, p)
    BY <1>2, <2>5, <2>6 DEF Met
  <2> HIDE DEF t
  <2>8. Due(p)' + Elapsed(n) = Way + d
    BY <2>1, <2>4, <2>7, MeetConstants
  <2> QED
    BY <2>4, <2>7, <2>8, MeetConstants
<1>9. Clock(p)'
  BY <1>6, <1>7 DEF Clock, Polling
<1>10. Programmed(p)'
  BY <1>2, <1>6 DEF Programmed, Awaits, OnAfter, Answer, Asks
<1>11. Sent(p)'
  BY <1>3, <1>6 DEF Sent
<1> QED
  BY <1>3, <1>5, <1>7, <1>8, <1>9, <1>10, <1>11, LocalStep

(***************************************************************************)
(* Steps of the chip                                                       *)
(***************************************************************************)

\* When a node does not ask, or its time is over, no stage is under way.
LEMMA NothingOpen ==
  ASSUME DelaysMeet, Sound, NEW n \in Node, NEW m \in Node \ {n}, NEW k \in Asks,
         ~Asking(n, k) \/ Elapsed(n) = OnAfter(k) + Timeout
  PROVE  /\ \A x \in air : ~(x.from = n /\ x.frame.id = k)
         /\ ~(Reading(m, k) /\ lag[m] <= Reply(k))
         /\ ~Replying(m, k)
         /\ \A x \in air : ~(x.from = m /\ x.frame.id = Answer(k))
<1>1. Met(n, m, k) /\ TypeOK
  BY DEF Sound, MeetInv
<1>2. CASE ~Asking(n, k)
  BY <1>1, <1>2 DEF Met
<1>3. CASE Elapsed(n) = OnAfter(k) + Timeout
  <2>1. /\ \A x \in air : x.left \in Nat
        /\ lag[m] \in Nat /\ Due(m) \in Nat
    BY <1>1, MeetTypes, DueType
  <2> QED
    BY <1>1, <1>3, <2>1, MeetConstants DEF Met
<1> QED
  BY <1>2, <1>3

LEMMA TurnOnMeets ==
  ASSUME Sound, NEW p \in Node, TurnOn(p)
  PROVE  MeetInv'
<1>1. TypeOK /\ DriverInv /\ Clock(p) /\ Programmed(p) /\ Sent(p)
  BY DEF Sound, MeetInv
<1> USE <1>1, MeetTypes
<1>2. /\ chip[p] = "turning" /\ timer[p] = 0
      /\ chip' = [chip EXCEPT ![p] = "on"]
      /\ timer' = [timer EXCEPT ![p] = rxto[p]]
      /\ UNCHANGED <<now, pc, peer, lag, poll_rx, status, dx, w4r, rxdelay, rxto,
                     txbuf, rxbuf, rx_stamp, air>>
  BY DEF TurnOn, TurnDue, progVars, rxVars, regVars
<1>3. \A q \in Node \ {p} : View(q)' = View(q)
  BY <1>2 DEF View
<1>4. chip'[p] = "on" /\ timer'[p] = rxto[p]
  BY <1>2
<1>5. \A k \in Asks : /\ Reading(p, k)' <=> Reading(p, k)
                      /\ ~Replying(p, k)'
  BY <1>2, <1>4 DEF Reading, Replying
<1>6. \A k \in Asks : Asking(p, k) => Asking(p, k)' /\ Elapsed(p)' = Elapsed(p)
  <2>1. Elapsed(p) = rxdelay[p] /\ Elapsed(p)' = rxdelay[p]
    BY <1>2, <1>4 DEF Elapsed
  <2> QED
    BY <1>2, <1>4, <2>1 DEF Asking, Awaits
<1>7. Clock(p)'
  <2>1. Own(p)' = Own(p)
    BY <1>2 DEF Own
  <2> QED
    BY <1>2, <1>5, <2>1 DEF Clock, Polling
<1>8. Programmed(p)' /\ Sent(p)'
  BY <1>2, <1>4 DEF Programmed, Sent, Awaits
<1> QED
  BY <1>2, <1>3, <1>5, <1>6, <1>7, <1>8, QuietStep

\* The time-out comes after every answer.
LEMMA GiveUpMeets ==
  ASSUME DelaysMeet, Sound, NEW p \in Node, GiveUp(p)
  PROVE  MeetInv'
<1>1. TypeOK /\ DriverInv /\ Clock(p) /\ Programmed(p) /\ Sent(p)
  BY DEF Sound, MeetInv
<1>2. /\ chip[p] = "on" /\ timer[p] = 0
      /\ chip' = [chip EXCEPT ![p] = "off"]
      /\ status' = [status EXCEPT ![p] = @ \cup {"RXTO"}]
      /\ UNCHANGED <<now, pc, peer, lag, poll_rx, timer, dx, w4r, rxdelay, rxto,
                     txbuf, rxbuf, rx_stamp, air>>
  BY DEF GiveUp, GiveUpDue, progVars, rxVars, regVars
<1>3. \A q \in Node \ {p} : View(q)' = View(q)
  BY <1>1, <1>2, MeetTypes DEF View
<1>4. chip'[p] = "off" /\ status'[p] = status[p] \cup {"RXTO"}
  BY <1>1, <1>2, MeetTypes
<1>5. \A k \in Asks : /\ Reading(p, k)' <=> Reading(p, k)
                      /\ ~Replying(p, k)'
  BY <1>2, <1>4 DEF Reading, Replying, RxGood
<1>6. ASSUME NEW n \in Node PROVE Clock(n)' /\ Programmed(n)' /\ Sent(n)'
  <2>1. CASE n = p
    <3>1. Own(p)' = Own(p)
      BY <1>2 DEF Own
    <3>2. Clock(p)'
      BY <1>1, <1>2, <1>4, <1>5, <3>1 DEF Clock, Polling, RxBits, RxBad
    <3>3. Programmed(p)' /\ Sent(p)'
      BY <1>1, <1>2, <1>4 DEF Programmed, Sent, Awaits
    <3> QED
      BY <2>1, <3>2, <3>3
  <2>2. CASE n # p
    <3>1. View(n)' = View(n) /\ Clock(n) /\ Programmed(n) /\ Sent(n)
      BY <1>3, <2>2 DEF Sound, MeetInv
    <3>2. Sent(n)'
      BY <1>2, <3>1 DEF View, Sent
    <3> QED
      BY <1>2, <3>1, <3>2, OwnKept
  <2> QED
    BY <2>1, <2>2
<1>7. ASSUME NEW n \in Node, NEW m \in Node \ {n}, NEW k \in Asks PROVE Met(n, m, k)'
  <2>1. Met(n, m, k)
    BY DEF Sound, MeetInv
  <2>2. CASE n = p
    <3>1. ~Asking(p, k) \/ Elapsed(p) = OnAfter(k) + Timeout
      BY <1>1, <1>2, ConstantTypes, MeetTypes DEF Asking, Elapsed, Programmed, OnAfter
    <3>2. /\ \A x \in air : ~(x.from = n /\ x.frame.id = k)
          /\ ~(Reading(m, k) /\ lag[m] <= Reply(k))
          /\ ~Replying(m, k)
          /\ \A x \in air : ~(x.from = m /\ x.frame.id = Answer(k))
      BY <2>2, <3>1, NothingOpen
    <3>3. View(m)' = View(m)
      BY <1>3, <2>2
    <3>4. /\ Reading(m, k)' <=> Reading(m, k)
          /\ Replying(m, k)' <=> Replying(m, k)
          /\ lag'[m] = lag[m]
      BY <1>2, <3>3, ViewKept
    <3> QED
      BY <1>2, <3>2, <3>4 DEF Met
  <2>3. CASE n # p
    <3>1. /\ Asking(n, k)' <=> Asking(n, k)
          /\ Elapsed(n)' = Elapsed(n)
      BY <1>2, <1>3, <2>3, ViewKept
    <3>2. /\ Reading(m, k)' <=> Reading(m, k)
          /\ Replying(m, k)' => Replying(m, k) /\ Due(m)' = Due(m)
          /\ lag'[m] = lag[m]
      <4>1. CASE m = p
        BY <1>2, <1>5, <4>1
      <4>2. CASE m # p
        BY <1>2, <1>3, <4>2, ViewKept
      <4> QED
        BY <4>1, <4>2
    <3>3. Behind(n, m)' <=> Behind(n, m)
      BY <1>2, <3>1 DEF Behind
    <3> QED
      BY <1>2, <2>1, <3>1, <3>2, <3>3 DEF Met
  <2> QED
    BY <2>2, <2>3
<1> QED
  BY <1>6, <1>7 DEF MeetInv

\* A question leaves, and the receiver of its sender is told to follow; or an
\* answer leaves, and everything else its sender has on the air is ahead of it.
LEMMA DepartMeets ==
  ASSUME DelaysMeet, Sound, NEW p \in Node, Depart(p)
  PROVE  MeetInv'
<1>1. /\ TypeOK /\ DriverInv /\ NodeInv(p) /\ Clock(p) /\ Programmed(p) /\ Sent(p)
      /\ Way \in Nat
  BY ConstantTypes DEF Sound, MeetInv, DriverInv, Way
<1>2. /\ chip[p] = "armed" /\ dx[p] = Own(p)
      /\ status' = [status EXCEPT ![p] = @ \cup {"TXFRS"}]
      /\ chip' = [chip EXCEPT ![p] = IF w4r[p] THEN "turning" ELSE "off"]
      /\ timer' = [timer EXCEPT ![p] = IF w4r[p] THEN rxdelay[p] ELSE 0]
      /\ UNCHANGED <<now, pc, peer, lag, poll_rx, dx, w4r, rxdelay, rxto, txbuf,
                     rxbuf, rx_stamp>>
  BY DEF Depart, SendDue, progVars, rxVars, regVars
<1>3. PICK x0 : /\ air' = air \cup {x0}
                /\ x0.from = p /\ x0.left = Way /\ x0.frame = txbuf[p]
  <2> DEFINE x0 == [frame |-> txbuf[p], from |-> p, left |-> AntDelay + Flight,
                    stamp |-> Trunc((Own(p) + AntDelay) % Period)]
  <2>1. air' = air \cup {x0}
    BY DEF Depart
  <2>2. x0.from = p /\ x0.left = Way /\ x0.frame = txbuf[p]
    BY DEF Way
  <2> HIDE DEF x0
  <2> QED
    BY <2>1, <2>2
<1>4. pc[p] \in {"idle", "i_resp", "i_sent", "r_sent"}
      /\ (w4r[p] <=> pc[p] \in {"i_resp", "r_sent"})
  BY <1>1, <1>2 DEF NodeInv, Programmed, Waiting, Polling, Hears
<1>5. /\ chip'[p] = IF w4r[p] THEN "turning" ELSE "off"
      /\ timer'[p] = IF w4r[p] THEN rxdelay[p] ELSE 0
      /\ status'[p] = status[p] \cup {"TXFRS"}
      /\ pc'[p] = pc[p] /\ lag'[p] = lag[p]
  BY <1>1, <1>2, MeetTypes
<1>6. \A q \in Node \ {p} : View(q)' = View(q)
  BY <1>1, <1>2, MeetTypes DEF View
<1>7. Due(p) = 0
  BY <1>1, <1>2, MeetTypes, ConstantTypes DEF Due, Stamp
<1>8. \A k \in Asks : /\ ~Asking(p, k) /\ ~Reading(p, k)
                      /\ ~Reading(p, k)' /\ ~Replying(p, k)'
  <2>1. pc[p] = "i_resp" => RxGood \notin status[p]
    BY <1>1, <1>2, <1>4 DEF NodeInv, Hears, RxBits
  <2>2. RxGood \in status'[p] => RxGood \in status[p]
    BY <1>5 DEF RxGood
  <2> QED
    BY <1>2, <1>4, <1>5, <2>1, <2>2 DEF Asking, Reading, Replying
<1>9. \A k \in Asks : x0.frame.id = Answer(k) => Replying(p, k)
  BY <1>1, <1>2, <1>3, <1>4 DEF Programmed, Replying, Answer, Asks
<1>10. \A k \in Asks : x0.frame.id = k =>
         Asking(p, k)' /\ x0.left + Elapsed(p)' = Way
  <2>1. ASSUME NEW k \in Asks, x0.frame.id = k PROVE Awaits(p, k) /\ w4r[p]
    BY <1>1, <1>2, <1>3, <1>4, <2>1 DEF Programmed, Awaits, Asks
  <2>2. w4r[p] => Elapsed(p)' = 0
    <3>1. rxdelay[p] \in Nat /\ rxdelay'[p] = rxdelay[p]
      BY <1>1, <1>2, MeetTypes
    <3> QED
      BY <1>5, <3>1 DEF Elapsed
  <2>3. w4r[p] => \A k \in Asks : Awaits(p, k) => Asking(p, k)'
    BY <1>5 DEF Asking, Awaits
  <2> QED
    BY <1>1, <1>3, <2>1, <2>2, <2>3
<1>11. ASSUME NEW n \in Node PROVE Clock(n)' /\ Programmed(n)' /\ Sent(n)'
  <2>1. CASE n = p
    <3>1. Own(p)' = Own(p)
      BY <1>2 DEF Own
    <3>2. Clock(p)'
      BY <1>1, <1>2, <1>5, <1>8, <3>1 DEF Clock, Polling, RxBits, RxBad, RxGood
    <3>3. Programmed(p)'
      BY <1>1, <1>2, <1>5, MeetTypes DEF Programmed, Awaits
    <3>4. Sent(p)'
      BY <1>1, <1>2, <1>3, <1>4, <1>5 DEF Sent, Programmed
    <3> QED
      BY <2>1, <3>2, <3>3, <3>4
  <2>2. CASE n # p
    <3>1. View(n)' = View(n) /\ Clock(n) /\ Programmed(n) /\ Sent(n)
      BY <1>6, <2>2 DEF Sound, MeetInv
    <3>2. Sent(n)'
      BY <1>3, <2>2, <3>1 DEF View, Sent
    <3> QED
      BY <1>2, <3>1, <3>2, OwnKept
  <2> QED
    BY <2>1, <2>2
<1>12. ASSUME NEW n \in Node, NEW m \in Node \ {n}, NEW k \in Asks PROVE Met(n, m, k)'
  <2>1. Met(n, m, k)
    BY DEF Sound, MeetInv
  <2>2. CASE n = p
    <3>1. /\ \A x \in air : ~(x.from = n /\ x.frame.id = k)
          /\ ~(Reading(m, k) /\ lag[m] <= Reply(k))
          /\ ~Replying(m, k)
          /\ \A x \in air : ~(x.from = m /\ x.frame.id = Answer(k))
      BY <1>8, <2>2, NothingOpen
    <3>2. /\ Reading(m, k)' <=> Reading(m, k)
          /\ Replying(m, k)' <=> Replying(m, k)
          /\ lag'[m] = lag[m]
      BY <1>2, <1>6, <2>2, ViewKept
    <3>3. \A x \in air' : x.from = n /\ x.frame.id = k =>
            Asking(n, k)' /\ x.left + Elapsed(n)' = Way
      BY <1>3, <1>10, <2>2, <3>1
    <3>4. \A x \in air' : ~(x.from = m /\ x.frame.id = Answer(k))
      BY <1>3, <2>2, <3>1
    <3> QED
      BY <3>1, <3>2, <3>3, <3>4 DEF Met
  <2>3. CASE n # p
    <3>1. (Asking(n, k)' <=> Asking(n, k)) /\ Elapsed(n)' = Elapsed(n)
      BY <1>2, <1>6, <2>3, ViewKept
    <3>2. \A x \in air' : x.from = n => x \in air
      BY <1>3, <2>3
    <3>3. CASE m # p
      <4>1. /\ Reading(m, k)' <=> Reading(m, k)
            /\ Replying(m, k)' <=> Replying(m, k)
            /\ lag'[m] = lag[m] /\ Due(m)' = Due(m)
        BY <1>2, <1>6, <3>3, ViewKept
      <4>2. \A x \in air' : x.from = m => x \in air
        BY <1>3, <3>3
      <4>3. Behind(n, m) => Behind(n, m)'
        BY <3>1, <4>2 DEF Behind
      <4> QED
        BY <2>1, <3>1, <3>2, <4>1, <4>2, <4>3 DEF Met
    <3>4. CASE m = p
      <4>1. ASSUME NEW x \in air, x.from = m, x.frame.id = Answer(k)
            PROVE  x.left < Way
        <5>1. Asking(n, k)
          BY <2>1, <4>1 DEF Met
        <5>2. CASE pc[p] \in {"idle", "i_resp"}
          <6>1. CASE k = "twr_2_resp"
            BY <1>1, <1>2, <3>4, <4>1, <5>2, <6>1 DEF Sent, Answer
          <6>2. CASE k = "twr_1_poll"
            <7>1. Met(m, n, "twr_2_resp") /\ n \in Node \ {m} /\ m \in Node
              BY DEF Sound, MeetInv, Asks
            <7>2. Asking(p, "twr_2_resp")
              BY <3>4, <4>1, <6>2, <7>1 DEF Met, Answer
            <7> QED
              BY <1>8, <7>2 DEF Asks
          <6> QED
            BY <6>1, <6>2 DEF Asks
        <5>3. CASE pc[p] \in {"i_sent", "r_sent"}
          <6>1. PICK j \in Asks : Replying(p, j)
            BY <1>2, <5>3 DEF Replying, Asks
          <6>2. Met(n, p, j)
            BY <2>3 DEF Sound, MeetInv
          <6>3. Asking(n, j) /\ Behind(n, p)
            BY <6>1, <6>2 DEF Met
          <6>4. j = k
            BY <5>1, <6>3, OneQuestion DEF Asking
          <6>5. x.left + Elapsed(n) <= 2 * Way
            BY <3>4, <4>1, <6>3 DEF Behind
          <6>6. x.left + Elapsed(n) >= 2 * Way + Reply(k) - Grain + 1
            <7>1. x.left + Elapsed(n) \in
                    2 * Way + Reply(k) - Grain + 1 .. 2 * Way + Reply(k)
              BY <2>1, <4>1 DEF Met
            <7> QED
              BY <7>1
          <6>7. x.left + Elapsed(n) \in Int
            BY <1>1, MeetTypes
          <6> QED
            BY <6>5, <6>6, <6>7, MeetConstants
        <5> QED
          BY <1>4, <5>2, <5>3
      <4>2. ASSUME x0.frame.id = Answer(k)
            PROVE  /\ Asking(n, k) /\ Behind(n, p)
                   /\ x0.left + Elapsed(n) \in
                        2 * Way + Reply(k) - Grain + 1 .. 2 * Way + Reply(k)
        <5>1. /\ Asking(n, k) /\ Behind(n, p)
              /\ Due(p) + Elapsed(n) \in
                   Way + Reply(k) - Grain + 1 .. Way + Reply(k)
          BY <1>9, <2>1, <3>4, <4>2 DEF Met
        <5>2. Elapsed(n) \in Way + Reply(k) - Grain + 1 .. Way + Reply(k)
          <6>1. Elapsed(n) \in Int
            BY <1>1, MeetTypes
          <6>2. Due(p) + Elapsed(n) = Elapsed(n)
            BY <1>7, <6>1
          <6> QED
            BY <5>1, <6>2
        <5> QED
          BY <1>3, <5>1, <5>2, MeetConstants
      <4>3. ASSUME NEW x \in air', x.from = m, x.frame.id = Answer(k)
            PROVE  /\ Asking(n, k)
                   /\ x.left + Elapsed(n) \in
                        2 * Way + Reply(k) - Grain + 1 .. 2 * Way + Reply(k)
                   /\ \A y \in air' : y.from = m =>
                        y = x \/ y.left > x.left \/ y.left + Elapsed(n) <= 2 * Way
        <5>1. CASE x = x0
          BY <1>3, <3>4, <4>2, <4>3, <5>1 DEF Behind
        <5>2. CASE x \in air
          <6>1. x0.left > x.left
            BY <1>1, <1>3, <4>1, <4>3, <5>2, MeetTypes
          <6> QED
            BY <1>3, <2>1, <4>3, <5>2, <6>1 DEF Met
        <5> QED
          BY <1>3, <5>1, <5>2
      <4> QED
        BY <1>8, <2>1, <3>1, <3>2, <3>4, <4>3 DEF Met
    <3> QED
      BY <3>3, <3>4
  <2> QED
    BY <2>2, <2>3
<1> QED
  BY <1>11, <1>12 DEF MeetInv

(***************************************************************************)
(* A frame arrives, time passes                                            *)
(***************************************************************************)

\* The question is read at the moment at which it came.  Before the answer, no
\* frame meets the receiver that waits for it.
LEMMA ArriveMeets ==
  ASSUME DelaysMeet, Sound, NEW x0 \in air, Arrive(x0)
  PROVE  MeetInv'
<1>1. TypeOK /\ DriverInv
  BY DEF Sound
<1>2. PICK heard \in [Listening(x0) -> {"good", "error", "missed"}] :
        /\ status' = [n \in Node |-> status[n]
              \cup (IF n \in Listening(x0) /\ heard[n] = "good" THEN {RxGood} ELSE {})
              \cup (IF n \in Listening(x0) /\ heard[n] = "error"
                    THEN {"RXERR"} ELSE {})]
        /\ chip' = [n \in Node |->
              IF \/ n \in Listening(x0) /\ heard[n] = "good"
                 \/ n \in Listening(x0) /\ heard[n] = "error"
              THEN "off" ELSE chip[n]]
        /\ rxbuf' = [n \in Node |-> IF n \in Listening(x0) /\ heard[n] = "good"
                                    THEN x0.frame ELSE rxbuf[n]]
        /\ rx_stamp' = [n \in Node |-> IF n \in Listening(x0) /\ heard[n] = "good"
                                       THEN Own(n) ELSE rx_stamp[n]]
  BY DEF Arrive
<1>3. /\ x0.left = 0 /\ air' = air \ {x0}
      /\ UNCHANGED <<now, pc, peer, lag, poll_rx, timer, dx, w4r, rxdelay, rxto, txbuf>>
  BY DEF Arrive, progVars, regVars
<1>4. ASSUME NEW q \in Node, q \notin Listening(x0) \/ heard[q] = "missed"
      PROVE  View(q)' = View(q)
  <2>1. /\ chip'[q] = chip[q] /\ status'[q] = status[q]
        /\ rxbuf'[q] = rxbuf[q] /\ rx_stamp'[q] = rx_stamp[q]
    BY <1>2, <1>4
  <2> QED
    BY <1>3, <2>1 DEF View
<1>5. ASSUME NEW q \in Node, q \in Listening(x0), heard[q] # "missed"
      PROVE  /\ chip[q] = "on" /\ q # x0.from /\ chip'[q] = "off"
             /\ status[q] \cap RxBits = {} /\ status'[q] \cap RxBits # {}
             /\ Polling(q) => lag[q] = 0
             /\ \/ /\ RxGood \in status'[q] /\ rxbuf'[q] = x0.frame
                   /\ rx_stamp'[q] = Own(q)
                \/ RxGood \notin status'[q]
  <2>1. chip[q] = "on" /\ q # x0.from
    BY <1>5 DEF Listening
  <2>2. status[q] \cap RxBits = {}
    BY <1>1, <2>1, Silent
  <2>3. heard[q] \in {"good", "error"}
    BY <1>2, <1>5
  <2>4. Polling(q) => lag[q] = 0
    BY <2>2 DEF Sound, MeetInv, Clock
  <2> QED
    BY <1>2, <1>5, <2>1, <2>2, <2>3, <2>4 DEF RxBits, RxBad, RxGood
<1>6. ASSUME NEW q \in Node PROVE Clock(q)' /\ Programmed(q)' /\ Sent(q)'
  <2>1. Clock(q) /\ Programmed(q) /\ Sent(q)
    BY DEF Sound, MeetInv
  <2>2. CASE q \notin Listening(x0) \/ heard[q] = "missed"
    <3>1. View(q)' = View(q)
      BY <1>4, <2>2
    <3>2. Sent(q)'
      BY <1>3, <2>1, <3>1 DEF View, Sent
    <3> QED
      BY <1>3, <2>1, <3>1, <3>2, OwnKept
  <2>3. CASE q \in Listening(x0) /\ heard[q] # "missed"
    <3>1. Own(q)' = Own(q) /\ Own(q) \in Stamp /\ lag'[q] = lag[q] /\ pc'[q] = pc[q]
      BY <1>1, <1>3, MeetTypes DEF Own
    <3>2. pc[q] \notin {"r_resp", "i_final"}
      BY <1>1, <1>5, <2>3 DEF DriverInv, NodeInv, Waiting, Polling, Hears
    <3>3. ASSUME NEW k \in Asks, Reading(q, k)'
          PROVE  lag'[q] <= MaxLag /\ Own(q)' = (rx_stamp'[q] + lag'[q]) % Period
      <4>1. Polling(q) /\ RxGood \in status'[q]
        BY <3>1, <3>2, <3>3 DEF Reading, Polling
      <4>2. lag[q] = 0 /\ rx_stamp'[q] = Own(q)
        BY <1>5, <2>3, <4>1
      <4>3. MaxLag \in Nat /\ Period \in Nat \ {0} /\ Own(q) \in 0 .. Period - 1
        BY <3>1, ConstantTypes DEF Stamp
      <4>4. (Own(q) + 0) % Period = Own(q)
        BY <4>3
      <4> QED
        BY <3>1, <4>2, <4>3, <4>4
    <3>4. Clock(q)'
      BY <1>3, <1>5, <2>1, <2>3, <3>1, <3>2, <3>3 DEF Clock
    <3>5. Programmed(q)' /\ Sent(q)'
      BY <1>3, <1>5, <2>1, <2>3 DEF Programmed, Sent, Awaits
    <3> QED
      BY <3>4, <3>5
  <2> QED
    BY <2>2, <2>3
<1>7. ASSUME NEW n \in Node, NEW m \in Node \ {n}, NEW k \in Asks PROVE Met(n, m, k)'
  <2>1. Met(n, m, k)
    BY DEF Sound, MeetInv
  <2>2. x0.from = n \/ x0.from = m
    BY <1>1, MeetTypes DEF DelaysMeet
  <2>3. air' \subseteq air
    BY <1>3
  <2>4. CASE x0.from = n
    <3>1. View(n)' = View(n)
      BY <1>4, <2>4 DEF Listening
    <3>2. (Asking(n, k)' <=> Asking(n, k)) /\ Elapsed(n)' = Elapsed(n)
      BY <1>3, <3>1, ViewKept
    <3>3. Behind(n, m) => Behind(n, m)'
      BY <2>3, <3>2 DEF Behind
    <3>4. CASE m \notin Listening(x0) \/ heard[m] = "missed"
      <4>1. /\ Reading(m, k)' <=> Reading(m, k)
            /\ Replying(m, k)' <=> Replying(m, k)
            /\ lag'[m] = lag[m] /\ Due(m)' = Due(m)
        BY <1>3, <1>4, <3>4, ViewKept
      <4> QED
        BY <2>1, <2>3, <3>2, <3>3, <4>1 DEF Met
    <3>5. CASE m \in Listening(x0) /\ heard[m] # "missed"
      <4>1. ~Replying(m, k)'
        BY <1>5, <3>5 DEF Replying
      <4>2. ASSUME Reading(m, k)'
            PROVE  /\ Asking(n, k) /\ Elapsed(n) = Way + lag'[m] /\ Behind(n, m)
        <5>1. pc[m] \notin {"r_resp", "i_final"}
          BY <1>1, <1>5, <3>5 DEF DriverInv, NodeInv, Waiting, Polling, Hears
        <5>2. Polling(m) /\ RxGood \in status'[m] /\ rxbuf'[m].id = k
          BY <1>3, <4>2, <5>1 DEF Reading, Polling
        <5>3. lag'[m] = 0 /\ x0.frame.id = k
          BY <1>3, <1>5, <3>5, <5>2
        <5>4. Asking(n, k) /\ Elapsed(n) = Way
          <6>1. Asking(n, k) /\ x0.left + Elapsed(n) = Way
            BY <2>1, <2>4, <5>3 DEF Met
          <6>2. Elapsed(n) \in Int
            BY <1>1, MeetTypes
          <6> QED
            BY <1>3, <6>1, <6>2
        <5>5. \A y \in air : y.from = m => y.left <= Way /\ y.left \in Nat
          BY <1>1, MeetTypes DEF Sound, MeetInv, Sent
        <5> QED
          BY <5>3, <5>4, <5>5, MeetConstants DEF Behind
      <4> QED
        BY <2>1, <2>3, <3>2, <3>3, <4>1, <4>2 DEF Met
    <3> QED
      BY <3>4, <3>5
  <2>5. CASE x0.from = m
    <3>1. View(m)' = View(m)
      BY <1>4, <2>5 DEF Listening
    <3>2. /\ Reading(m, k)' <=> Reading(m, k)
          /\ Replying(m, k)' <=> Replying(m, k)
          /\ lag'[m] = lag[m] /\ Due(m)' = Due(m)
      BY <1>3, <3>1, ViewKept
    <3>3. ASSUME Asking(n, k), Elapsed(n) <= 2 * Way
          PROVE  Asking(n, k)' /\ Elapsed(n)' = Elapsed(n)
      <4>1. chip[n] = "turning"
        BY <3>3, Early
      <4>2. View(n)' = View(n)
        BY <1>4, <4>1 DEF Listening
      <4> QED
        BY <1>3, <3>3, <4>2, ViewKept
    <3>4. ASSUME Asking(n, k), Behind(n, m)
          PROVE  Asking(n, k)' /\ Elapsed(n)' = Elapsed(n) /\ Behind(n, m)'
      <4>1. x0.left + Elapsed(n) <= 2 * Way /\ Elapsed(n) \in Int
        BY <1>1, <2>5, <3>4, MeetTypes DEF Behind
      <4>2. Elapsed(n) <= 2 * Way
        BY <1>3, <4>1
      <4>3. Asking(n, k)' /\ Elapsed(n)' = Elapsed(n)
        BY <3>3, <3>4, <4>2
      <4> QED
        BY <2>3, <3>4, <4>3 DEF Behind
    <3>5. ASSUME NEW x \in air', x.from = n, x.frame.id = k
          PROVE  Asking(n, k)' /\ x.left + Elapsed(n)' = Way
      <4>1. Asking(n, k) /\ x.left + Elapsed(n) = Way
        BY <2>1, <2>3, <3>5 DEF Met
      <4>2. Elapsed(n) <= 2 * Way
        <5>1. x.left \in Nat /\ Elapsed(n) \in Int
          BY <1>1, <2>3, MeetTypes
        <5> QED
          BY <4>1, <5>1, MeetConstants
      <4> QED
        BY <3>3, <4>1, <4>2
    <3>6. ASSUME NEW x \in air', x.from = m, x.frame.id = Answer(k)
          PROVE  Asking(n, k)' /\ Elapsed(n)' = Elapsed(n)
      <4>1. /\ Asking(n, k)
            /\ x0 = x \/ x0.left > x.left \/ x0.left + Elapsed(n) <= 2 * Way
        BY <2>1, <2>3, <2>5, <3>6 DEF Met
      <4>2. x.left \in Nat /\ Elapsed(n) \in Int /\ x0 # x
        BY <1>1, <1>3, <2>3, <3>6, MeetTypes
      <4>3. Elapsed(n) <= 2 * Way
        BY <1>3, <4>1, <4>2
      <4> QED
        BY <3>3, <4>1, <4>3
    <3> QED
      BY <2>1, <2>3, <3>2, <3>4, <3>5, <3>6 DEF Met
  <2> QED
    BY <2>2, <2>4, <2>5
<1> QED
  BY <1>6, <1>7 DEF MeetInv

LEMMA ModuloPlus ==
  ASSUME NEW a \in Int, NEW b \in Int
  PROVE  ((a % Period) + b) % Period = (a + b) % Period
<1> DEFINE r == a % Period
           s == (r + b) % Period
<1>1. Period \in Nat \ {0}
  BY ConstantTypes
<1>2. PICK i \in Int : a = Period * i + r
  BY <1>1, ModuloSplit
<1>3. r \in Int
  BY <1>1, ModuloInRange
<1> HIDE DEF r
<1>4. r + b \in Int
  BY <1>3
<1>5. PICK j \in Int : r + b = Period * j + s
  BY <1>1, <1>4, ModuloSplit
<1>6. s \in 0 .. Period - 1
  BY <1>1, <1>4, ModuloInRange
<1> HIDE DEF s
<1>7. i + j \in Int /\ a + b = Period * (i + j) + s
  BY <1>1, <1>2, <1>3, <1>5, <1>6
<1>8. (a + b) % Period = s
  BY <1>1, <1>6, <1>7, ModuloUnique
<1> QED
  BY <1>8 DEF r, s

\* What is due now is programmed for now.
LEMMA DueNow ==
  ASSUME TypeOK, NEW m \in Node, Due(m) = 0
  PROVE  dx[m] = Own(m)
<1> DEFINE d == dx[m] - Own(m)
<1>1. /\ dx[m] \in 0 .. Period - 1 /\ Own(m) \in 0 .. Period - 1
      /\ Period \in Nat \ {0} /\ d \in Int
  BY ConstantTypes, MeetTypes DEF Stamp
<1>2. d % Period = 0 /\ -Period < d /\ d < Period
  BY <1>1 DEF Due
<1>3. PICK q \in Int : d = Period * q + (d % Period)
  BY <1>1, ModuloSplit
<1> HIDE DEF d
<1>4. d = Period * q
  BY <1>1, <1>2, <1>3
<1>5. ASSUME q >= 1 PROVE FALSE
  BY <1>1, <1>2, <1>4, <1>5
<1>6. ASSUME q <= -1 PROVE FALSE
  BY <1>1, <1>2, <1>4, <1>6
<1>7. q = 0
  BY <1>5, <1>6
<1> QED
  BY <1>1, <1>4, <1>7 DEF d

\* Both clocks go on together, and every event is met at its time.
LEMMA TickMeets ==
  ASSUME DelaysMeet, Sound, Tick
  PROVE  MeetInv'
<1>1. TypeOK /\ DriverInv
  BY DEF Sound
<1>2. /\ ~ChipDue
      /\ \A n \in Node : CanGoOn(n) => lag[n] < MaxLag
      /\ now' = (now + 1) % Period
      /\ lag' = [n \in Node |-> IF CanGoOn(n) THEN lag[n] + 1 ELSE lag[n]]
      /\ timer' = [n \in Node |-> IF chip[n] \in {"turning", "on"} /\ timer[n] > 0
                                  THEN timer[n] - 1 ELSE timer[n]]
      /\ air' = {[a EXCEPT !.left = @ - 1] : a \in air}
      /\ UNCHANGED <<pc, peer, poll_rx, chip, status, dx, w4r, rxdelay, rxto, txbuf,
                     rxbuf, rx_stamp>>
  BY DEF Tick, rxVars, regVars
<1>3. ASSUME NEW y \in air'
      PROVE  \E x \in air : /\ y = [x EXCEPT !.left = @ - 1]
                            /\ y.from = x.from /\ y.frame = x.frame
                            /\ y.left = x.left - 1 /\ x.left > 0
                            /\ x.left \in Nat /\ x.from \in Node
  <2>1. PICK x \in air : y = [x EXCEPT !.left = @ - 1]
    BY <1>2
  <2>2. x \in [frame : Frame, from : Node, left : Nat, stamp : Word]
    BY <1>1 DEF TypeOK
  <2>3. /\ y.from = x.from /\ y.frame = x.frame /\ y.left = x.left - 1
        /\ x.left \in Nat /\ x.from \in Node
    BY <2>1, <2>2
  <2>4. x.left # 0
    BY <1>2 DEF ChipDue
  <2> QED
    BY <2>1, <2>3, <2>4
<1>4. ASSUME NEW q \in Node
      PROVE  /\ Clock(q) /\ Programmed(q) /\ Sent(q)
             /\ lag[q] \in Nat /\ timer[q] \in Nat /\ rxdelay[q] \in Nat
             /\ rxto[q] \in Nat /\ Elapsed(q) \in Int /\ Due(q) \in Nat
             /\ lag'[q] = IF CanGoOn(q) THEN lag[q] + 1 ELSE lag[q]
  BY <1>1, <1>2, MeetTypes, DueType DEF Sound, MeetInv
<1>5. ASSUME NEW q \in Node, NEW k \in Asks
      PROVE  /\ Asking(q, k)' <=> Asking(q, k)
             /\ Reading(q, k)' <=> Reading(q, k)
             /\ Replying(q, k)' <=> Replying(q, k)
             /\ Awaits(q, k)' <=> Awaits(q, k)
  BY <1>2 DEF Asking, Awaits, Reading, Replying
<1>6. ASSUME NEW q \in Node, NEW k \in Asks, Asking(q, k)
      PROVE  Elapsed(q)' = Elapsed(q) + 1
  <2>1. rxto[q] > 0
    BY <1>4, <1>6, ConstantTypes DEF Programmed, Asking
  <2>2. timer[q] # 0
    BY <1>2, <1>6, <2>1 DEF ChipDue, TurnDue, GiveUpDue, Asking
  <2>3. timer'[q] = timer[q] - 1 /\ timer'[q] \in Int
    BY <1>2, <1>4, <1>6, <2>2 DEF Asking
  <2> QED
    BY <1>2, <1>4, <2>3 DEF Elapsed
<1>7. ASSUME NEW q \in Node, NEW k \in Asks, Reading(q, k)
      PROVE  CanGoOn(q) /\ lag'[q] = lag[q] + 1
  <2>1. CanGoOn(q)
    BY <1>7 DEF Reading, CanGoOn, Polling
  <2> QED
    BY <1>4, <2>1
<1>8. ASSUME NEW q \in Node, chip[q] = "armed"
      PROVE  dx[q] # Own(q) /\ Due(q)' = Due(q) - 1
  <2>1. dx[q] # Own(q)
    BY <1>2, <1>8 DEF ChipDue, SendDue
  <2>2. Due(q) # 0
    BY <1>1, <2>1, DueNow
  <2> QED
    BY <1>1, <1>2, <2>1, <2>2, DueComes
<1>9. ASSUME NEW q \in Node PROVE Clock(q)' /\ Programmed(q)' /\ Sent(q)'
  <2>1. ASSUME NEW k \in Asks, Reading(q, k)
        PROVE  lag'[q] <= MaxLag /\ Own(q)' = (rx_stamp[q] + lag'[q]) % Period
    <3>1. /\ lag[q] < MaxLag /\ Own(q) = (rx_stamp[q] + lag[q]) % Period
          /\ lag'[q] = lag[q] + 1
      BY <1>2, <1>4, <1>7, <2>1 DEF Clock
    <3>2. /\ now \in Int /\ Offset[q] \in Int /\ rx_stamp[q] \in Int /\ lag[q] \in Int
          /\ MaxLag \in Nat
      BY <1>1, <1>4, ConstantTypes, MeetTypes DEF TypeOK, Stamp
    <3>3. Own(q)' = ((now + 1) + Offset[q]) % Period
      <4>1. now + 1 \in Int
        BY <3>2
      <4>2. Own(q)' = (((now + 1) % Period) + Offset[q]) % Period
        BY <1>2 DEF Own
      <4> QED
        BY <3>2, <4>1, <4>2, ModuloPlus
    <3>4. ((now + Offset[q]) + 1) % Period = (Own(q) + 1) % Period
      <4>1. now + Offset[q] \in Int /\ 1 \in Int
        BY <3>2
      <4> QED
        BY <4>1, ModuloPlus DEF Own
    <3>5. (Own(q) + 1) % Period = ((rx_stamp[q] + lag[q]) + 1) % Period
      <4>1. rx_stamp[q] + lag[q] \in Int /\ 1 \in Int
        BY <3>2
      <4> QED
        BY <3>1, <4>1, ModuloPlus
    <3>6. /\ (now + 1) + Offset[q] = (now + Offset[q]) + 1
          /\ (rx_stamp[q] + lag[q]) + 1 = rx_stamp[q] + lag'[q]
      BY <3>1, <3>2
    <3> QED
      BY <3>1, <3>2, <3>3, <3>4, <3>5, <3>6
  <2>2. Polling(q) /\ status[q] \cap RxBits = {} => ~CanGoOn(q)
    BY DEF Polling, CanGoOn, Sending, RxBits
  <2>3. Clock(q)'
    BY <1>2, <1>4, <1>5, <2>1, <2>2 DEF Clock, Polling
  <2>4. Programmed(q)'
    <3>1. chip[q] \in {"turning", "on"} => timer'[q] <= timer[q] /\ timer'[q] \in Int
      BY <1>2, <1>4
    <3>2. chip[q] = "armed" => ~(pc[q] \in {"idle", "i_resp"})
      BY <1>4, <1>8 DEF Programmed
    <3> QED
      BY <1>2, <1>4, <1>5, <3>1, <3>2 DEF Programmed
  <2>5. Sent(q)'
    <3>1. pc[q] \in {"i_wait", "p_wait"} => lag'[q] = lag[q] + 1
      BY <1>4 DEF CanGoOn
    <3>2. chip[q] = "armed" => ~(pc[q] \in {"idle", "i_resp"})
      BY <1>4, <1>8 DEF Programmed
    <3> SUFFICES ASSUME NEW y \in air', y.from = q
                 PROVE  /\ y.left <= Way
                        /\ y.frame.id \in {"twr_2_resp", "twr_3_final"} =>
                             y.frame.dst # q
                        /\ y.frame.id = "twr_3_final" /\ pc[q] \in {"i_wait", "p_wait"}
                             => y.left + lag'[q] <= Way
      BY <1>2, <3>2 DEF Sent
    <3>3. PICK x \in air : /\ y.from = x.from /\ y.frame = x.frame
                           /\ y.left = x.left - 1 /\ x.left \in Nat
      BY <1>3
    <3> QED
      BY <1>4, <3>1, <3>3, ConstantTypes DEF Sent, Way
  <2> QED
    BY <2>3, <2>4, <2>5
<1>10. ASSUME NEW n \in Node, NEW m \in Node \ {n}, NEW k \in Asks PROVE Met(n, m, k)'
  <2>1. Met(n, m, k)
    BY DEF Sound, MeetInv
  <2>2. Asking(n, k) => Elapsed(n)' = Elapsed(n) + 1 /\ Elapsed(n) \in Int
    BY <1>4, <1>6
  <2>3. Asking(n, k) /\ Behind(n, m) => Behind(n, m)'
    <3> SUFFICES ASSUME Asking(n, k), Behind(n, m), NEW y \in air', y.from = m
                 PROVE  y.left + Elapsed(n)' <= 2 * Way
      BY DEF Behind
    <3>1. PICK x \in air : /\ y.from = x.from
                           /\ y.left = x.left - 1 /\ x.left \in Nat
      BY <1>3
    <3>2. y.left + Elapsed(n)' = x.left + Elapsed(n)
      BY <2>2, <3>1
    <3> QED
      BY <3>1, <3>2 DEF Behind
  <2>4. ASSUME NEW y \in air', y.from = n, y.frame.id = k
        PROVE  Asking(n, k) /\ y.left + Elapsed(n)' = Way
    <3>1. PICK x \in air : /\ y.from = x.from /\ y.frame = x.frame
                           /\ y.left = x.left - 1 /\ x.left \in Nat
      BY <1>3
    <3>2. Asking(n, k) /\ x.left + Elapsed(n) = Way
      BY <2>1, <2>4, <3>1 DEF Met
    <3> QED
      BY <2>2, <3>1, <3>2
  <2>5. ASSUME Reading(m, k), lag'[m] <= Reply(k)
        PROVE  Asking(n, k) /\ Elapsed(n)' = Way + lag'[m] /\ Behind(n, m)'
    <3>1. lag'[m] = lag[m] + 1 /\ lag[m] \in Nat
      BY <1>4, <1>7, <2>5
    <3>2. lag[m] <= Reply(k)
      BY <2>5, <3>1, MeetConstants
    <3>3. Asking(n, k) /\ Elapsed(n) = Way + lag[m] /\ Behind(n, m)
      BY <2>1, <2>5, <3>2 DEF Met
    <3> QED
      BY <2>2, <2>3, <3>1, <3>3, MeetConstants
  <2>6. ASSUME Replying(m, k)
        PROVE  /\ Asking(n, k) /\ Behind(n, m)'
               /\ Due(m)' + Elapsed(n)' \in
                    Way + Reply(k) - Grain + 1 .. Way + Reply(k)
    <3>1. /\ Asking(n, k) /\ Behind(n, m)
          /\ Due(m) + Elapsed(n) \in Way + Reply(k) - Grain + 1 .. Way + Reply(k)
      BY <2>1, <2>6 DEF Met
    <3>2. Due(m)' = Due(m) - 1 /\ Due(m) \in Nat
      BY <1>4, <1>8, <2>6 DEF Replying
    <3>3. Due(m)' + Elapsed(n)' = Due(m) + Elapsed(n)
      BY <2>2, <3>1, <3>2
    <3> QED
      BY <2>3, <3>1, <3>3
  <2>7. ASSUME NEW y \in air', y.from = m, y.frame.id = Answer(k)
        PROVE  /\ Asking(n, k)
               /\ y.left + Elapsed(n)' \in
                    2 * Way + Reply(k) - Grain + 1 .. 2 * Way + Reply(k)
               /\ \A z \in air' : z.from = m =>
                    z = y \/ z.left > y.left \/ z.left + Elapsed(n)' <= 2 * Way
    <3>1. PICK x \in air : /\ y = [x EXCEPT !.left = @ - 1]
                           /\ y.from = x.from /\ y.frame = x.frame
                           /\ y.left = x.left - 1 /\ x.left \in Nat
      BY <1>3
    <3>2. /\ Asking(n, k)
          /\ x.left + Elapsed(n) \in
               2 * Way + Reply(k) - Grain + 1 .. 2 * Way + Reply(k)
          /\ \A z \in air : z.from = m =>
               z = x \/ z.left > x.left \/ z.left + Elapsed(n) <= 2 * Way
      BY <2>1, <2>7, <3>1 DEF Met
    <3>3. y.left + Elapsed(n)' = x.left + Elapsed(n)
      BY <2>2, <3>1, <3>2
    <3>4. ASSUME NEW z \in air', z.from = m
          PROVE  z = y \/ z.left > y.left \/ z.left + Elapsed(n)' <= 2 * Way
      <4>1. PICK w \in air : /\ z = [w EXCEPT !.left = @ - 1]
                             /\ z.from = w.from
                             /\ z.left = w.left - 1 /\ w.left \in Nat
        BY <1>3
      <4>2. w = x \/ w.left > x.left \/ w.left + Elapsed(n) <= 2 * Way
        BY <3>2, <3>4, <4>1
      <4>3. z.left + Elapsed(n)' = w.left + Elapsed(n)
        BY <2>2, <3>2, <4>1
      <4> QED
        BY <3>1, <4>1, <4>2, <4>3
    <3> QED
      BY <3>2, <3>3, <3>4
  <2> QED
    BY <1>5, <2>1, <2>4, <2>5, <2>6, <2>7 DEF Met
<1> QED
  BY <1>9, <1>10 DEF MeetInv

LEMMA MeetStep ==
  ASSUME DelaysMeet, Sound, [Next]_vars
  PROVE  MeetInv'
<1>1. ASSUME NEW n \in Node, Program(n) PROVE MeetInv'
  BY <1>1, SendNowMeets, ReceiveMeets, ReplyMeets, SentMeets DEF Program
<1>2. ASSUME NEW n \in Node, Chip(n) PROVE MeetInv'
  BY <1>2, DepartMeets, TurnOnMeets, GiveUpMeets DEF Chip
<1>3. CASE UNCHANGED vars
  <2>1. now' = now /\ air' = air /\ \A n \in Node : View(n)' = View(n)
    BY <1>3 DEF vars, progVars, chipVars, rxVars, regVars, View
  <2>2. ASSUME NEW n \in Node PROVE Clock(n)' /\ Programmed(n)' /\ Sent(n)'
    <3>1. Clock(n) /\ Programmed(n) /\ Sent(n) /\ View(n)' = View(n)
      BY <2>1 DEF Sound, MeetInv
    <3>2. Sent(n)'
      BY <2>1, <3>1 DEF View, Sent
    <3> QED
      BY <2>1, <3>1, <3>2, OwnKept
  <2>3. ASSUME NEW n \in Node, NEW m \in Node \ {n}, NEW k \in Asks
        PROVE  Met(n, m, k)'
    <3>1. Met(n, m, k)
      BY DEF Sound, MeetInv
    <3> QED
      BY <2>1, <3>1, ViewKept DEF Met, Behind
  <2> QED
    BY <2>2, <2>3 DEF MeetInv
<1> QED
  BY <1>1, <1>2, <1>3, CallMeets, ArriveMeets, TickMeets DEF Next, Medium

\* mesh_twr.cc:50-52: with two nodes and delays that fit, a response and a final
\* frame are met by a receiver that is on, however slow either program was and
\* whatever either node called, sent, lost or gave up before.
THEOREM ReceiversAreOn ==
  ASSUME DelaysMeet
  PROVE  Spec => []AnswersFindReceiver
<1>1. Init => Sound
  BY TypeInit, DriverInit, MeetInit DEF Sound
<1>2. Sound /\ [Next]_vars => Sound'
  BY TypeStep, DriverStep, MeetStep DEF Sound
<1>3. Sound => AnswersFindReceiver
  <2> SUFFICES ASSUME Sound, NEW x \in air, x.left = 0,
                      x.frame.id \in {"twr_2_resp", "twr_3_final"}
               PROVE  chip[x.frame.dst] = "on"
    BY DEF AnswersFindReceiver
  <2>1. TypeOK
    BY DEF Sound
  <2>2. x.frame \in Frame /\ x.from \in Node
    BY <2>1 DEF TypeOK
  <2>3. x.frame.dst \in Node
    BY <2>2 DEF Frame
  <2>4. PICK k \in Asks : x.frame.id = Answer(k)
    BY DEF Asks, Answer
  <2> DEFINE n == x.frame.dst
  <2>5. n # x.from
    BY <2>2 DEF Sound, MeetInv, Sent
  <2>6. Met(n, x.from, k) /\ Programmed(n)
    BY <2>2, <2>3, <2>5 DEF Sound, MeetInv
  <2> HIDE DEF n
  <2>7. /\ Asking(n, k)
        /\ x.left + Elapsed(n) \in
             2 * Way + Reply(k) - Grain + 1 .. 2 * Way + Reply(k)
    BY <2>4, <2>6 DEF Met
  <2>8. /\ Elapsed(n) \in Int /\ timer[n] \in Nat /\ rxdelay[n] \in Nat
        /\ rxdelay[n] = OnAfter(k)
    BY <2>1, <2>3, <2>6, <2>7, MeetTypes DEF n, Programmed, Asking
  <2>9. Elapsed(n) > OnAfter(k)
    BY <2>7, <2>8, MeetConstants
  <2>10. chip[n] # "turning"
    BY <2>8, <2>9 DEF Elapsed
  <2> QED
    BY <2>7, <2>10 DEF Asking, n
<1> QED
  BY <1>1, <1>2, <1>3, PTL DEF Spec
=============================================================================

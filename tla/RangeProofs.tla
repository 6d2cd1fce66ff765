----------------------------- MODULE RangeProofs -----------------------------
(***************************************************************************)
(* The theorem about what two-way ranging is for: every range a responder  *)
(* reports is the time of flight, but for less than half of the error in   *)
(* the antenna delay, unless it took a frame of another exchange           *)
(* (RangeIsFlightTime), for any number of nodes, any calls in any order,   *)
(* any lost or spoiled frames, any lag of the programs, any offsets of the *)
(* counters and any two antenna delays.                                    *)
(*                                                                         *)
(* The argument has three parts.  (1) Arithmetic: a reply time is fixed by *)
(* the delays, so it fits a 32-bit word, and then the round trip that      *)
(* contains it is the reply time and two flights, wherever counters wrap.  *)
(* (2) Order: a frame of one exchange never meets a program that has not   *)
(* reached that stage, or has passed it: poll, response and final frame of *)
(* an exchange exist one after the other.  (3) Stamps: therefore the words *)
(* in the frames and the registers of the two chips that meet in the       *)
(* formula belong to the same three frames.                                *)
(***************************************************************************)
EXTENDS RangingProofs

\* What the theorem asks of the constants, and mesh_twr.cc:40-55 and the device
\* tree give: no delay is shorter than a grain of the delayed transmission, and
\* a delay and two flights fit a 32-bit word.  The antenna delays may differ.
DelaysFit ==
  /\ Grain <= FinalDelay + AntDelay + 1
  /\ Grain <= FinalDelay + AntAssumed + 1
  /\ Grain <= RespDelay + AntDelay + 1
  /\ FinalDelay + AntDelay + 2 * Flight < Period32
  /\ FinalDelay + AntAssumed < Period32
  /\ RespDelay + AntDelay + 2 * Flight < Period32

\* By how much the initiator's statement of its reply time is short
Long == AntDelay - AntAssumed

(***************************************************************************)
(* Arithmetic of 32-bit words                                              *)
(***************************************************************************)
LEMMA DiffOfTruncs ==
  ASSUME NEW x \in Int, NEW y \in Int
  PROVE  /\ Diff(Trunc(x), Trunc(y)) = Trunc(x - y)
         /\ Diff(x, y) = Trunc(x - y)
<1>1. Trunc(x) \in Int /\ Trunc(y) \in Int
  BY TruncInRange
<1>2. Trunc(Trunc(x) - Trunc(y)) = Trunc(x - Trunc(y))
  <2>1. ASSUME NEW z \in Int PROVE Trunc(Trunc(x) - z) = Trunc(x - z)
    <3>1. -z \in Int /\ Trunc(x) + (-z) = Trunc(x) - z /\ x + (-z) = x - z
      BY <1>1
    <3> QED
      BY <3>1, TruncSum
  <2> QED
    BY <1>1, <2>1
<1>3. Trunc(Trunc(y)) = Trunc(y)
  BY TruncInRange, TruncIsSmall
<1>4. PICK k \in Int : y = Trunc(y) + Period32 * k
  BY <1>1, <1>3, TruncCongruent
<1>5. Period32 * k \in Int
  BY ConstantTypes
<1>6. x - Trunc(y) = (x - y) + Period32 * k
  BY <1>1, <1>4, <1>5
<1>7. Trunc(x - Trunc(y)) = Trunc(x - y)
  BY <1>1, <1>6, TruncCongruent
<1> QED
  BY <1>2, <1>7 DEF Diff, Trunc

\* A stamp t of node m and a stamp u of node n, of moments that are one time
\* of flight apart.
Sync(t, m, u, n) == Trunc(u + Offset[m]) = Trunc(t + Flight + Offset[n])

LEMMA SyncOfTruncs ==
  ASSUME NEW t \in Int, NEW u \in Int, NEW m \in Node, NEW n \in Node
  PROVE  /\ Sync(Trunc(t), m, u, n) <=> Sync(t, m, u, n)
         /\ Sync(t, m, Trunc(u), n) <=> Sync(t, m, u, n)
<1>1. Offset[m] \in Int /\ Offset[n] \in Int /\ Flight \in Int
  BY ConstantTypes DEF Stamp
<1>2. Trunc(t) \in Int /\ Trunc(u) \in Int
  BY TruncInRange
<1>3. Trunc(Trunc(u) + Offset[m]) = Trunc(u + Offset[m])
  BY <1>1, TruncSum
<1>4. Trunc(Trunc(t) + (Flight + Offset[n])) = Trunc(t + (Flight + Offset[n]))
  BY <1>1, TruncSum
<1>5. /\ Trunc(t) + (Flight + Offset[n]) = Trunc(t) + Flight + Offset[n]
      /\ t + (Flight + Offset[n]) = t + Flight + Offset[n]
  BY <1>1, <1>2
<1> QED
  BY <1>3, <1>4, <1>5 DEF Sync

\* m sends at t1, n takes it at u1 and answers at t2, m takes that at u2: if
\* the reply time and two flights fit a word, the round trip is just that.
LEMMA RoundTrip ==
  ASSUME NEW m \in Node, NEW n \in Node, NEW t1 \in Int, NEW u1 \in Int,
         NEW t2 \in Int, NEW u2 \in Int,
         Sync(t1, m, u1, n), Sync(t2, n, u2, m),
         Trunc(t2 - u1) + 2 * Flight < Period32
  PROVE  Trunc(u2 - t1) = Trunc(t2 - u1) + 2 * Flight
<1>1. Offset[m] \in Int /\ Offset[n] \in Int /\ Flight \in Nat
  BY ConstantTypes DEF Stamp
<1>2. PICK i \in Int : u1 + Offset[m] = t1 + Flight + Offset[n] + Period32 * i
  BY <1>1, TruncCongruent DEF Sync
<1>3. PICK j \in Int : u2 + Offset[n] = t2 + Flight + Offset[m] + Period32 * j
  BY <1>1, TruncCongruent DEF Sync
<1>4. i + j \in Int /\ u2 - t1 = (t2 - u1 + 2 * Flight) + Period32 * (i + j)
  BY <1>1, <1>2, <1>3, ConstantTypes
<1>5. Trunc(u2 - t1) = Trunc(t2 - u1 + 2 * Flight)
  BY <1>1, <1>4, TruncCongruent
<1>6. Trunc(t2 - u1 + 2 * Flight) = Trunc(Trunc(t2 - u1) + 2 * Flight)
  BY <1>1, TruncSum
<1>7. Trunc(t2 - u1) + 2 * Flight \in 0 .. Period32 - 1
  BY <1>1, TruncInRange, ConstantTypes
<1> QED
  BY <1>5, <1>6, <1>7, TruncIsSmall

\* A reply that is programmed for d after the stamp t leaves up to a grain
\* earlier; this is what words make of the time to a moment x after that.
LEMMA ReplyTime ==
  ASSUME NEW t \in Stamp, NEW d \in Nat
  PROVE  \E g \in 0 .. Grain - 1 : \A x \in Nat :
           Grain <= d + x + 1 /\ d + x < Period32 =>
             Trunc(Grid((t + d) % Period) + x - t) = d - g + x
<1> DEFINE w == (t + d) % Period
           g == w % Grain
<1>1. t \in Int /\ w \in Int
  BY ConstantTypes, ModuloInRange DEF Stamp
<1>2. g \in 0 .. Grain - 1
  BY <1>1, ConstantTypes, ModuloInRange
<1>3. Trunc(w) = Trunc(t + d)
  BY <1>1, TruncWraps
<1> HIDE DEF w
<1>4. Grid(w) = w - g
  BY DEF Grid
<1> HIDE DEF g
<1>5. ASSUME NEW x \in Nat, Grain <= d + x + 1, d + x < Period32
      PROVE  Trunc(Grid(w) + x - t) = d - g + x
  <2> DEFINE z == x - g - t
             e == d - g + x
  <2>1. z \in Int /\ t + d \in Int
    BY <1>1, <1>2, ConstantTypes
  <2>2. w + z = Grid(w) + x - t /\ t + d + z = e
    BY <1>1, <1>2, <1>4, ConstantTypes
  <2>3. e \in 0 .. Period32 - 1
    BY <1>2, <1>5, ConstantTypes
  <2> HIDE DEF z, e
  <2>4. Trunc(w + z) = Trunc(t + d + z)
    BY <1>1, <1>3, <2>1, TruncShift
  <2> QED
    BY <2>2, <2>3, <2>4, TruncIsSmall DEF e
<1> QED
  BY <1>2, <1>5 DEF w

(***************************************************************************)
(* The stages of an exchange                                               *)
(*                                                                         *)
(* An exchange is named by its initiator a, its responder b and the        *)
(* sequence number s of the initiator's call.                              *)
(***************************************************************************)
IsPoll(f, a, s) == f.id = "twr_1_poll" /\ f.src = a /\ f.seq = s
IsResp(f, b, a, s) ==
  f.id = "twr_2_resp" /\ f.src = b /\ f.dst = a /\ f.seq = s + 1
IsFinal(f, a, b, s) ==
  f.id = "twr_3_final" /\ f.src = a /\ f.dst = b /\ f.seq = s /\ ~f.mixed

\* The nodes whose chip holds a good frame that the program has not read, and
\* those that still need the frame they have read.
Unread == {n \in Node : RxGood \in status[n]}
Holds(n) == n \in Unread \/ pc[n] = "r_range"

\* The poll of call s of a has left, and the final frame has not been made.
InCall(a, s) ==
  /\ seq[a] = s
  /\ \/ pc[a] = "i_resp" /\ chip[a] # "armed"
     \/ pc[a] = "i_final"

\* a has accepted the response of b.
Accepted(a, b, s) ==
  pc[a] = "i_final" /\ ~mixed[a] /\ peer[a] = b /\ seq[a] = s

\* b has accepted the poll; its response has left.
Serving(b, a, s) ==
  /\ pc[b] \in {"r_resp", "r_sent", "r_final", "r_range"}
  /\ peer[b] = a /\ seq[b] = s

Answered(b, a, s) == Serving(b, a, s) /\ pc[b] # "r_resp" /\ chip[b] # "armed"

\* First stage: the poll has not reached anybody.
Fresh(a, s) ==
  \/ s <= left[a]
  \/ pc[a] = "i_wait" /\ seq[a] = s
  \/ chip[a] = "armed" /\ IsPoll(txbuf[a], a, s)
  \/ \E x \in air : IsPoll(x.frame, a, s)

\* Second stage: it has reached b, and the response has not left.
Pending(b, a, s) ==
  \/ b \in Unread /\ IsPoll(rxbuf[b], a, s)
  \/ Serving(b, a, s) /\ ~Answered(b, a, s)

\* Third stage: something exists that the response has to precede.
Past(b, a, s) ==
  \/ Answered(b, a, s)
  \/ \E x \in air : IsResp(x.frame, b, a, s) \/ IsFinal(x.frame, a, b, s)
  \/ a \in Unread /\ IsResp(rxbuf[a], b, a, s)
  \/ Accepted(a, b, s)
  \/ chip[a] = "armed" /\ IsFinal(txbuf[a], a, b, s)
  \/ Holds(b) /\ IsFinal(rxbuf[b], a, b, s)

\* No exchange is at two stages.
Ordered(b, a, s) ==
  /\ Fresh(a, s) => ~Pending(b, a, s) /\ ~Past(b, a, s)
  /\ Pending(b, a, s) => ~Past(b, a, s)

\* A call sends its poll once.
Once(a) ==
  /\ \A x \in air : x.frame.id = "twr_1_poll" /\ x.frame.src = a =>
        /\ x.frame.seq > left[a]
        /\ pc[a] = "i_wait" => x.frame.seq # seq[a]
        /\ chip[a] = "armed" => ~IsPoll(txbuf[a], a, x.frame.seq)
  /\ \A x, y \in air :
        /\ x.frame.id = "twr_1_poll" /\ x.frame.src = a
        /\ IsPoll(y.frame, a, x.frame.seq)
        => x = y

\* What the program of n has put into its chip and knows of its exchange.
Local(n) ==
  /\ pc[n] \in {"i_wait", "i_resp", "i_final", "i_sent"} => seq[n] = left[n] + 1
  /\ chip[n] = "armed" =>
       /\ n \notin Unread
       /\ txbuf[n].src = n
       /\ pc[n] = "idle" => txbuf[n].id = "ping"
       /\ pc[n] = "i_resp" => IsPoll(txbuf[n], n, seq[n])
       /\ pc[n] = "i_sent" => txbuf[n].id = "twr_3_final"
       /\ pc[n] = "r_sent" =>
            /\ IsResp(txbuf[n], n, peer[n], seq[n])
            /\ dx[n] = Grid((poll_rx[n] + RespDelay) % Period)
  /\ pc[n] = "r_resp" => rxbuf[n].seq = seq[n] /\ rxbuf[n].src = peer[n]
  /\ pc[n] \in {"r_sent", "r_final", "r_range"} /\ chip[n] # "armed" =>
       tx_stamp[n] = (Grid((poll_rx[n] + RespDelay) % Period) + AntDelay) % Period
  /\ pc[n] = "r_range" /\ ~mixed[n] => IsFinal(rxbuf[n], peer[n], n, seq[n])
  /\ pc[n] # "idle" => range[n] = {}
  /\ ~mixed[n] => range[n] \subseteq NearFlight

(***************************************************************************)
(* The stamps of an exchange                                               *)
(***************************************************************************)

\* The true reply time behind a final frame is a time, and with two flights it
\* fits a word.
Gap(f) ==
  f.id = "twr_3_final" =>
    LET reply == Diff(f.final_tx, f.resp_rx) + Long
    IN reply >= 0 /\ reply + 2 * Flight < Period32

\* A frame says when it left: now, less what it has travelled.
Travel ==
  /\ \A x \in air :
       /\ x.frame.src = x.from
       /\ x.stamp = Trunc(now + Offset[x.from] + x.left - Flight)
       /\ Gap(x.frame)
  /\ \A n \in Node :
       /\ Gap(txbuf[n]) /\ Gap(rxbuf[n])
       /\ rxbuf[n].id = "twr_3_final" =>
            Sync(rxbuf[n].final_tx + Long, rxbuf[n].src, rx_stamp[n], n)

\* What a knows of the moment its poll left, and b of the moment it came.
PollMeasured(b, a, s) ==
  /\ InCall(a, s) =>
       /\ \A x \in air : IsPoll(x.frame, a, s) => x.stamp = Trunc(tx_stamp[a])
       /\ b \in Unread /\ IsPoll(rxbuf[b], a, s) =>
            Sync(tx_stamp[a], a, rx_stamp[b], b)
       /\ Serving(b, a, s) => Sync(tx_stamp[a], a, poll_rx[b], b)
  /\ Serving(b, a, s) =>
       /\ \A x \in air : IsFinal(x.frame, a, b, s) =>
            Sync(x.frame.poll_tx, a, poll_rx[b], b)
       /\ chip[a] = "armed" /\ IsFinal(txbuf[a], a, b, s) =>
            Sync(txbuf[a].poll_tx, a, poll_rx[b], b)
       /\ Holds(b) /\ IsFinal(rxbuf[b], a, b, s) =>
            Sync(rxbuf[b].poll_tx, a, poll_rx[b], b)

\* What b knows of the moment its response left, and a of the moment it came.
RespMeasured(b, a, s) ==
  Answered(b, a, s) =>
    /\ \A x \in air : IsResp(x.frame, b, a, s) => x.stamp = Trunc(tx_stamp[b])
    /\ a \in Unread /\ IsResp(rxbuf[a], b, a, s) =>
         Sync(tx_stamp[b], b, rx_stamp[a], a)
    /\ Accepted(a, b, s) => Sync(tx_stamp[b], b, rx_stamp[a], a)
    /\ \A x \in air : IsFinal(x.frame, a, b, s) =>
         Sync(tx_stamp[b], b, x.frame.resp_rx, a)
    /\ chip[a] = "armed" /\ IsFinal(txbuf[a], a, b, s) =>
         Sync(tx_stamp[b], b, txbuf[a].resp_rx, a)
    /\ Holds(b) /\ IsFinal(rxbuf[b], a, b, s) =>
         Sync(tx_stamp[b], b, rxbuf[b].resp_rx, a)

PairInv(a, b, s) ==
  /\ Once(a) /\ Local(a) /\ Ordered(b, a, s)
  /\ PollMeasured(b, a, s) /\ RespMeasured(b, a, s)

ExchangeInv == Travel /\ \A a, b \in Node : \A s \in Nat : PairInv(a, b, s)

Sound == TypeOK /\ DriverInv /\ StampInv /\ ExchangeInv

\* What the steps need of types and of the driver.
LEMMA ExchangeTypes ==
  ASSUME TypeOK
  PROVE  /\ pc \in [Node -> Steps]
         /\ chip \in [Node -> {"off", "armed", "turning", "on"}]
         /\ mixed \in [Node -> BOOLEAN] /\ range \in [Node -> SUBSET Int]
         /\ seq \in [Node -> Nat] /\ peer \in [Node -> Node]
         /\ left \in [Node -> Nat] /\ poll_rx \in [Node -> Stamp]
         /\ dx \in [Node -> Stamp] /\ tx_stamp \in [Node -> Stamp]
         /\ txbuf \in [Node -> Frame] /\ rxbuf \in [Node -> Frame]
         /\ \A x \in air : x.frame.seq \in Nat
         /\ \A k \in Node : rxbuf[k].seq \in Nat /\ txbuf[k].seq \in Nat
<1>1. txbuf \in [Node -> Frame] /\ rxbuf \in [Node -> Frame]
  BY DEF TypeOK
<1>2. \A k \in Node : rxbuf[k].seq \in Nat /\ txbuf[k].seq \in Nat
  BY <1>1 DEF Frame
<1>3. \A x \in air : x.frame.seq \in Nat
  BY DEF TypeOK, Frame
<1> QED
  BY <1>1, <1>2, <1>3 DEF TypeOK

LEMMA Reads ==
  ASSUME TypeOK, DriverInv
  PROVE  \A k \in Node :
           /\ chip[k] = "armed" => pc[k] \in {"idle", "i_resp", "i_sent", "r_sent"}
           /\ k \in Unread =>
                pc[k] \in {"i_resp", "q_ping", "r_poll", "r_final", "r_sent"}
  BY DEF DriverInv, NodeInv, TypeOK, Steps, Waiting, Polling, RxBits, Unread

LEMMA ExchangeInit == Init => ExchangeInv
<1> SUFFICES ASSUME Init PROVE ExchangeInv
  OBVIOUS
<1>1. Travel
  BY DEF Init, Travel, Gap, Header
<1>2. ASSUME NEW a \in Node, NEW b \in Node, NEW s \in Nat PROVE PairInv(a, b, s)
  BY DEF Init, PairInv, Once, Local, Ordered, PollMeasured, RespMeasured, Fresh,
     Pending, Past, Answered, Serving, InCall, Accepted, Holds, Unread, RxGood
<1> QED
  BY <1>1, <1>2 DEF ExchangeInv

(***************************************************************************)
(* What the steps do to the exchanges                                      *)
(*                                                                         *)
(* One lemma for each kind of step, in terms of the variables it changes;  *)
(* the actions of Ranging are shown to be steps of these kinds below.      *)
(***************************************************************************)

\* A call ends, with or without a range; its chip is not about to send.
LEMMA Ends ==
  ASSUME Sound, NEW n \in Node, pc[n] # "idle",
         pc' = [pc EXCEPT ![n] = "idle"],
         chip' = [chip EXCEPT ![n] = chip'[n]], chip'[n] # "armed",
         Unread' \subseteq Unread,
         seq' = [seq EXCEPT ![n] = seq'[n]],
         poll_rx' = [poll_rx EXCEPT ![n] = poll_rx'[n]],
         dx' = [dx EXCEPT ![n] = dx'[n]],
         txbuf' = [txbuf EXCEPT ![n] = txbuf'[n]], Gap(txbuf'[n]),
         mixed' = [mixed EXCEPT ![n] = mixed'[n]],
         range' = [range EXCEPT ![n] = range'[n]],
         ~mixed'[n] => range'[n] \subseteq NearFlight,
         UNCHANGED <<now, air, tx_stamp, rx_stamp, rxbuf, peer, left>>
  PROVE  ExchangeInv'
<1>1. txbuf \in [Node -> Frame]
  BY DEF Sound, TypeOK
<1>2. Travel'
  <2>1. ASSUME NEW m \in Node PROVE Gap(txbuf'[m])
    BY <1>1 DEF Sound, ExchangeInv, Travel
  <2> QED
    BY <2>1 DEF Sound, ExchangeInv, Travel, Gap
<1>3. SUFFICES ASSUME NEW a \in Node, NEW b \in Node, NEW s \in Nat
               PROVE  PairInv(a, b, s)'
  BY <1>2 DEF ExchangeInv
<1>4. PairInv(a, b, s) /\ PairInv(n, b, s)
  BY DEF Sound, ExchangeInv
<1> USE <1>1, <1>4, ExchangeTypes, Reads
    DEF Sound, PairInv, IsPoll, IsResp, IsFinal, Holds, InCall, Serving, Answered,
        Accepted, Local, Steps
<1>5. Once(a)'
  BY DEF Once
<1>6. Local(a)'
  <2>1. CASE a = n
    BY <2>1
  <2>2. CASE a # n
    BY <2>2
  <2> QED
    BY <2>1, <2>2
<1>7. Ordered(b, a, s)'
  <2>1. CASE a = n
    BY <2>1 DEF Ordered, Once, Fresh, Pending, Past
  <2>2. CASE a # n /\ b = n
    BY <2>2 DEF Ordered, Fresh, Pending, Past
  <2>3. CASE a # n /\ b # n
    BY <2>3 DEF Ordered, Fresh, Pending, Past
  <2> QED
    BY <2>1, <2>2, <2>3
<1>8. PollMeasured(b, a, s)'
  <2>1. CASE a = n
    BY <2>1 DEF PollMeasured
  <2>2. CASE a # n /\ b = n
    BY <2>2 DEF PollMeasured
  <2>3. CASE a # n /\ b # n
    BY <2>3 DEF PollMeasured
  <2> QED
    BY <2>1, <2>2, <2>3
<1>9. RespMeasured(b, a, s)'
  <2>1. CASE a = n
    BY <2>1 DEF RespMeasured
  <2>2. CASE a # n /\ b = n
    BY <2>2 DEF RespMeasured
  <2>3. CASE a # n /\ b # n
    BY <2>3 DEF RespMeasured
  <2> QED
    BY <2>1, <2>2, <2>3
<1> QED
  BY <1>5, <1>6, <1>7, <1>8, <1>9

\* A call begins.
LEMMA Calls ==
  ASSUME Sound, NEW n \in Node,
         NEW p \in Node,
         NEW l \in {"i_wait", "p_wait", "r_poll", "q_ping"},
         pc[n] = "idle",
         chip[n] # "armed",
         left[n] > 0,
         pc' = [pc EXCEPT ![n] = l],
         left' = [left EXCEPT ![n] = @ - 1],
         peer' = [peer EXCEPT ![n] = p],
         seq' = [seq EXCEPT ![n] = left[n]],
         mixed' = [mixed EXCEPT ![n] = FALSE],
         range' = [range EXCEPT ![n] = {}],
         chip' = [chip EXCEPT ![n] = chip'[n]],
         chip'[n] # "armed",
         UNCHANGED <<now, air, txbuf, dx, tx_stamp, rx_stamp, rxbuf, poll_rx>>,
         Unread' = Unread
  PROVE  ExchangeInv'
<1>2. Travel'
  BY DEF Sound, ExchangeInv, Travel, Gap
<1>3. SUFFICES ASSUME NEW a \in Node, NEW b \in Node, NEW s \in Nat
               PROVE  PairInv(a, b, s)'
  BY <1>2 DEF ExchangeInv
<1>4. PairInv(a, b, s) /\ PairInv(n, b, s)
  BY DEF Sound, ExchangeInv
<1> USE <1>4, ExchangeTypes, Reads
    DEF Sound, PairInv, IsPoll, IsResp, IsFinal, Holds, InCall, Serving, Answered,
        Accepted, Local, Steps
<1>5. Once(a)'
  BY DEF Once
<1>6. Local(a)'
  <2>1. CASE a = n
    BY <2>1
  <2>2. CASE a # n
    BY <2>2
  <2> QED
    BY <2>1, <2>2
<1>7. Ordered(b, a, s)'
  <2>1. CASE a = n
    BY <2>1 DEF Ordered, Once, Fresh, Pending, Past
  <2>2. CASE a # n /\ b = n
    BY <2>2 DEF Ordered, Once, Fresh, Pending, Past
  <2>3. CASE a # n /\ b # n
    BY <2>3 DEF Ordered, Once, Fresh, Pending, Past
  <2> QED
    BY <2>1, <2>2, <2>3
<1>8. PollMeasured(b, a, s)'
  <2>1. CASE a = n
    BY <2>1 DEF PollMeasured
  <2>2. CASE a # n /\ b = n
    BY <2>2 DEF PollMeasured
  <2>3. CASE a # n /\ b # n
    BY <2>3 DEF PollMeasured
  <2> QED
    BY <2>1, <2>2, <2>3
<1>9. RespMeasured(b, a, s)'
  <2>1. CASE a = n
    BY <2>1 DEF RespMeasured
  <2>2. CASE a # n /\ b = n
    BY <2>2 DEF RespMeasured
  <2>3. CASE a # n /\ b # n
    BY <2>3 DEF RespMeasured
  <2> QED
    BY <2>1, <2>2, <2>3
<1> QED
  BY <1>5, <1>6, <1>7, <1>8, <1>9

\* A receiver comes on, or gives up.
LEMMA Turns ==
  ASSUME Sound, NEW n \in Node,
         chip[n] # "armed",
         chip' = [chip EXCEPT ![n] = chip'[n]],
         chip'[n] # "armed",
         Unread' = Unread,
         UNCHANGED <<now, pc, left, peer, seq, mixed, range, air, txbuf, dx,
                     tx_stamp, rx_stamp, rxbuf, poll_rx>>
  PROVE  ExchangeInv'
<1>2. Travel'
  BY DEF Sound, ExchangeInv, Travel, Gap
<1>3. SUFFICES ASSUME NEW a \in Node, NEW b \in Node, NEW s \in Nat
               PROVE  PairInv(a, b, s)'
  BY <1>2 DEF ExchangeInv
<1>4. PairInv(a, b, s) /\ PairInv(n, b, s)
  BY DEF Sound, ExchangeInv
<1> USE <1>4, ExchangeTypes, Reads
    DEF Sound, PairInv, IsPoll, IsResp, IsFinal, Holds, InCall, Serving, Answered,
        Accepted, Local, Steps
<1>5. Once(a)'
  BY DEF Once
<1>6. Local(a)'
  <2>1. CASE a = n
    BY <2>1
  <2>2. CASE a # n
    BY <2>2
  <2> QED
    BY <2>1, <2>2
<1>7. Ordered(b, a, s)'
  BY DEF Ordered, Once, Fresh, Pending, Past
<1>8. PollMeasured(b, a, s)'
  BY DEF PollMeasured, Ordered, Once, Fresh, Pending, Past
<1>9. RespMeasured(b, a, s)'
  BY DEF RespMeasured, Ordered, Once, Fresh, Pending, Past
<1> QED
  BY <1>5, <1>6, <1>7, <1>8, <1>9

\* A ping is made ready to send: a frame of no exchange.
LEMMA Pings ==
  ASSUME Sound, NEW n \in Node,
         pc[n] = "p_wait",
         pc' = [pc EXCEPT ![n] = "idle"],
         dx' = [dx EXCEPT ![n] = dx'[n]],
         NEW f \in Frame,
         f.src = n,
         f.id = "ping",
         txbuf' = [txbuf EXCEPT ![n] = f],
         chip' = [chip EXCEPT ![n] = "armed"],
         Unread' = Unread,
         UNCHANGED <<now, left, peer, seq, mixed, range, air, tx_stamp, rx_stamp,
                     rxbuf, poll_rx>>
  PROVE  ExchangeInv'
<1>2. Travel'
  <2>1. txbuf \in [Node -> Frame]
    BY DEF Sound, TypeOK
  <2>2. ASSUME NEW m \in Node PROVE Gap(txbuf'[m])
    BY <2>1 DEF Gap, IsResp, Sound, ExchangeInv, Travel
  <2> QED
    BY <2>2 DEF Sound, ExchangeInv, Travel, Gap
<1>3. SUFFICES ASSUME NEW a \in Node, NEW b \in Node, NEW s \in Nat
               PROVE  PairInv(a, b, s)'
  BY <1>2 DEF ExchangeInv
<1>4. PairInv(a, b, s) /\ PairInv(n, b, s)
  BY DEF Sound, ExchangeInv
<1> USE <1>4, ExchangeTypes, Reads
    DEF Sound, PairInv, IsPoll, IsResp, IsFinal, Holds, InCall, Serving, Answered,
        Accepted, Local, Steps
<1>5. Once(a)'
  BY DEF Once
<1>6. Local(a)'
  <2>1. CASE a = n
    BY <2>1
  <2>2. CASE a # n
    BY <2>2
  <2> QED
    BY <2>1, <2>2
<1>7. Ordered(b, a, s)'
  <2>1. CASE a = n
    BY <2>1 DEF Ordered, Once, Fresh, Pending, Past
  <2>2. CASE a # n /\ b = n
    BY <2>2 DEF Ordered, Once, Fresh, Pending, Past
  <2>3. CASE a # n /\ b # n
    BY <2>3 DEF Ordered, Once, Fresh, Pending, Past
  <2> QED
    BY <2>1, <2>2, <2>3
<1>8. PollMeasured(b, a, s)'
  <2>1. CASE a = n
    BY <2>1 DEF PollMeasured
  <2>2. CASE a # n /\ b = n
    BY <2>2 DEF PollMeasured
  <2>3. CASE a # n /\ b # n
    BY <2>3 DEF PollMeasured
  <2> QED
    BY <2>1, <2>2, <2>3
<1>9. RespMeasured(b, a, s)'
  <2>1. CASE a = n
    BY <2>1 DEF RespMeasured
  <2>2. CASE a # n /\ b = n
    BY <2>2 DEF RespMeasured
  <2>3. CASE a # n /\ b # n
    BY <2>3 DEF RespMeasured
  <2> QED
    BY <2>1, <2>2, <2>3
<1> QED
  BY <1>5, <1>6, <1>7, <1>8, <1>9

\* The first frame of an exchange is made ready.
LEMMA Polls ==
  ASSUME Sound, NEW n \in Node,
         pc[n] = "i_wait",
         pc' = [pc EXCEPT ![n] = "i_resp"],
         dx' = [dx EXCEPT ![n] = dx'[n]],
         NEW f \in Frame,
         f.src = n,
         f.id = "twr_1_poll",
         f.seq = seq[n],
         txbuf' = [txbuf EXCEPT ![n] = f],
         chip' = [chip EXCEPT ![n] = "armed"],
         Unread' = Unread,
         UNCHANGED <<now, left, peer, seq, mixed, range, air, tx_stamp, rx_stamp,
                     rxbuf, poll_rx>>
  PROVE  ExchangeInv'
<1>2. Travel'
  <2>1. txbuf \in [Node -> Frame]
    BY DEF Sound, TypeOK
  <2>2. ASSUME NEW m \in Node PROVE Gap(txbuf'[m])
    BY <2>1 DEF Gap, IsResp, Sound, ExchangeInv, Travel
  <2> QED
    BY <2>2 DEF Sound, ExchangeInv, Travel, Gap
<1>3. SUFFICES ASSUME NEW a \in Node, NEW b \in Node, NEW s \in Nat
               PROVE  PairInv(a, b, s)'
  BY <1>2 DEF ExchangeInv
<1>4. PairInv(a, b, s) /\ PairInv(n, b, s)
  BY DEF Sound, ExchangeInv
<1> USE <1>4, ExchangeTypes, Reads
    DEF Sound, PairInv, IsPoll, IsResp, IsFinal, Holds, InCall, Serving, Answered,
        Accepted, Local, Steps
<1>5. Once(a)'
  BY DEF Once
<1>6. Local(a)'
  <2>1. CASE a = n
    BY <2>1
  <2>2. CASE a # n
    BY <2>2
  <2> QED
    BY <2>1, <2>2
<1>7. Ordered(b, a, s)'
  <2>1. CASE a = n
    BY <2>1 DEF Ordered, Once, Fresh, Pending, Past
  <2>2. CASE a # n /\ b = n
    BY <2>2 DEF Ordered, Once, Fresh, Pending, Past
  <2>3. CASE a # n /\ b # n
    BY <2>3 DEF Ordered, Once, Fresh, Pending, Past
  <2> QED
    BY <2>1, <2>2, <2>3
<1>8. PollMeasured(b, a, s)'
  <2>1. CASE a = n
    BY <2>1 DEF PollMeasured
  <2>2. CASE a # n /\ b = n
    BY <2>2 DEF PollMeasured
  <2>3. CASE a # n /\ b # n
    BY <2>3 DEF PollMeasured
  <2> QED
    BY <2>1, <2>2, <2>3
<1>9. RespMeasured(b, a, s)'
  <2>1. CASE a = n
    BY <2>1 DEF RespMeasured
  <2>2. CASE a # n /\ b = n
    BY <2>2 DEF RespMeasured
  <2>3. CASE a # n /\ b # n
    BY <2>3 DEF RespMeasured
  <2> QED
    BY <2>1, <2>2, <2>3
<1> QED
  BY <1>5, <1>6, <1>7, <1>8, <1>9

\* The initiator takes a response: of its exchange, or mixed is set.
LEMMA TakesResp ==
  ASSUME Sound, NEW n \in Node,
         pc[n] = "i_resp",
         n \in Unread,
         pc' = [pc EXCEPT ![n] = "i_final"],
         mixed' = [mixed EXCEPT ![n] = mixed'[n]],
         ~mixed'[n] => IsResp(rxbuf[n], peer[n], n, seq[n]),
         Unread' = Unread \ {n},
         UNCHANGED <<now, left, peer, seq, range, air, txbuf, dx, tx_stamp,
                     rx_stamp, rxbuf, poll_rx, chip>>
  PROVE  ExchangeInv'
<1>2. Travel'
  BY DEF Sound, ExchangeInv, Travel, Gap
<1>3. SUFFICES ASSUME NEW a \in Node, NEW b \in Node, NEW s \in Nat
               PROVE  PairInv(a, b, s)'
  BY <1>2 DEF ExchangeInv
<1>4. PairInv(a, b, s) /\ PairInv(n, b, s)
  BY DEF Sound, ExchangeInv
<1> USE <1>4, ExchangeTypes, Reads
    DEF Sound, PairInv, IsPoll, IsResp, IsFinal, Holds, InCall, Serving, Answered,
        Accepted, Local, Steps
<1>5. Once(a)'
  BY DEF Once
<1>6. Local(a)'
  <2>1. CASE a = n
    BY <2>1
  <2>2. CASE a # n
    BY <2>2
  <2> QED
    BY <2>1, <2>2
<1>7. Ordered(b, a, s)'
  <2>1. CASE a = n
    BY <2>1 DEF Ordered, Once, Fresh, Pending, Past
  <2>2. CASE a # n /\ b = n
    BY <2>2 DEF Ordered, Once, Fresh, Pending, Past
  <2>3. CASE a # n /\ b # n
    BY <2>3 DEF Ordered, Once, Fresh, Pending, Past
  <2> QED
    BY <2>1, <2>2, <2>3
<1>8. PollMeasured(b, a, s)'
  <2>1. CASE a = n
    BY <2>1 DEF PollMeasured
  <2>2. CASE a # n /\ b = n
    BY <2>2 DEF PollMeasured
  <2>3. CASE a # n /\ b # n
    BY <2>3 DEF PollMeasured
  <2> QED
    BY <2>1, <2>2, <2>3
<1>9. RespMeasured(b, a, s)'
  <2>1. CASE a = n
    BY <2>1 DEF RespMeasured
  <2>2. CASE a # n /\ b = n
    BY <2>2 DEF RespMeasured
  <2>3. CASE a # n /\ b # n
    BY <2>3 DEF RespMeasured
  <2> QED
    BY <2>1, <2>2, <2>3
<1> QED
  BY <1>5, <1>6, <1>7, <1>8, <1>9

\* The stamps in the frame f are those that n has measured, cut to words.
Carries(n, f) ==
  \A k \in Node : /\ Sync(f.poll_tx, n, poll_rx[k], k)
                      <=> Sync(tx_stamp[n], n, poll_rx[k], k)
                  /\ Sync(tx_stamp[k], k, f.resp_rx, n)
                      <=> Sync(tx_stamp[k], k, rx_stamp[n], n)

\* The final frame is made ready, with the stamps the initiator has.
LEMMA Finals ==
  ASSUME Sound, NEW n \in Node,
         pc[n] = "i_final",
         pc' = [pc EXCEPT ![n] = "i_sent"],
         dx' = [dx EXCEPT ![n] = dx'[n]],
         NEW f \in Frame,
         f.src = n,
         f.id = "twr_3_final",
         f.seq = seq[n],
         f.dst = peer[n],
         f.mixed = mixed[n],
         Gap(f),
         Carries(n, f),
         txbuf' = [txbuf EXCEPT ![n] = f],
         chip' = [chip EXCEPT ![n] = "armed"],
         Unread' = Unread,
         UNCHANGED <<now, left, peer, seq, mixed, range, air, tx_stamp, rx_stamp,
                     rxbuf, poll_rx>>
  PROVE  ExchangeInv'
<1>2. Travel'
  <2>1. txbuf \in [Node -> Frame]
    BY DEF Sound, TypeOK
  <2>2. ASSUME NEW m \in Node PROVE Gap(txbuf'[m])
    BY <2>1 DEF Gap, IsResp, Sound, ExchangeInv, Travel
  <2> QED
    BY <2>2 DEF Sound, ExchangeInv, Travel, Gap
<1>3. SUFFICES ASSUME NEW a \in Node, NEW b \in Node, NEW s \in Nat
               PROVE  PairInv(a, b, s)'
  BY <1>2 DEF ExchangeInv
<1>4. PairInv(a, b, s) /\ PairInv(n, b, s)
  BY DEF Sound, ExchangeInv
<1> USE <1>4, ExchangeTypes, Reads
    DEF Sound, PairInv, IsPoll, IsResp, IsFinal, Holds, InCall, Serving, Answered,
        Accepted, Local, Steps
<1>5. Once(a)'
  BY DEF Once
<1>6. Local(a)'
  <2>1. CASE a = n
    BY <2>1
  <2>2. CASE a # n
    BY <2>2
  <2> QED
    BY <2>1, <2>2
<1>7. Ordered(b, a, s)'
  <2> USE DEF Ordered, Once, Fresh, Pending, Past
  <2>1. CASE a = n
    BY <2>1
  <2>2. CASE a # n /\ b = n
    BY <2>2
  <2>3. CASE a # n /\ b # n
    BY <2>3
  <2> QED
    BY <2>1, <2>2, <2>3
<1>8. PollMeasured(b, a, s)'
  <2>1. CASE a = n
    BY <2>1 DEF PollMeasured, Carries
  <2>2. CASE a # n /\ b = n
    BY <2>2 DEF PollMeasured
  <2>3. CASE a # n /\ b # n
    BY <2>3 DEF PollMeasured
  <2> QED
    BY <2>1, <2>2, <2>3
<1>9. RespMeasured(b, a, s)'
  <2>1. CASE a = n
    BY <2>1 DEF RespMeasured, Carries
  <2>2. CASE a # n /\ b = n
    BY <2>2 DEF RespMeasured
  <2>3. CASE a # n /\ b # n
    BY <2>3 DEF RespMeasured
  <2> QED
    BY <2>1, <2>2, <2>3
<1> QED
  BY <1>5, <1>6, <1>7, <1>8, <1>9

\* The responder takes a poll: the exchange passes to the second stage.
LEMMA TakesPoll ==
  ASSUME Sound, NEW n \in Node,
         pc[n] = "r_poll",
         n \in Unread,
         rxbuf[n].id = "twr_1_poll",
         rxbuf[n].src = peer[n],
         pc' = [pc EXCEPT ![n] = "r_resp"],
         seq' = [seq EXCEPT ![n] = rxbuf[n].seq],
         poll_rx' = [poll_rx EXCEPT ![n] = rx_stamp[n]],
         Unread' = Unread \ {n},
         UNCHANGED <<now, left, peer, mixed, range, air, txbuf, dx, tx_stamp,
                     rx_stamp, rxbuf, chip>>
  PROVE  ExchangeInv'
<1>2. Travel'
  BY DEF Sound, ExchangeInv, Travel, Gap
<1>3. SUFFICES ASSUME NEW a \in Node, NEW b \in Node, NEW s \in Nat
               PROVE  PairInv(a, b, s)'
  BY <1>2 DEF ExchangeInv
<1>4. PairInv(a, b, s) /\ PairInv(n, b, s)
  BY DEF Sound, ExchangeInv
<1> USE <1>4, ExchangeTypes, Reads
    DEF Sound, PairInv, IsPoll, IsResp, IsFinal, Holds, InCall, Serving, Answered,
        Accepted, Local, Steps
<1>5. Once(a)'
  BY DEF Once
<1>6. Local(a)'
  <2>1. CASE a = n
    BY <2>1
  <2>2. CASE a # n
    BY <2>2
  <2> QED
    BY <2>1, <2>2
<1>7. Ordered(b, a, s)'
  <2>1. CASE a = n
    BY <2>1 DEF Ordered, Once, Fresh, Pending, Past
  <2>2. CASE a # n /\ b = n
    BY <2>2 DEF Ordered, Once, Fresh, Pending, Past
  <2>3. CASE a # n /\ b # n
    BY <2>3 DEF Ordered, Once, Fresh, Pending, Past
  <2> QED
    BY <2>1, <2>2, <2>3
<1>8. PollMeasured(b, a, s)'
  <2>1. CASE b = n
    BY <2>1 DEF PollMeasured, Ordered, Pending, Past
  <2>2. CASE a = n /\ b # n
    BY <2>2 DEF PollMeasured
  <2>3. CASE a # n /\ b # n
    BY <2>3 DEF PollMeasured
  <2> QED
    BY <2>1, <2>2, <2>3
<1>9. RespMeasured(b, a, s)'
  <2>1. CASE a = n
    BY <2>1 DEF RespMeasured
  <2>2. CASE a # n /\ b = n
    BY <2>2 DEF RespMeasured
  <2>3. CASE a # n /\ b # n
    BY <2>3 DEF RespMeasured
  <2> QED
    BY <2>1, <2>2, <2>3
<1> QED
  BY <1>5, <1>6, <1>7, <1>8, <1>9

\* The response is made ready, for a time fixed by that of the poll.
LEMMA Responds ==
  ASSUME Sound, NEW n \in Node,
         pc[n] = "r_resp",
         pc' = [pc EXCEPT ![n] = "r_sent"],
         dx' = [dx EXCEPT ![n] = Grid((poll_rx[n] + RespDelay) % Period)],
         NEW f \in Frame,
         f.src = n,
         IsResp(f, n, rxbuf[n].src, rxbuf[n].seq),
         txbuf' = [txbuf EXCEPT ![n] = f],
         chip' = [chip EXCEPT ![n] = "armed"],
         Unread' = Unread,
         UNCHANGED <<now, left, peer, seq, mixed, range, air, tx_stamp, rx_stamp,
                     rxbuf, poll_rx>>
  PROVE  ExchangeInv'
<1>2. Travel'
  <2>1. txbuf \in [Node -> Frame]
    BY DEF Sound, TypeOK
  <2>2. ASSUME NEW m \in Node PROVE Gap(txbuf'[m])
    BY <2>1 DEF Gap, IsResp, Sound, ExchangeInv, Travel
  <2> QED
    BY <2>2 DEF Sound, ExchangeInv, Travel, Gap
<1>3. SUFFICES ASSUME NEW a \in Node, NEW b \in Node, NEW s \in Nat
               PROVE  PairInv(a, b, s)'
  BY <1>2 DEF ExchangeInv
<1>4. PairInv(a, b, s) /\ PairInv(n, b, s)
  BY DEF Sound, ExchangeInv
<1> USE <1>4, ExchangeTypes, Reads
    DEF Sound, PairInv, IsPoll, IsResp, IsFinal, Holds, InCall, Serving, Answered,
        Accepted, Local, Steps
<1>5. Once(a)'
  BY DEF Once
<1>6. Local(a)'
  <2>1. CASE a = n
    BY <2>1
  <2>2. CASE a # n
    BY <2>2
  <2> QED
    BY <2>1, <2>2
<1>7. Ordered(b, a, s)'
  <2>1. CASE a = n
    BY <2>1 DEF Ordered, Once, Fresh, Pending, Past
  <2>2. CASE a # n /\ b = n
    BY <2>2 DEF Ordered, Once, Fresh, Pending, Past
  <2>3. CASE a # n /\ b # n
    BY <2>3 DEF Ordered, Once, Fresh, Pending, Past
  <2> QED
    BY <2>1, <2>2, <2>3
<1>8. PollMeasured(b, a, s)'
  <2>1. CASE a = n
    BY <2>1 DEF PollMeasured
  <2>2. CASE a # n /\ b = n
    BY <2>2 DEF PollMeasured
  <2>3. CASE a # n /\ b # n
    BY <2>3 DEF PollMeasured
  <2> QED
    BY <2>1, <2>2, <2>3
<1>9. RespMeasured(b, a, s)'
  <2>1. CASE a = n
    BY <2>1 DEF RespMeasured
  <2>2. CASE a # n /\ b = n
    BY <2>2 DEF RespMeasured
  <2>3. CASE a # n /\ b # n
    BY <2>3 DEF RespMeasured
  <2> QED
    BY <2>1, <2>2, <2>3
<1> QED
  BY <1>5, <1>6, <1>7, <1>8, <1>9

\* The response has gone.
LEMMA AfterResp ==
  ASSUME Sound, NEW n \in Node,
         pc[n] = "r_sent",
         chip[n] # "armed",
         pc' = [pc EXCEPT ![n] = "r_final"],
         Unread' = Unread,
         UNCHANGED <<now, left, peer, seq, mixed, range, air, txbuf, dx, tx_stamp,
                     rx_stamp, rxbuf, poll_rx, chip>>
  PROVE  ExchangeInv'
<1>2. Travel'
  BY DEF Sound, ExchangeInv, Travel, Gap
<1>3. SUFFICES ASSUME NEW a \in Node, NEW b \in Node, NEW s \in Nat
               PROVE  PairInv(a, b, s)'
  BY <1>2 DEF ExchangeInv
<1>4. PairInv(a, b, s) /\ PairInv(n, b, s)
  BY DEF Sound, ExchangeInv
<1> USE <1>4, ExchangeTypes, Reads
    DEF Sound, PairInv, IsPoll, IsResp, IsFinal, Holds, InCall, Serving, Answered,
        Accepted, Local, Steps
<1>5. Once(a)'
  BY DEF Once
<1>6. Local(a)'
  <2>1. CASE a = n
    BY <2>1
  <2>2. CASE a # n
    BY <2>2
  <2> QED
    BY <2>1, <2>2
<1>7. Ordered(b, a, s)'
  <2>1. CASE a = n
    BY <2>1 DEF Ordered, Once, Fresh, Pending, Past
  <2>2. CASE a # n /\ b = n
    BY <2>2 DEF Ordered, Once, Fresh, Pending, Past
  <2>3. CASE a # n /\ b # n
    BY <2>3 DEF Ordered, Once, Fresh, Pending, Past
  <2> QED
    BY <2>1, <2>2, <2>3
<1>8. PollMeasured(b, a, s)'
  <2>1. CASE a = n
    BY <2>1 DEF PollMeasured
  <2>2. CASE a # n /\ b = n
    BY <2>2 DEF PollMeasured
  <2>3. CASE a # n /\ b # n
    BY <2>3 DEF PollMeasured
  <2> QED
    BY <2>1, <2>2, <2>3
<1>9. RespMeasured(b, a, s)'
  <2>1. CASE a = n
    BY <2>1 DEF RespMeasured
  <2>2. CASE a # n /\ b = n
    BY <2>2 DEF RespMeasured
  <2>3. CASE a # n /\ b # n
    BY <2>3 DEF RespMeasured
  <2> QED
    BY <2>1, <2>2, <2>3
<1> QED
  BY <1>5, <1>6, <1>7, <1>8, <1>9

\* The responder takes a final frame: of its exchange, or mixed is set.
LEMMA TakesFinal ==
  ASSUME Sound, NEW n \in Node,
         pc[n] = "r_final",
         n \in Unread,
         pc' = [pc EXCEPT ![n] = "r_range"],
         mixed' = [mixed EXCEPT ![n] = mixed'[n]],
         ~mixed'[n] => IsFinal(rxbuf[n], peer[n], n, seq[n]),
         Unread' = Unread \ {n},
         UNCHANGED <<now, left, peer, seq, range, air, txbuf, dx, tx_stamp,
                     rx_stamp, rxbuf, poll_rx, chip>>
  PROVE  ExchangeInv'
<1>2. Travel'
  BY DEF Sound, ExchangeInv, Travel, Gap
<1>3. SUFFICES ASSUME NEW a \in Node, NEW b \in Node, NEW s \in Nat
               PROVE  PairInv(a, b, s)'
  BY <1>2 DEF ExchangeInv
<1>4. PairInv(a, b, s) /\ PairInv(n, b, s)
  BY DEF Sound, ExchangeInv
<1> USE <1>4, ExchangeTypes, Reads
    DEF Sound, PairInv, IsPoll, IsResp, IsFinal, Holds, InCall, Serving, Answered,
        Accepted, Local, Steps
<1>5. Once(a)'
  BY DEF Once
<1>6. Local(a)'
  <2>1. CASE a = n
    BY <2>1
  <2>2. CASE a # n
    BY <2>2
  <2> QED
    BY <2>1, <2>2
<1>7. Ordered(b, a, s)'
  <2>1. CASE a = n
    BY <2>1 DEF Ordered, Once, Fresh, Pending, Past
  <2>2. CASE a # n /\ b = n
    BY <2>2 DEF Ordered, Once, Fresh, Pending, Past
  <2>3. CASE a # n /\ b # n
    BY <2>3 DEF Ordered, Once, Fresh, Pending, Past
  <2> QED
    BY <2>1, <2>2, <2>3
<1>8. PollMeasured(b, a, s)'
  <2>1. CASE a = n
    BY <2>1 DEF PollMeasured
  <2>2. CASE a # n /\ b = n
    BY <2>2 DEF PollMeasured
  <2>3. CASE a # n /\ b # n
    BY <2>3 DEF PollMeasured
  <2> QED
    BY <2>1, <2>2, <2>3
<1>9. RespMeasured(b, a, s)'
  <2>1. CASE a = n
    BY <2>1 DEF RespMeasured
  <2>2. CASE a # n /\ b = n
    BY <2>2 DEF RespMeasured
  <2>3. CASE a # n /\ b # n
    BY <2>3 DEF RespMeasured
  <2> QED
    BY <2>1, <2>2, <2>3
<1> QED
  BY <1>5, <1>6, <1>7, <1>8, <1>9

\* A frame leaves, and the chip keeps the moment.
LEMMA Departs ==
  ASSUME Sound, NEW n \in Node,
         NEW x0,
         NEW st \in Stamp,
         chip[n] = "armed",
         chip' = [chip EXCEPT ![n] = chip'[n]],
         chip'[n] # "armed",
         Unread' = Unread,
         x0.frame = txbuf[n],
         x0.from = n,
         x0.stamp = Trunc(st),
         Trunc(st) = Trunc(now + Offset[n] + x0.left - Flight),
         st = (dx[n] + AntDelay) % Period,
         tx_stamp' = [tx_stamp EXCEPT ![n] = st],
         air' = air \cup {x0},
         UNCHANGED <<now, pc, left, peer, seq, mixed, range, txbuf, dx, rx_stamp,
                     rxbuf, poll_rx>>
  PROVE  ExchangeInv'
<1>2. Travel'
  <2>1. Gap(txbuf[n])
    BY DEF Sound, ExchangeInv, Travel
  <2>2. ASSUME NEW y \in air'
        PROVE  /\ y.frame.src = y.from
               /\ y.stamp = Trunc(now + Offset[y.from] + y.left - Flight)
               /\ Gap(y.frame)
    BY <2>1 DEF Sound, ExchangeInv, Travel, PairInv, Local
  <2> QED
    BY <2>2 DEF Sound, ExchangeInv, Travel, Gap
<1>3. SUFFICES ASSUME NEW a \in Node, NEW b \in Node, NEW s \in Nat
               PROVE  PairInv(a, b, s)'
  BY <1>2 DEF ExchangeInv
<1>4. PairInv(a, b, s) /\ PairInv(n, b, s)
  BY DEF Sound, ExchangeInv
<1> USE <1>4, ExchangeTypes, Reads
    DEF Sound, PairInv, IsPoll, IsResp, IsFinal, Holds, InCall, Serving, Answered,
        Accepted, Local, Steps
<1>5. Once(a)'
  BY DEF Once
<1>6. Local(a)'
  <2>1. CASE a = n
    BY <2>1
  <2>2. CASE a # n
    BY <2>2
  <2> QED
    BY <2>1, <2>2
<1>7. Ordered(b, a, s)'
  <2>1. CASE a = n /\ b # n
    BY <2>1 DEF Ordered, Once, Fresh, Pending, Past
  <2>2. CASE a = n /\ b = n
    <3>1. ~Pending(b, a, s)'
      BY <2>2 DEF Pending
    <3>2. Fresh(a, s)' => Fresh(a, s)
      BY <2>2 DEF Fresh
    <3>3. Answered(b, a, s)' => Pending(b, a, s)
      BY <2>2 DEF Pending
    <3>4. ASSUME NEW x \in air', IsResp(x.frame, b, a, s) \/ IsFinal(x.frame, a, b, s)
          PROVE  Past(b, a, s) \/ Pending(b, a, s)
      <4>1. x \in air \/ x.frame = txbuf[n]
        OBVIOUS
      <4>2. CASE x \in air
        BY ONLY <3>4, <4>2 DEF Past
      <4>3. CASE x.frame = txbuf[n] /\ IsResp(x.frame, b, a, s)
        <5>1. txbuf[n].id = "twr_2_resp" /\ pc[n] = "r_sent"
          BY <4>3
        <5>2. peer[n] = a /\ seq[n] = s
          <6>1. IsResp(txbuf[n], n, peer[n], seq[n]) /\ seq[n] \in Nat
            BY <5>1
          <6> QED
            BY ONLY <2>2, <4>3, <6>1, s \in Nat DEF IsResp
        <5>3. Serving(b, a, s) /\ ~Answered(b, a, s)
          BY ONLY <2>2, <5>1, <5>2, chip[n] = "armed" DEF Serving, Answered
        <5> QED
          BY ONLY <5>3 DEF Pending
      <4>4. CASE x.frame = txbuf[n] /\ IsFinal(x.frame, a, b, s)
        BY <2>2, <4>4 DEF Past
      <4> QED
        BY <3>4, <4>1, <4>2, <4>3, <4>4
    <3>5. (a \in Unread /\ IsResp(rxbuf[a], b, a, s))' => Past(b, a, s)
      BY <2>2 DEF Past
    <3>6. Accepted(a, b, s)' => Past(b, a, s)
      BY <2>2 DEF Past
    <3>7. ~(chip[a] = "armed" /\ IsFinal(txbuf[a], a, b, s))'
      BY <2>2
    <3>8. (Holds(b) /\ IsFinal(rxbuf[b], a, b, s))' => Past(b, a, s)
      BY <2>2 DEF Past
    <3>9. Past(b, a, s)' => Past(b, a, s) \/ Pending(b, a, s)
      <4> HIDE DEF IsResp, IsFinal, Answered, Accepted, Holds
      <4> QED
        BY <3>3, <3>4, <3>5, <3>6, <3>7, <3>8 DEF Past
    <3> QED
      BY <3>1, <3>2, <3>9 DEF Ordered
  <2>3. CASE a # n /\ b = n
    BY <2>3 DEF Ordered, Once, Fresh, Pending, Past
  <2>4. CASE a # n /\ b # n
    BY <2>4 DEF Ordered, Fresh, Pending, Past
  <2> QED
    BY <2>1, <2>2, <2>3, <2>4
<1>8. PollMeasured(b, a, s)'
  <2>1. CASE a = n /\ b # n
    BY <2>1 DEF PollMeasured, Ordered, Once, Fresh, Pending, Past
  <2>2. CASE a = n /\ b = n
    <3>1. CASE pc[n] = "i_resp"
      BY <2>2, <3>1 DEF PollMeasured, Ordered, Once, Fresh, Pending, Past
    <3>2. CASE pc[n] = "r_sent"
      BY <2>2, <3>2 DEF PollMeasured, Ordered, Once, Fresh, Pending, Past
    <3>3. CASE pc[n] \in {"idle", "i_sent"}
      BY <2>2, <3>3 DEF PollMeasured, Ordered, Once, Fresh, Pending, Past
    <3> QED
      BY <3>1, <3>2, <3>3
  <2>3. CASE a # n /\ b = n
    BY <2>3 DEF PollMeasured
  <2>4. CASE a # n /\ b # n
    BY <2>4 DEF PollMeasured
  <2> QED
    BY <2>1, <2>2, <2>3, <2>4
<1>9. RespMeasured(b, a, s)'
  <2>1. CASE a = n /\ b # n
    BY <2>1 DEF RespMeasured
  <2>2. CASE b = n
    <3> SUFFICES ASSUME Answered(b, a, s)' PROVE RespMeasured(b, a, s)'
      BY DEF RespMeasured
    <3>1. ~Past(b, a, s)
      BY <2>2 DEF Ordered, Pending
    <3>2. \A x \in air' : IsResp(x.frame, b, a, s) => x = x0
      BY <2>2, <3>1 DEF Past
    <3>3. tx_stamp'[b] = st
      BY <2>2
    <3> QED
      BY <2>2, <3>1, <3>2, <3>3 DEF RespMeasured, Past
  <2>3. CASE a # n /\ b # n
    BY <2>3 DEF RespMeasured
  <2> QED
    BY <2>1, <2>2, <2>3
<1> QED
  BY <1>5, <1>6, <1>7, <1>8, <1>9

\* The nodes that a frame reaches.
Gained == Unread' \ Unread

\* A frame reaches those that listen, one flight after it left.
LEMMA Arrives ==
  ASSUME Sound, NEW x0 \in air,
         \A k \in Gained :
           /\ chip[k] = "on" /\ k \notin Unread
           /\ pc[k] \in {"i_resp", "q_ping", "r_poll", "r_final", "r_sent"},
         \A k \in Gained : \A t \in Stamp :
           x0.stamp = Trunc(t) => Sync(t, x0.from, Own(k), k),
         \A k \in Gained : x0.frame.id = "twr_3_final" =>
           Sync(x0.frame.final_tx + Long, x0.from, Own(k), k),
         rxbuf' = [k \in Node |-> IF k \in Gained THEN x0.frame ELSE rxbuf[k]],
         rx_stamp' = [k \in Node |-> IF k \in Gained THEN Own(k) ELSE rx_stamp[k]],
         Unread' = Unread \cup Gained,
         air' = air \ {x0},
         \A k \in Node :
           chip'[k] = chip[k] \/ (chip[k] # "armed" /\ chip'[k] # "armed"),
         UNCHANGED <<now, pc, left, peer, seq, mixed, range, txbuf, dx, tx_stamp,
                     poll_rx>>
  PROVE  ExchangeInv'
<1>2. Travel'
  <2>1. ASSUME NEW m \in Node
        PROVE  /\ Gap(rxbuf'[m])
               /\ rxbuf'[m].id = "twr_3_final" =>
                    Sync(rxbuf'[m].final_tx + Long, rxbuf'[m].src, rx_stamp'[m], m)
    BY DEF Sound, ExchangeInv, Travel
  <2> QED
    BY <2>1 DEF Sound, ExchangeInv, Travel, Gap, Sync
<1>3. SUFFICES ASSUME NEW a \in Node, NEW b \in Node, NEW s \in Nat
               PROVE  PairInv(a, b, s)'
  BY <1>2 DEF ExchangeInv
<1>4. PairInv(a, b, s)
  BY DEF Sound, ExchangeInv
<1> USE <1>4, ExchangeTypes, Reads
    DEF Sound, PairInv, IsPoll, IsResp, IsFinal, Holds, InCall, Serving, Answered,
        Accepted, Local, Steps
<1>5. Once(a)'
  BY DEF Once
<1>6. Local(a)'
  OBVIOUS
<1>7. Ordered(b, a, s)'
  BY DEF Ordered, Once, Fresh, Pending, Past
<1>a. x0.frame.src = x0.from /\ tx_stamp \in [Node -> Stamp]
  BY DEF Sound, ExchangeInv, Travel, TypeOK
<1>8. PollMeasured(b, a, s)'
  <2> USE DEF PollMeasured, Ordered, Once, Fresh, Pending, Past
  <2>1. CASE b \in Gained
    BY <1>a, <2>1
  <2>2. CASE b \notin Gained
    BY <2>2
  <2> QED
    BY <2>1, <2>2
<1>9. RespMeasured(b, a, s)'
  <2> USE DEF RespMeasured, Ordered, Once, Fresh, Pending, Past
  <2> SUFFICES ASSUME Answered(b, a, s)' PROVE RespMeasured(b, a, s)'
    OBVIOUS
  <2>1. Answered(b, a, s)
    OBVIOUS
  <2>2. a \in Unread' /\ IsResp(rxbuf'[a], b, a, s) =>
          Sync(tx_stamp[b], b, rx_stamp'[a], a)
    <3>1. CASE a \in Gained
      <4> SUFFICES ASSUME IsResp(x0.frame, b, a, s)
                   PROVE  Sync(tx_stamp[b], b, Own(a), a)
        BY <3>1
      <4>1. x0.stamp = Trunc(tx_stamp[b]) /\ x0.from = b
        BY <1>a, <2>1
      <4> QED
        BY <1>a, <3>1, <4>1
    <3>2. CASE a \notin Gained
      BY <2>1, <3>2
    <3> QED
      BY <3>1, <3>2
  <2>3. Accepted(a, b, s) => Sync(tx_stamp[b], b, rx_stamp'[a], a)
    BY <2>1
  <2>4. Holds(b)' /\ IsFinal(rxbuf'[b], a, b, s) =>
          Sync(tx_stamp[b], b, rxbuf'[b].resp_rx, a)
    BY <2>1
  <2> QED
    BY <2>1, <2>2, <2>3, <2>4
<1> QED
  BY <1>5, <1>6, <1>7, <1>8, <1>9

\* A frame one tick ago.
Older(y) == [y EXCEPT !.left = @ + 1]

\* Time goes on: a frame is as far from its arrival as time has passed.
LEMMA Time ==
  ASSUME Sound,
         \A y \in air' :
           /\ Older(y) \in air /\ y.frame = Older(y).frame
           /\ y.stamp = Older(y).stamp /\ y.from = Older(y).from,
         \A y, z \in air' : Older(y) = Older(z) => y = z,
         \A y \in air' : Trunc(now' + Offset[y.from] + y.left - Flight) =
           Trunc(now + Offset[y.from] + Older(y).left - Flight),
         UNCHANGED <<pc, left, peer, seq, mixed, range, txbuf, dx, tx_stamp,
                     rx_stamp, rxbuf, poll_rx, chip>>,
         Unread' = Unread
  PROVE  ExchangeInv'
<1>2. Travel'
  <2>1. ASSUME NEW y \in air'
        PROVE  /\ y.frame.src = y.from
               /\ y.stamp = Trunc(now' + Offset[y.from] + y.left - Flight)
               /\ Gap(y.frame)
    BY DEF Sound, ExchangeInv, Travel
  <2> QED
    BY <2>1 DEF Sound, ExchangeInv, Travel, Gap, Sync
<1>3. SUFFICES ASSUME NEW a \in Node, NEW b \in Node, NEW s \in Nat
               PROVE  PairInv(a, b, s)'
  BY <1>2 DEF ExchangeInv
<1>4. PairInv(a, b, s)
  BY DEF Sound, ExchangeInv
<1>0. UNCHANGED <<pc, left, peer, seq, mixed, range, txbuf, dx, tx_stamp, rx_stamp,
                  rxbuf, poll_rx, chip, Unread>>
  OBVIOUS
<1>5. Once(a)'
  <2>1. ASSUME NEW y \in air', y.frame.id = "twr_1_poll", y.frame.src = a
        PROVE  /\ y.frame.seq > left[a]
               /\ pc[a] = "i_wait" => y.frame.seq # seq[a]
               /\ chip[a] = "armed" => ~IsPoll(txbuf[a], a, y.frame.seq)
    <3>1. Older(y) \in air /\ Older(y).frame = y.frame
      OBVIOUS
    <3> QED
      BY <1>4, <2>1, <3>1 DEF PairInv, Once
  <2>2. ASSUME NEW y \in air', NEW z \in air', y.frame.id = "twr_1_poll",
               y.frame.src = a, IsPoll(z.frame, a, y.frame.seq)
        PROVE  y = z
    <3>1. /\ Older(y) \in air /\ Older(y).frame = y.frame
          /\ Older(z) \in air /\ Older(z).frame = z.frame
      OBVIOUS
    <3>2. Older(y) = Older(z)
      BY <1>4, <2>2, <3>1 DEF PairInv, Once
    <3> QED
      BY <3>2
  <2> QED
    BY <1>0, <2>1, <2>2 DEF Once, IsPoll
<1>6. Local(a)'
  BY <1>0, <1>4 DEF PairInv, Local, IsPoll, IsResp, IsFinal
<1>a. \A y \in air' : \E x \in air : y.frame = x.frame /\ y.stamp = x.stamp
  OBVIOUS
<1>b. Fresh(a, s)' => Fresh(a, s)
  BY <1>0, <1>a DEF Fresh, IsPoll
<1>c. Past(b, a, s)' => Past(b, a, s)
  BY <1>0, <1>a DEF Past, Answered, Serving, IsResp, IsFinal, Accepted, Holds
<1>d. Pending(b, a, s)' <=> Pending(b, a, s)
  BY <1>0, <1>a DEF Pending, Answered, Serving, IsPoll
<1>7. Ordered(b, a, s)'
  BY <1>b, <1>c, <1>d, <1>4 DEF PairInv, Ordered
<1>e. PollMeasured(b, a, s)
  BY <1>4 DEF PairInv
<1>8. PollMeasured(b, a, s)'
  BY <1>0, <1>a, <1>e DEF PollMeasured, Sync, InCall, Serving, IsPoll, IsFinal, Holds
<1>f. RespMeasured(b, a, s)
  BY <1>4 DEF PairInv
<1>9. RespMeasured(b, a, s)'
  BY <1>0, <1>a, <1>f DEF RespMeasured, Sync, Answered, Serving, IsResp, IsFinal,
     Accepted, Holds
<1> QED
  BY <1>5, <1>6, <1>7, <1>8, <1>9 DEF PairInv

(***************************************************************************)
(* The steps of the programs                                               *)
(***************************************************************************)

LEMMA CallStep ==
  ASSUME Sound, NEW n \in Node, NewCall(n)
  PROVE  ExchangeInv'
<1>1. PICK p \in Node : \/ CallInitiate(n, p) \/ CallRespond(n, p)
                        \/ CallPing(n, p) \/ CallPingRx(n, p)
  BY DEF NewCall
<1>2. chip' = [chip EXCEPT ![n] = chip'[n]] /\ chip'[n] \in {chip[n], "on"}
  BY <1>1 DEF CallInitiate, CallRespond, CallPing, CallPingRx, RxNow, Sound, TypeOK
<1>3. /\ pc[n] = "idle" /\ chip[n] # "armed" /\ left[n] > 0
      /\ left' = [left EXCEPT ![n] = @ - 1]
      /\ peer' = [peer EXCEPT ![n] = p]
      /\ seq' = [seq EXCEPT ![n] = left[n]]
      /\ mixed' = [mixed EXCEPT ![n] = FALSE]
      /\ range' = [range EXCEPT ![n] = {}]
      /\ UNCHANGED <<now, air, txbuf, dx, tx_stamp, rx_stamp, rxbuf, poll_rx>>
      /\ Unread' = Unread
  BY <1>1 DEF CallInitiate, CallRespond, CallPing, CallPingRx, Call, RxNow, rxVars,
     regVars, Unread
<1>4. PICK l \in {"i_wait", "p_wait", "r_poll", "q_ping"} : pc' = [pc EXCEPT ![n] = l]
  BY <1>1 DEF CallInitiate, CallRespond, CallPing, CallPingRx, Goto
<1>5. chip'[n] # "armed"
  BY <1>2, <1>3
<1> QED
  BY <1>2, <1>3, <1>4, <1>5, Calls

\* mp_receive takes the frame, if there is one; the chip is not about to send.
LEMMA Received ==
  ASSUME Sound, NEW n \in Node, Polling(n), NEW id, NEW ok \in BOOLEAN,
         Receive(n, id, ok)
  PROVE  /\ Unread' = Unread \ {n}
         /\ chip[n] # "armed"
         /\ ok => n \in Unread /\ rxbuf[n].id = id
<1>1. status \in [Node -> SUBSET Bits]
  BY DEF Sound, TypeOK
<1>2. Unread' = Unread \ {n}
  BY <1>1 DEF Receive, Unread, RxGood, RxBad
<1>3. chip[n] # "armed"
  BY DEF Sound, DriverInv, NodeInv, Polling, Hears, Receive, RxGood, RxBad, RxBits
<1>4. ok => n \in Unread /\ rxbuf[n].id = id
  BY DEF Receive, Unread
<1> QED
  BY <1>2, <1>3, <1>4

\* A program that gives up where it is.
LEMMA Rejected ==
  ASSUME Sound, NEW n \in Node, Polling(n), NEW id,
         Receive(n, id, FALSE) \/ Receive(n, id, TRUE),
         pc' = [pc EXCEPT ![n] = "idle"],
         seq' = [seq EXCEPT ![n] = seq'[n]],
         poll_rx' = [poll_rx EXCEPT ![n] = poll_rx'[n]],
         mixed' = [mixed EXCEPT ![n] = mixed'[n]],
         UNCHANGED <<now, air, tx_stamp, rx_stamp, rxbuf, peer, left, chip, range,
                     dx, txbuf>>
  PROVE  ExchangeInv'
<1>1. Unread' \subseteq Unread /\ chip'[n] # "armed"
  BY Received
<1>2. pc[n] # "idle"
  BY DEF Polling
<1>3. range[n] = {} /\ Gap(txbuf[n])
  BY <1>2 DEF Sound, ExchangeInv, PairInv, Local, Travel
<1>4. /\ chip' = [chip EXCEPT ![n] = chip'[n]] /\ dx' = [dx EXCEPT ![n] = dx'[n]]
      /\ txbuf' = [txbuf EXCEPT ![n] = txbuf'[n]]
      /\ range' = [range EXCEPT ![n] = range'[n]]
  BY DEF Sound, TypeOK
<1> QED
  BY <1>1, <1>2, <1>3, <1>4, Ends

LEMMA ReceivePingStep ==
  ASSUME Sound, NEW n \in Node, ReceivePing(n)
  PROVE  ExchangeInv'
<1>1. Polling(n) /\ (Receive(n, "ping", FALSE) \/ Receive(n, "ping", TRUE))
  BY DEF ReceivePing, Polling
<1>2. /\ pc' = [pc EXCEPT ![n] = "idle"]
      /\ UNCHANGED <<now, air, tx_stamp, rx_stamp, rxbuf, peer, left, chip, range,
                     dx, txbuf, seq, poll_rx, mixed>>
  BY DEF ReceivePing, Goto, rxVars, regVars
<1>3. /\ seq' = [seq EXCEPT ![n] = seq'[n]]
      /\ poll_rx' = [poll_rx EXCEPT ![n] = poll_rx'[n]]
      /\ mixed' = [mixed EXCEPT ![n] = mixed'[n]]
  BY <1>2 DEF Sound, TypeOK
<1> QED
  BY <1>1, <1>2, <1>3, Rejected

LEMMA ReceiveRespStep ==
  ASSUME Sound, NEW n \in Node, ReceiveResp(n)
  PROVE  ExchangeInv'
<1>1. PICK ok \in BOOLEAN :
        /\ Receive(n, "twr_2_resp", ok)
        /\ pc' = [pc EXCEPT ![n] = IF ok THEN "i_final" ELSE "idle"]
        /\ mixed' = [mixed EXCEPT ![n] = ok /\ Foreign(n, rxbuf[n], seq[n] + 1)]
  BY DEF ReceiveResp, GoOn
<1>2. /\ pc[n] = "i_resp"
      /\ UNCHANGED <<now, air, tx_stamp, rx_stamp, rxbuf, peer, left, chip, range,
                     dx, txbuf, seq, poll_rx>>
  BY DEF ReceiveResp, rxVars, regVars
<1>3. Polling(n)
  BY <1>2 DEF Polling
<1>4. /\ seq' = [seq EXCEPT ![n] = seq'[n]]
      /\ poll_rx' = [poll_rx EXCEPT ![n] = poll_rx'[n]]
      /\ mixed' = [mixed EXCEPT ![n] = mixed'[n]]
      /\ mixed'[n] <=> (ok /\ Foreign(n, rxbuf[n], seq[n] + 1))
  BY <1>1, <1>2 DEF Sound, TypeOK
<1>5. CASE ~ok
  <2>1. Receive(n, "twr_2_resp", FALSE) \/ Receive(n, "twr_2_resp", TRUE)
    BY <1>1
  <2>2. pc' = [pc EXCEPT ![n] = "idle"]
    BY <1>1, <1>5
  <2> QED
    BY <1>2, <1>3, <1>4, <2>1, <2>2, Rejected
<1>6. CASE ok
  <2>1. n \in Unread /\ rxbuf[n].id = "twr_2_resp" /\ Unread' = Unread \ {n}
    BY <1>1, <1>3, <1>6, Received
  <2>2. pc' = [pc EXCEPT ![n] = "i_final"]
    BY <1>1, <1>6
  <2>3. ~mixed'[n] => IsResp(rxbuf[n], peer[n], n, seq[n])
    BY <1>4, <1>6, <2>1 DEF Foreign, IsResp
  <2> QED
    BY <1>2, <1>4, <2>1, <2>2, <2>3, TakesResp
<1> QED
  BY <1>5, <1>6

LEMMA ReceiveFinalStep ==
  ASSUME Sound, NEW n \in Node, ReceiveFinal(n)
  PROVE  ExchangeInv'
<1>1. PICK ok \in BOOLEAN :
        /\ Receive(n, "twr_3_final", ok)
        /\ pc' = [pc EXCEPT ![n] = IF ok THEN "r_range" ELSE "idle"]
        /\ mixed' = [mixed EXCEPT ![n] = ok /\ Foreign(n, rxbuf[n], seq[n])]
  BY DEF ReceiveFinal, Goto
<1>2. /\ pc[n] = "r_final"
      /\ UNCHANGED <<now, air, tx_stamp, rx_stamp, rxbuf, peer, left, chip, range,
                     dx, txbuf, seq, poll_rx>>
  BY DEF ReceiveFinal, rxVars, regVars
<1>3. Polling(n)
  BY <1>2 DEF Polling
<1>4. /\ seq' = [seq EXCEPT ![n] = seq'[n]]
      /\ poll_rx' = [poll_rx EXCEPT ![n] = poll_rx'[n]]
      /\ mixed' = [mixed EXCEPT ![n] = mixed'[n]]
      /\ mixed'[n] <=> (ok /\ Foreign(n, rxbuf[n], seq[n]))
  BY <1>1, <1>2 DEF Sound, TypeOK
<1>5. CASE ~ok
  <2>1. Receive(n, "twr_3_final", FALSE) \/ Receive(n, "twr_3_final", TRUE)
    BY <1>1
  <2>2. pc' = [pc EXCEPT ![n] = "idle"]
    BY <1>1, <1>5
  <2> QED
    BY <1>2, <1>3, <1>4, <2>1, <2>2, Rejected
<1>6. CASE ok
  <2>1. n \in Unread /\ rxbuf[n].id = "twr_3_final" /\ Unread' = Unread \ {n}
    BY <1>1, <1>3, <1>6, Received
  <2>2. pc' = [pc EXCEPT ![n] = "r_range"]
    BY <1>1, <1>6
  <2>3. ~mixed'[n] => IsFinal(rxbuf[n], peer[n], n, seq[n])
    BY <1>4, <1>6, <2>1 DEF Foreign, IsFinal
  <2> QED
    BY <1>2, <1>4, <2>1, <2>2, <2>3, TakesFinal
<1> QED
  BY <1>5, <1>6

LEMMA ReceivePollStep ==
  ASSUME Sound, NEW n \in Node, ReceivePoll(n)
  PROVE  ExchangeInv'
<1>1. PICK ok \in BOOLEAN :
        /\ Receive(n, "twr_1_poll", ok)
        /\ pc' = [pc EXCEPT ![n] = IF ok /\ rxbuf[n].dst = n /\ rxbuf[n].src = peer[n]
                                   THEN "r_resp" ELSE "idle"]
        /\ seq' = [seq EXCEPT ![n] = IF ok THEN rxbuf[n].seq ELSE @]
  BY DEF ReceivePoll, GoOn
<1>2. /\ pc[n] = "r_poll"
      /\ poll_rx' = [poll_rx EXCEPT ![n] = rx_stamp[n]]
      /\ UNCHANGED <<now, air, tx_stamp, rx_stamp, rxbuf, peer, left, chip, range,
                     dx, txbuf, mixed>>
  BY DEF ReceivePoll, rxVars, regVars
<1>3. Polling(n)
  BY <1>2 DEF Polling
<1>4. /\ seq' = [seq EXCEPT ![n] = seq'[n]]
      /\ poll_rx' = [poll_rx EXCEPT ![n] = poll_rx'[n]]
      /\ mixed' = [mixed EXCEPT ![n] = mixed'[n]]
  BY <1>1, <1>2 DEF Sound, TypeOK
<1>5. CASE ~(ok /\ rxbuf[n].dst = n /\ rxbuf[n].src = peer[n])
  <2>1. Receive(n, "twr_1_poll", FALSE) \/ Receive(n, "twr_1_poll", TRUE)
    BY <1>1
  <2>2. pc' = [pc EXCEPT ![n] = "idle"]
    BY <1>1, <1>5
  <2> QED
    BY <1>2, <1>3, <1>4, <2>1, <2>2, Rejected
<1>6. CASE ok /\ rxbuf[n].dst = n /\ rxbuf[n].src = peer[n]
  <2>1. n \in Unread /\ rxbuf[n].id = "twr_1_poll" /\ Unread' = Unread \ {n}
    BY <1>1, <1>3, <1>6, Received
  <2>2. /\ pc' = [pc EXCEPT ![n] = "r_resp"]
        /\ seq' = [seq EXCEPT ![n] = rxbuf[n].seq]
    BY <1>1, <1>6
  <2> QED
    BY <1>2, <1>6, <2>1, <2>2, TakesPoll
<1> QED
  BY <1>5, <1>6

LEMMA SendPingStep ==
  ASSUME Sound, NEW n \in Node, SendPing(n)
  PROVE  ExchangeInv'
<1> DEFINE f == Header("ping", seq[n], n, peer[n])
<1>1. /\ f \in Frame /\ f.src = n /\ f.id = "ping"
  BY HeaderType DEF Ids, Sound, TypeOK, Header
<1>2. /\ pc[n] = "p_wait" /\ pc' = [pc EXCEPT ![n] = "idle"]
      /\ txbuf' = [txbuf EXCEPT ![n] = f]
      /\ chip' = [chip EXCEPT ![n] = "armed"]
      /\ dx' = [dx EXCEPT ![n] = Own(n)]
      /\ UNCHANGED <<now, left, peer, seq, mixed, range, air, tx_stamp, rx_stamp,
                     rxbuf, poll_rx>>
      /\ Unread' = Unread
  BY DEF SendPing, SendNow, Goto, rxVars, Unread
<1>3. dx' = [dx EXCEPT ![n] = dx'[n]]
  BY <1>2 DEF Sound, TypeOK
<1> HIDE DEF f
<1> QED
  BY <1>1, <1>2, <1>3, Pings

LEMMA SendPollStep ==
  ASSUME Sound, NEW n \in Node, SendPoll(n)
  PROVE  ExchangeInv'
<1> DEFINE f == Header("twr_1_poll", seq[n], n, peer[n])
<1>1. /\ f \in Frame /\ f.src = n /\ f.id = "twr_1_poll" /\ f.seq = seq[n]
  BY HeaderType DEF Ids, Sound, TypeOK, Header
<1>2. /\ pc[n] = "i_wait" /\ pc' = [pc EXCEPT ![n] = "i_resp"]
      /\ txbuf' = [txbuf EXCEPT ![n] = f]
      /\ chip' = [chip EXCEPT ![n] = "armed"]
      /\ dx' = [dx EXCEPT ![n] = Own(n)]
      /\ UNCHANGED <<now, left, peer, seq, mixed, range, air, tx_stamp, rx_stamp,
                     rxbuf, poll_rx>>
      /\ Unread' = Unread
  BY DEF SendPoll, SendNow, Goto, rxVars, Unread
<1>3. dx' = [dx EXCEPT ![n] = dx'[n]]
  BY <1>2 DEF Sound, TypeOK
<1> HIDE DEF f
<1> QED
  BY <1>1, <1>2, <1>3, Polls

\* A transmission that is too late: the transceiver is off, and the call ends.
LEMMA TooLate ==
  ASSUME Sound, NEW n \in Node, pc[n] # "idle", NEW f \in Frame, Gap(f),
         pc' = [pc EXCEPT ![n] = "idle"],
         chip' = [chip EXCEPT ![n] = "off"],
         txbuf' = [txbuf EXCEPT ![n] = f],
         dx' = [dx EXCEPT ![n] = dx'[n]],
         Unread' = Unread,
         UNCHANGED <<now, left, peer, seq, mixed, range, air, tx_stamp, rx_stamp,
                     rxbuf, poll_rx>>
  PROVE  ExchangeInv'
<1>1. range[n] = {}
  BY DEF Sound, ExchangeInv, PairInv, Local
<1>2. /\ chip' = [chip EXCEPT ![n] = chip'[n]] /\ chip'[n] # "armed"
      /\ seq' = [seq EXCEPT ![n] = seq'[n]]
      /\ poll_rx' = [poll_rx EXCEPT ![n] = poll_rx'[n]]
      /\ mixed' = [mixed EXCEPT ![n] = mixed'[n]]
      /\ range' = [range EXCEPT ![n] = range'[n]]
  BY DEF Sound, TypeOK
<1>3. txbuf' = [txbuf EXCEPT ![n] = txbuf'[n]] /\ Gap(txbuf'[n])
  BY DEF Sound, TypeOK
<1> QED
  BY <1>1, <1>2, <1>3, Ends

LEMMA SendRespStep ==
  ASSUME Sound, NEW n \in Node, SendResp(n)
  PROVE  ExchangeInv'
<1> DEFINE f == Header("twr_2_resp", rxbuf[n].seq + 1, n, rxbuf[n].src)
           t == Grid((poll_rx[n] + RespDelay) % Period)
<1>1. f \in Frame /\ f.src = n /\ IsResp(f, n, rxbuf[n].src, rxbuf[n].seq)
  <2>1. rxbuf[n].src \in Node /\ rxbuf[n].seq + 1 \in Nat
    BY DEF Sound, TypeOK, Frame
  <2> QED
    BY <2>1, HeaderType DEF Ids, Header, IsResp
<1>2. PICK late \in BOOLEAN :
        /\ SendAt(n, f, t, TRUE, late)
        /\ Goto(n, IF late THEN "idle" ELSE "r_sent")
  BY DEF SendResp
<1>3. /\ pc[n] = "r_resp"
      /\ UNCHANGED <<now, left, peer, seq, mixed, range, air, tx_stamp, rx_stamp,
                     rxbuf, poll_rx, status>>
  BY DEF SendResp, rxVars
<1>4. Unread' = Unread
  BY <1>3 DEF Unread
<1>5. txbuf' = [txbuf EXCEPT ![n] = f] /\ dx' = [dx EXCEPT ![n] = t]
  BY <1>2 DEF SendAt
<1> HIDE DEF f
<1>6. CASE late
  <2>1. /\ pc' = [pc EXCEPT ![n] = "idle"]
        /\ chip' = [chip EXCEPT ![n] = "off"]
    BY <1>2, <1>6 DEF Goto, SendAt
  <2>2. Gap(f)
    BY <1>1 DEF Gap, IsResp
  <2>3. dx' = [dx EXCEPT ![n] = dx'[n]]
    BY <1>5 DEF Sound, TypeOK
  <2> QED
    BY <1>1, <1>3, <1>4, <1>5, <2>1, <2>2, <2>3, TooLate
<1>7. CASE ~late
  <2>1. /\ pc' = [pc EXCEPT ![n] = "r_sent"]
        /\ chip' = [chip EXCEPT ![n] = "armed"]
    BY <1>2, <1>7 DEF Goto, SendAt
  <2> QED
    BY <1>1, <1>3, <1>4, <1>5, <2>1, Responds
<1> QED
  BY <1>6, <1>7

\* The reply time in the final frame is the delay that was programmed.
LEMMA FinalGap ==
  ASSUME DelaysFit, TypeOK, NEW n \in Node
  PROVE  Gap(FinalFrame(n))
<1> DEFINE x == FinalTime(n) + AntAssumed
           y == rx_stamp[n]
<1>1. /\ FinalTime(n) \in Int /\ rx_stamp[n] \in Stamp /\ rx_stamp[n] \in Int
      /\ AntDelay \in Nat /\ AntAssumed \in Nat /\ FinalDelay \in Nat
      /\ Flight \in Nat /\ Grain \in Nat /\ Period32 \in Nat
  BY FinalTimeType, ConstantTypes DEF TypeOK, Stamp
<1>2. PICK g \in 0 .. Grain - 1 : \A a \in Nat :
        Grain <= FinalDelay + a + 1 /\ FinalDelay + a < Period32 =>
          Trunc(FinalTime(n) + a - rx_stamp[n]) = FinalDelay - g + a
  BY <1>1, ReplyTime DEF FinalTime
<1>3. Trunc(x - y) = FinalDelay - g + AntAssumed
  BY <1>1, <1>2 DEF DelaysFit
<1>4. /\ FinalFrame(n).final_tx = Trunc(x)
      /\ FinalFrame(n).resp_rx = Trunc(y)
  BY DEF FinalFrame, Header, FinalStamp
<1>5. x \in Int /\ y \in Int
  BY <1>1
<1> HIDE DEF x, y
<1>6. Diff(Trunc(x), Trunc(y)) = Trunc(x - y)
  BY <1>5, DiffOfTruncs
<1>7. FinalDelay - g + AntAssumed + Long = FinalDelay - g + AntDelay
  BY <1>1 DEF Long
<1> QED
  BY <1>1, <1>3, <1>4, <1>6, <1>7 DEF Gap, DelaysFit

LEMMA SendFinalStep ==
  ASSUME DelaysFit, Sound, NEW n \in Node, SendFinal(n)
  PROVE  ExchangeInv'
<1> DEFINE f == FinalFrame(n)
<1>1. /\ f \in Frame /\ f.id = "twr_3_final" /\ f.src = n /\ f.dst = peer[n]
      /\ f.seq = seq[n] /\ f.mixed = mixed[n]
      /\ f.poll_tx = Trunc(tx_stamp[n]) /\ f.resp_rx = Trunc(rx_stamp[n])
  BY FinalFrameType DEF Sound, FinalFrame, Header
<1>2. Gap(f)
  BY FinalGap DEF Sound
<1>3. PICK late \in BOOLEAN :
        /\ SendAt(n, f, FinalTime(n), FALSE, late)
        /\ Goto(n, IF late THEN "idle" ELSE "i_sent")
  BY DEF SendFinal
<1>4. /\ pc[n] = "i_final"
      /\ UNCHANGED <<now, left, peer, seq, mixed, range, air, tx_stamp, rx_stamp,
                     rxbuf, poll_rx, status>>
  BY DEF SendFinal, rxVars
<1>5. Unread' = Unread
  BY <1>4 DEF Unread
<1>6. /\ txbuf' = [txbuf EXCEPT ![n] = f]
      /\ dx' = [dx EXCEPT ![n] = FinalTime(n)]
  BY <1>3 DEF SendAt
<1>7. dx' = [dx EXCEPT ![n] = dx'[n]]
  BY <1>6 DEF Sound, TypeOK
<1> HIDE DEF f
<1>8. CASE late
  <2>1. /\ pc' = [pc EXCEPT ![n] = "idle"]
        /\ chip' = [chip EXCEPT ![n] = "off"]
    BY <1>3, <1>8 DEF Goto, SendAt
  <2> QED
    BY <1>1, <1>2, <1>4, <1>5, <1>6, <1>7, <2>1, TooLate
<1>9. CASE ~late
  <2>1. /\ pc' = [pc EXCEPT ![n] = "i_sent"]
        /\ chip' = [chip EXCEPT ![n] = "armed"]
    BY <1>3, <1>9 DEF Goto, SendAt
  <2>2. \A k \in Node : /\ poll_rx[k] \in Int /\ tx_stamp[k] \in Int
                        /\ rx_stamp[k] \in Int
    BY DEF Sound, TypeOK, Stamp
  <2>3. Carries(n, f)
    <3> SUFFICES ASSUME NEW k \in Node
                 PROVE  /\ Sync(f.poll_tx, n, poll_rx[k], k)
                             <=> Sync(tx_stamp[n], n, poll_rx[k], k)
                        /\ Sync(tx_stamp[k], k, f.resp_rx, n)
                             <=> Sync(tx_stamp[k], k, rx_stamp[n], n)
      BY DEF Carries
    <3>1. Sync(Trunc(tx_stamp[n]), n, poll_rx[k], k)
            <=> Sync(tx_stamp[n], n, poll_rx[k], k)
      BY <2>2, SyncOfTruncs
    <3>2. Sync(tx_stamp[k], k, Trunc(rx_stamp[n]), n)
            <=> Sync(tx_stamp[k], k, rx_stamp[n], n)
      BY <2>2, SyncOfTruncs
    <3> QED
      BY <1>1, <3>1, <3>2
  <2> QED
    BY <1>1, <1>2, <1>4, <1>5, <1>6, <1>7, <2>1, <2>3, Finals
<1> QED
  BY <1>8, <1>9

LEMMA SentStep ==
  ASSUME Sound, NEW n \in Node, FinalSent(n) \/ RespSent(n)
  PROVE  ExchangeInv'
<1>1. /\ Sending(n) /\ "TXFRS" \in status[n]
      /\ status' = [status EXCEPT ![n] = @ \ {"TXFRS"}]
      /\ UNCHANGED <<now, left, peer, seq, mixed, range, air, tx_stamp, rx_stamp,
                     rxbuf, poll_rx, chip, dx, txbuf>>
  BY DEF FinalSent, RespSent, AwaitSent, Sending, rxVars, regVars
<1>2. Unread' = Unread
  BY <1>1 DEF Unread, RxGood, Sound, TypeOK
<1>3. chip[n] # "armed"
  BY <1>1 DEF Sound, DriverInv, NodeInv
<1>4. CASE FinalSent(n)
  <2>1. pc[n] = "i_sent" /\ pc' = [pc EXCEPT ![n] = "idle"]
    BY <1>4 DEF FinalSent, Goto
  <2>2. range[n] = {} /\ Gap(txbuf[n])
    BY <2>1 DEF Sound, ExchangeInv, PairInv, Local, Travel
  <2>3. /\ chip' = [chip EXCEPT ![n] = chip'[n]] /\ dx' = [dx EXCEPT ![n] = dx'[n]]
        /\ txbuf' = [txbuf EXCEPT ![n] = txbuf'[n]]
        /\ range' = [range EXCEPT ![n] = range'[n]]
        /\ seq' = [seq EXCEPT ![n] = seq'[n]]
        /\ poll_rx' = [poll_rx EXCEPT ![n] = poll_rx'[n]]
        /\ mixed' = [mixed EXCEPT ![n] = mixed'[n]]
    BY <1>1 DEF Sound, TypeOK
  <2> QED
    BY <1>1, <1>2, <1>3, <2>1, <2>2, <2>3, Ends
<1>5. CASE RespSent(n)
  <2>1. pc[n] = "r_sent" /\ pc' = [pc EXCEPT ![n] = "r_final"]
    BY <1>5 DEF RespSent, Goto
  <2> QED
    BY <1>1, <1>2, <1>3, <2>1, AfterResp
<1> QED
  BY <1>4, <1>5

\* What r_range has at hand is of one exchange, and gives the time of flight.
LEMMA ComputeStep ==
  ASSUME DelaysFit, Sound, NEW n \in Node, Compute(n)
  PROVE  ExchangeInv'
<1> DEFINE f  == rxbuf[n]
           ra == Diff(f.resp_rx, f.poll_tx)
           rb == Diff(Trunc(rx_stamp[n]), Trunc(tx_stamp[n]))
           da == Diff(f.final_tx, f.resp_rx)
           db == Diff(Trunc(tx_stamp[n]), Trunc(poll_rx[n]))
<1>1. /\ pc[n] = "r_range" /\ pc' = [pc EXCEPT ![n] = "idle"]
      /\ \E tof \in Tof(ra, rb, da, db) : range' = [range EXCEPT ![n] = {tof}]
      /\ UNCHANGED <<now, air, tx_stamp, rx_stamp, rxbuf, peer, left, chip, status,
                     dx, txbuf, seq, poll_rx, mixed>>
  BY DEF Compute, Goto, chipVars, rxVars, regVars
<1>2. Unread' = Unread /\ chip'[n] # "armed"
  BY <1>1, Reads DEF Unread, Sound
<1>3. /\ chip' = [chip EXCEPT ![n] = chip'[n]] /\ dx' = [dx EXCEPT ![n] = dx'[n]]
      /\ txbuf' = [txbuf EXCEPT ![n] = txbuf'[n]]
      /\ range' = [range EXCEPT ![n] = range'[n]]
      /\ seq' = [seq EXCEPT ![n] = seq'[n]]
      /\ poll_rx' = [poll_rx EXCEPT ![n] = poll_rx'[n]]
      /\ mixed' = [mixed EXCEPT ![n] = mixed'[n]]
  BY <1>1 DEF Sound, TypeOK
<1>4. Gap(txbuf[n]) /\ Gap(f)
  BY DEF Sound, ExchangeInv, Travel
<1>5. ASSUME ~mixed[n] PROVE Tof(ra, rb, da, db) \subseteq NearFlight
  <2> DEFINE a == peer[n]
             s == seq[n]
             p == f.poll_tx
             u == f.resp_rx
             v == f.final_tx
             q == poll_rx[n]
             t == tx_stamp[n]
             w == rx_stamp[n]
  <2>1. /\ a \in Node /\ s \in Nat /\ q \in Stamp
        /\ q \in Int /\ t \in Int /\ w \in Int
    BY DEF Sound, TypeOK, Stamp
  <2>2. p \in Int /\ u \in Int /\ v \in Int
    BY DEF Sound, TypeOK, Frame, Word
  <2>3. PairInv(a, n, s) /\ Local(n)
    BY <2>1 DEF Sound, ExchangeInv, PairInv
  <2>4. chip[n] # "armed"
    BY <1>1, <1>2
  <2>5. /\ IsFinal(f, a, n, s)
        /\ t = (Grid((q + RespDelay) % Period) + AntDelay) % Period
    BY <1>1, <1>5, <2>3, <2>4 DEF Local
  <2>6. Holds(n) /\ Serving(n, a, s) /\ Answered(n, a, s)
    BY <1>1, <2>4 DEF Holds, Serving, Answered
  <2>7. Sync(p, a, q, n)
    BY <2>3, <2>5, <2>6 DEF PairInv, PollMeasured
  <2>8. Sync(t, n, u, a)
    BY <2>3, <2>5, <2>6 DEF PairInv, RespMeasured
  <2>9. Sync(v + Long, a, w, n)
    BY <2>5 DEF Sound, ExchangeInv, Travel, IsFinal
  <2>10. da + Long >= 0 /\ da + Long + 2 * Flight < Period32
    BY <1>4, <2>5 DEF Gap, IsFinal
  <2> HIDE DEF a, s, p, u, v, q, t, w
  <2>11. Trunc(t - q) + 2 * Flight < Period32
    <3> DEFINE g == Grid((q + RespDelay) % Period)
    <3>1. g \in Int /\ AntDelay \in Nat /\ RespDelay \in Nat
      <4>1. (q + RespDelay) % Period \in Stamp
        BY <2>1, StampPlus, ConstantTypes
      <4> QED
        BY <4>1, GridType, ConstantTypes DEF Stamp
    <3>2. Trunc(g + AntDelay - q) + 2 * Flight < Period32
      <4>1. PICK h \in 0 .. Grain - 1 : \A x \in Nat :
              Grain <= RespDelay + x + 1 /\ RespDelay + x < Period32 =>
                Trunc(g + x - q) = RespDelay - h + x
        BY <2>1, <3>1, ReplyTime
      <4>2. Trunc(g + AntDelay - q) = RespDelay - h + AntDelay
        BY <3>1, <4>1, ConstantTypes DEF DelaysFit
      <4> QED
        BY <3>1, <4>2, ConstantTypes DEF DelaysFit
    <3> HIDE DEF g
    <3>3. t = (g + AntDelay) % Period
      BY <2>5 DEF g
    <3>4. Trunc(t) = Trunc(g + AntDelay)
      BY <3>1, <3>3, TruncWraps
    <3>5. g + AntDelay \in Int /\ -q \in Int
      BY <2>1, <3>1
    <3>6. Trunc(t + (-q)) = Trunc(g + AntDelay + (-q))
      BY <2>1, <3>4, <3>5, TruncShift
    <3>7. t + (-q) = t - q /\ g + AntDelay + (-q) = g + AntDelay - q
      BY <2>1, <3>1
    <3> QED
      BY <3>2, <3>6, <3>7
  <2>12. /\ Diff(u, p) = Trunc(u - p)
         /\ Diff(Trunc(w), Trunc(t)) = Trunc(w - t)
         /\ Diff(v, u) = Trunc(v - u)
         /\ Diff(Trunc(t), Trunc(q)) = Trunc(t - q)
    BY <2>1, <2>2, DiffOfTruncs
  <2>13. /\ ra = Trunc(u - p) /\ rb = Trunc(w - t)
         /\ da = Trunc(v - u) /\ db = Trunc(t - q)
    BY <2>12 DEF p, q, t, u, v, w
  <2> HIDE DEF ra, rb, da, db
  <2>14. ra = 2 * Flight + db
    <3>1. Trunc(u - p) = Trunc(t - q) + 2 * Flight
      BY <2>1, <2>2, <2>7, <2>8, <2>11, RoundTrip
    <3> QED
      BY <2>13, <3>1, <2>1, TruncInRange, ConstantTypes
  <2>15. Long \in Int /\ v + Long \in Int /\ Flight \in Nat \ {0}
    BY <2>2, ConstantTypes DEF Long
  <2>16. da \in Nat /\ db \in Nat
    BY <2>1, <2>2, <2>13, TruncInRange, ConstantTypes
  <2>17. Trunc(v + Long - u) = da + Long
    <3>1. v - u \in Int /\ v + Long - u = v - u + Long
      BY <2>2, <2>15
    <3>2. Trunc(Trunc(v - u) + Long) = Trunc(v - u + Long)
      BY <2>15, <3>1, TruncSum
    <3>3. da + Long \in 0 .. Period32 - 1
      BY <2>10, <2>15, <2>16, ConstantTypes
    <3> QED
      BY <2>13, <3>1, <3>2, <3>3, TruncIsSmall
  <2>18. rb = 2 * Flight + da + Long
    <3>1. Trunc(v + Long - u) + 2 * Flight < Period32
      BY <2>10, <2>17
    <3>2. Trunc(w - t) = Trunc(v + Long - u) + 2 * Flight
      BY <2>1, <2>2, <2>8, <2>9, <2>15, <3>1, RoundTrip
    <3> QED
      BY <2>13, <2>15, <2>16, <2>17, <3>2
  <2>19. ASSUME NEW r \in Tof(ra, rb, da, db) PROVE r \in NearFlight
    <3>1. r \in Tof(2 * Flight + db, 2 * Flight + da + Long, da, db)
      BY <2>14, <2>18, <2>19
    <3>2. /\ r \in Int
          /\ 2 * (r - Flight) \in IF Long >= 0 THEN 0 .. Long ELSE Long - 1 .. 0
      BY <2>10, <2>15, <2>16, <3>1, FormulaIsClose
    <3> QED
      BY <3>2 DEF NearFlight, Long
  <2> QED
    BY <2>19
<1> HIDE DEF ra, rb, da, db, f
<1>6. ~mixed'[n] => range'[n] \subseteq NearFlight
  BY <1>1, <1>5 DEF Sound, TypeOK
<1>7. pc[n] # "idle" /\ Gap(txbuf'[n])
  BY <1>1, <1>4
<1> QED
  BY <1>1, <1>2, <1>3, <1>6, <1>7, Ends

(***************************************************************************)
(* Steps of the chips, of the medium and of time                           *)
(***************************************************************************)

LEMMA DepartStep ==
  ASSUME Sound, NEW n \in Node, Depart(n)
  PROVE  ExchangeInv'
<1> DEFINE st == (Own(n) + AntDelay) % Period
           x0 == [frame |-> txbuf[n], from |-> n, left |-> AntDelay + Flight,
                  stamp |-> Trunc(st)]
<1>1. /\ chip[n] = "armed" /\ dx[n] = Own(n)
      /\ tx_stamp' = [tx_stamp EXCEPT ![n] = st]
      /\ air' = air \cup {x0}
      /\ chip' = [chip EXCEPT ![n] = IF w4r[n] THEN "turning" ELSE "off"]
      /\ status' = [status EXCEPT ![n] = @ \cup {"TXFRS"}]
      /\ UNCHANGED <<now, pc, left, peer, seq, mixed, range, txbuf, dx, rx_stamp,
                     rxbuf, poll_rx>>
  BY DEF Depart, SendDue, progVars, rxVars, regVars
<1>2. chip' = [chip EXCEPT ![n] = chip'[n]] /\ chip'[n] # "armed"
  BY <1>1 DEF Sound, TypeOK
<1>3. Unread' = Unread
  BY <1>1 DEF Unread, RxGood, Sound, TypeOK
<1>4. Own(n) \in Stamp /\ Own(n) \in Int /\ now + Offset[n] \in Int
  BY OwnType, ConstantTypes DEF Sound, TypeOK, Stamp
<1>5. st \in Stamp
  BY <1>4, StampPlus, ConstantTypes
<1>6. st = (dx[n] + AntDelay) % Period
  BY <1>1
<1>7. Trunc(st) = Trunc(now + Offset[n] + x0.left - Flight)
  <2>1. Trunc(st) = Trunc(Own(n) + AntDelay)
    BY <1>4, ConstantTypes, TruncWraps
  <2>2. Trunc(Own(n)) = Trunc(now + Offset[n])
    BY <1>4, TruncWraps DEF Own
  <2>3. Trunc(Own(n) + AntDelay) = Trunc(now + Offset[n] + AntDelay)
    BY <1>4, <2>2, ConstantTypes, TruncShift
  <2>4. now + Offset[n] + x0.left - Flight = now + Offset[n] + AntDelay
    BY <1>4, ConstantTypes
  <2> QED
    BY <2>1, <2>3, <2>4
<1>8. /\ x0.frame = txbuf[n] /\ x0.from = n /\ x0.stamp = Trunc(st)
  OBVIOUS
<1> HIDE DEF x0, st
<1> QED
  BY <1>1, <1>2, <1>3, <1>5, <1>6, <1>7, <1>8, Departs

LEMMA ReceiverStep ==
  ASSUME Sound, NEW n \in Node, TurnOn(n) \/ GiveUp(n)
  PROVE  ExchangeInv'
<1>1. /\ chip[n] # "armed"
      /\ chip' = [chip EXCEPT ![n] = chip'[n]] /\ chip'[n] # "armed"
      /\ UNCHANGED <<now, pc, left, peer, seq, mixed, range, air, txbuf, dx, tx_stamp,
                     rx_stamp, rxbuf, poll_rx>>
  BY DEF TurnOn, GiveUp, TurnDue, GiveUpDue, progVars, rxVars, regVars, Sound, TypeOK
<1>2. Unread' = Unread
  <2>1. \A m \in Node : RxGood \in status'[m] <=> RxGood \in status[m]
    <3>1. CASE TurnOn(n)
      BY <3>1 DEF TurnOn
    <3>2. CASE GiveUp(n)
      BY <3>2 DEF GiveUp, RxGood, Sound, TypeOK
    <3> QED
      BY <3>1, <3>2
  <2> QED
    BY <2>1 DEF Unread
<1> QED
  BY <1>1, <1>2, Turns

\* A frame that arrives left one time of flight ago.
LEMMA FlightSync ==
  ASSUME Sound, NEW x \in air, x.left = 0, NEW k \in Node, NEW t \in Int,
         x.stamp = Trunc(t)
  PROVE  Sync(t, x.from, Own(k), k)
<1> DEFINE m == x.from
<1>1. m \in Node /\ x.stamp = Trunc(now + Offset[m] + x.left - Flight)
  BY DEF Sound, TypeOK, ExchangeInv, Travel
<1>2. /\ now \in Int /\ Offset[m] \in Int /\ Offset[k] \in Int /\ Flight \in Int
      /\ now + Offset[k] \in Int /\ Own(k) \in Int
  BY <1>1, OwnType, ConstantTypes DEF Sound, TypeOK, Stamp
<1> HIDE DEF m
<1>3. Trunc(t) = Trunc(now + Offset[m] - Flight)
  <2>1. now + Offset[m] + x.left - Flight = now + Offset[m] - Flight
    BY <1>2
  <2> QED
    BY <1>1, <2>1
<1>4. Trunc(t + Flight + Offset[k]) = Trunc(now + Offset[k] + Offset[m])
  <2> DEFINE y == now + Offset[m] - Flight
             z == Flight + Offset[k]
  <2>1. y \in Int /\ z \in Int
    BY <1>2
  <2>2. y + z = now + Offset[k] + Offset[m] /\ t + z = t + Flight + Offset[k]
    BY <1>2
  <2>3. Trunc(t) = Trunc(y)
    BY <1>3
  <2> HIDE DEF y, z
  <2>4. Trunc(t + z) = Trunc(y + z)
    BY <2>1, <2>3, TruncShift
  <2> QED
    BY <2>2, <2>4
<1>5. Trunc(Own(k) + Offset[m]) = Trunc(now + Offset[k] + Offset[m])
  <2> DEFINE x0 == Own(k)
             y0 == now + Offset[k]
  <2>1. x0 \in Int /\ y0 \in Int /\ Offset[m] \in Int
    BY <1>2
  <2>2. Trunc(x0) = Trunc(y0)
    BY <1>2, TruncWraps DEF Own
  <2> HIDE DEF x0, y0
  <2>3. Trunc(x0 + Offset[m]) = Trunc(y0 + Offset[m])
    BY ONLY <2>1, <2>2, TruncShift
  <2> QED
    BY <2>3 DEF x0, y0
<1> QED
  BY <1>4, <1>5 DEF Sync, m

LEMMA ArriveStep ==
  ASSUME Sound, NEW x0 \in air, Arrive(x0)
  PROVE  ExchangeInv'
<1>1. PICK heard \in [Listening(x0) -> {"good", "error", "missed"}] :
        /\ status' = [k \in Node |-> status[k]
              \cup (IF k \in Listening(x0) /\ heard[k] = "good" THEN {RxGood} ELSE {})
              \cup (IF k \in Listening(x0) /\ heard[k] = "error"
                    THEN {"RXERR"} ELSE {})]
        /\ chip' = [k \in Node |->
              IF \/ k \in Listening(x0) /\ heard[k] = "good"
                 \/ k \in Listening(x0) /\ heard[k] = "error"
              THEN "off" ELSE chip[k]]
        /\ rxbuf' = [k \in Node |->
              IF k \in Listening(x0) /\ heard[k] = "good" THEN x0.frame ELSE rxbuf[k]]
        /\ rx_stamp' = [k \in Node |->
              IF k \in Listening(x0) /\ heard[k] = "good"
              THEN Own(k) ELSE rx_stamp[k]]
  BY DEF Arrive
<1>2. \A k \in Node : k \in Listening(x0) <=> chip[k] = "on" /\ k # x0.from
  BY DEF Listening
<1>3. /\ x0.left = 0 /\ air' = air \ {x0}
      /\ UNCHANGED <<now, pc, left, peer, seq, mixed, range, txbuf, dx, tx_stamp,
                     poll_rx>>
  BY DEF Arrive, progVars, regVars
<1>4. ASSUME NEW k \in Node, k \in Listening(x0)
      PROVE  /\ chip[k] = "on" /\ k \notin Unread
             /\ pc[k] \in {"i_resp", "q_ping", "r_poll", "r_final", "r_sent"}
  <2>1. chip[k] = "on"
    BY <1>2, <1>4
  <2> QED
    BY <2>1 DEF Sound, DriverInv, NodeInv, Hears, Waiting, Polling, RxBits, Unread
<1>5. \A k \in Node : k \in Gained <=> k \in Listening(x0) /\ heard[k] = "good"
  <2>1. ASSUME NEW k \in Node
        PROVE  k \in Unread' <=> \/ k \in Unread
                                 \/ k \in Listening(x0) /\ heard[k] = "good"
    BY <1>1 DEF Unread, RxGood
  <2> QED
    BY <1>4, <2>1 DEF Gained
<1>6. /\ rxbuf' = [k \in Node |-> IF k \in Gained THEN x0.frame ELSE rxbuf[k]]
      /\ rx_stamp' = [k \in Node |-> IF k \in Gained THEN Own(k) ELSE rx_stamp[k]]
  BY <1>1, <1>5
<1>7. /\ Unread' = Unread \cup Gained
      /\ \A k \in Gained :
           /\ chip[k] = "on" /\ k \notin Unread
           /\ pc[k] \in {"i_resp", "q_ping", "r_poll", "r_final", "r_sent"}
      /\ \A k \in Node :
           chip'[k] = chip[k] \/ (chip[k] # "armed" /\ chip'[k] # "armed")
  <2>1. Gained \subseteq Node
    BY DEF Gained, Unread
  <2>2. Unread' = Unread \cup Gained
    <3>1. ASSUME NEW k \in Unread PROVE k \in Unread'
      BY <1>1 DEF Unread
    <3> QED
      BY <3>1 DEF Gained
  <2>3. ASSUME NEW k \in Node
        PROVE  chip'[k] = chip[k] \/ (chip[k] # "armed" /\ chip'[k] # "armed")
    <3>1. \/ chip'[k] = chip[k]
          \/ chip'[k] = "off" /\ k \in Listening(x0)
      BY <1>1
    <3> QED
      BY <1>4, <3>1
  <2> QED
    BY <1>4, <1>5, <2>1, <2>2, <2>3
<1>8. \A k \in Gained : \A t \in Stamp :
        x0.stamp = Trunc(t) => Sync(t, x0.from, Own(k), k)
  <2> SUFFICES ASSUME NEW k \in Gained, NEW t \in Stamp, x0.stamp = Trunc(t)
               PROVE  Sync(t, x0.from, Own(k), k)
    OBVIOUS
  <2>1. k \in Node /\ t \in Int
    BY DEF Gained, Unread, Stamp
  <2> QED
    BY <1>3, <2>1, FlightSync
<1>9. \A k \in Gained : x0.frame.id = "twr_3_final" =>
        Sync(x0.frame.final_tx + Long, x0.from, Own(k), k)
  <2> SUFFICES ASSUME NEW k \in Gained, x0.frame.id = "twr_3_final"
               PROVE  Sync(x0.frame.final_tx + Long, x0.from, Own(k), k)
    OBVIOUS
  <2> DEFINE v == x0.frame.final_tx
             y == x0.stamp
  <2>1. /\ v = Trunc(y + AntAssumed - AntDelay)
        /\ v \in Int /\ y \in 0 .. Period32 - 1 /\ y \in Int
    BY DEF Sound, StampInv, FinalStampOff, TypeOK, Frame, Word
  <2>2. k \in Node /\ Long \in Int /\ y - Long \in Int /\ v + Long \in Int
    BY <2>1, ConstantTypes DEF Gained, Unread, Long
  <2> HIDE DEF v, y
  <2>3. y + AntAssumed - AntDelay = y - Long /\ y - Long + Long = y
    BY <2>1, ConstantTypes DEF Long
  <2>4. Trunc(v + Long) = Trunc(y - Long + Long)
    BY <2>1, <2>2, <2>3, TruncSum
  <2>5. y = Trunc(v + Long)
    BY <2>1, <2>3, <2>4, TruncIsSmall
  <2> QED
    BY <1>3, <2>2, <2>5, FlightSync DEF v, y
<1> QED
  BY <1>3, <1>6, <1>7, <1>8, <1>9, Arrives

LEMMA TickStep ==
  ASSUME Sound, Tick
  PROVE  ExchangeInv'
<1> DEFINE Rec == [frame : Frame, from : Node, left : Nat, stamp : Word]
<1>1. /\ now' = (now + 1) % Period
      /\ air' = {[x EXCEPT !.left = @ - 1] : x \in air}
      /\ UNCHANGED <<pc, left, peer, seq, mixed, range, txbuf, dx, tx_stamp, rx_stamp,
                     rxbuf, poll_rx, chip, status>>
  BY DEF Tick, rxVars, regVars
<1>2. Unread' = Unread
  BY <1>1 DEF Unread
<1>3. air \subseteq Rec /\ now \in Int
  BY DEF Sound, TypeOK, Stamp
<1>4. ASSUME NEW y \in air'
      PROVE  /\ Older(y) \in air
             /\ y.frame = Older(y).frame /\ y.stamp = Older(y).stamp
             /\ y.from = Older(y).from /\ y.from \in Node
             /\ y.left = Older(y).left - 1
             /\ Older(y).left \in Nat /\ y = [Older(y) EXCEPT !.left = @ - 1]
  <2>1. PICK x \in air : y = [x EXCEPT !.left = @ - 1]
    BY <1>1
  <2>2. x \in Rec
    BY <1>3
  <2>3. [y EXCEPT !.left = @ + 1] = x
    <3>1. /\ x = [frame |-> x.frame, from |-> x.from, left |-> x.left,
                 stamp |-> x.stamp]
          /\ x.left \in Nat
      BY <2>2
    <3>2. y = [frame |-> x.frame, from |-> x.from, left |-> x.left - 1,
               stamp |-> x.stamp]
      BY <2>1, <3>1
    <3>3. [y EXCEPT !.left = @ + 1] = [frame |-> x.frame, from |-> x.from,
             left |-> (x.left - 1) + 1, stamp |-> x.stamp]
      BY <3>2
    <3> QED
      BY <3>1, <3>3
  <2>4. Older(y) = x
    BY <2>3 DEF Older
  <2> QED
    BY <2>1, <2>2, <2>4
<1> HIDE DEF Rec
<1>a. \A y \in air' : /\ Older(y) \in air /\ y.frame = Older(y).frame
                         /\ y.stamp = Older(y).stamp /\ y.from = Older(y).from
  BY <1>4
<1>5. \A y, z \in air' : Older(y) = Older(z) => y = z
  BY <1>4
<1>6. \A y \in air' : Trunc(now' + Offset[y.from] + y.left - Flight) =
                      Trunc(now + Offset[y.from] + Older(y).left - Flight)
  <2> SUFFICES ASSUME NEW y \in air'
               PROVE  Trunc(now' + Offset[y.from] + y.left - Flight) =
                      Trunc(now + Offset[y.from] + Older(y).left - Flight)
    OBVIOUS
  <2> DEFINE z == Offset[y.from] + y.left - Flight
  <2>1. /\ Offset[y.from] \in Int /\ Flight \in Int /\ Older(y).left \in Int
        /\ y.left = Older(y).left - 1
    BY <1>4, ConstantTypes DEF Stamp
  <2>2. now + 1 \in Int /\ now' \in Int
    BY <1>1, <1>3, ConstantTypes, ModuloInRange
  <2>3. Trunc(now') = Trunc(now + 1)
    BY <1>1, <2>2, TruncWraps
  <2>4. z \in Int
    BY <2>1
  <2>5. /\ now' + z = now' + Offset[y.from] + y.left - Flight
        /\ now + 1 + z = now + Offset[y.from] + Older(y).left - Flight
    BY <1>3, <2>1, <2>2
  <2> HIDE DEF z
  <2>6. Trunc(now' + z) = Trunc(now + 1 + z)
    BY <2>2, <2>3, <2>4, TruncShift
  <2> QED
    BY <2>5, <2>6
<1> QED
  BY <1>1, <1>2, <1>a, <1>5, <1>6, Time

LEMMA ExchangeStep ==
  ASSUME DelaysFit, Sound, [Next]_vars
  PROVE  ExchangeInv'
<1>1. ASSUME NEW n \in Node, Program(n) PROVE ExchangeInv'
  BY <1>1, SendPingStep, ReceivePingStep, SendPollStep, ReceiveRespStep,
     SendFinalStep, ReceivePollStep, SendRespStep, SentStep, ReceiveFinalStep,
     ComputeStep DEF Program
<1>2. ASSUME NEW n \in Node, Chip(n) PROVE ExchangeInv'
  BY <1>2, DepartStep, ReceiverStep DEF Chip
<1>3. CASE UNCHANGED vars
  <2>1. UNCHANGED <<now, pc, left, peer, seq, mixed, range, air, txbuf, dx, tx_stamp,
                    rx_stamp, rxbuf, poll_rx, chip, status>>
    BY <1>3 DEF vars, progVars, chipVars, rxVars, regVars
  <2>2. ExchangeInv
    BY DEF Sound
  <2>3. Travel'
    BY <2>1, <2>2 DEF ExchangeInv, Travel, Gap, Sync
  <2>4. ASSUME NEW a \in Node, NEW b \in Node, NEW s \in Nat PROVE PairInv(a, b, s)'
    <3>1. PairInv(a, b, s) /\ Unread' = Unread
      BY <2>1, <2>2 DEF ExchangeInv, Unread
    <3> USE <2>1, <3>1
        DEF PairInv, IsPoll, IsResp, IsFinal, Holds, InCall, Serving, Answered, Accepted
    <3>2. Once(a)' /\ Local(a)'
      BY DEF Once, Local
    <3>3. Ordered(b, a, s)'
      BY DEF Ordered, Fresh, Pending, Past
    <3>4. PollMeasured(b, a, s)' /\ RespMeasured(b, a, s)'
      BY DEF PollMeasured, RespMeasured, Sync
    <3> QED
      BY <3>2, <3>3, <3>4
  <2> QED
    BY <2>3, <2>4 DEF ExchangeInv
<1> QED
  BY <1>1, <1>2, <1>3, CallStep, ArriveStep, TickStep DEF Next, Medium

\* mesh_twr.cc:95-120: a range is the time of flight, but for what the wrong
\* antenna delay adds (at most 7 units of 15.65 ps with 16436 for 16450),
\* whatever happened before, however slow the programs were and wherever the
\* counters wrapped, unless a frame of another exchange was taken.
THEOREM RangesAreTrue ==
  ASSUME DelaysFit
  PROVE  Spec => []RangeIsFlightTime
<1>1. Init => Sound
  BY TypeInit, DriverInit, StampInit, ExchangeInit DEF Sound
<1>2. Sound /\ [Next]_vars => Sound'
  BY TypeStep, DriverStep, StampStep, ExchangeStep DEF Sound
<1>3. Sound => RangeIsFlightTime
  <2> SUFFICES ASSUME Sound, NEW n \in Node, ~mixed[n]
               PROVE  range[n] \subseteq NearFlight
    BY DEF RangeIsFlightTime
  <2>1. PairInv(n, n, 0)
    BY DEF Sound, ExchangeInv
  <2> QED
    BY <2>1 DEF PairInv, Local
<1> QED
  BY <1>1, <1>2, <1>3, PTL DEF Spec

==============================================================================

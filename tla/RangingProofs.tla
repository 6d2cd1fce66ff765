---------------------------- MODULE RangingProofs ----------------------------
(***************************************************************************)
(* Theorems about Ranging, for any number of nodes, any calls, any delays  *)
(* and counter sizes within RangingAssumption.                             *)
(***************************************************************************)
EXTENDS Ranging, TLAPS

(***************************************************************************)
(* Counters                                                                *)
(***************************************************************************)

LEMMA ConstantTypes ==
  /\ RxAfterPoll \in Nat /\ RespDelay \in Nat /\ RxAfterResp \in Nat
  /\ FinalDelay \in Nat /\ BusyWait \in Nat /\ MaxLag \in Nat
  /\ AntAssumed \in Nat /\ AntDelay \in Nat
  /\ Timeout \in Nat \ {0} /\ Flight \in Nat \ {0} /\ Grain \in Nat \ {0}
  /\ Period \in Nat \ {0} /\ Period32 \in Nat \ {0}
  /\ Offset \in [Node -> Stamp] /\ Budget \in [Node -> Nat]
  BY RangingAssumption

LEMMA ModuloInRange ==
  \A a \in Int, p \in Nat \ {0} : a % p \in 0 .. p - 1
  OBVIOUS

LEMMA ModuloSplit ==
  \A a \in Int, p \in Nat \ {0} :
    a \div p \in Int /\ a = p * (a \div p) + (a % p)
  OBVIOUS

LEMMA ModuloUnique ==
  \A p \in Nat \ {0}, q \in Int : \A r \in 0 .. p - 1 : (p * q + r) % p = r
  OBVIOUS

\* A 32-bit word is a whole part of the chip's counter: cutting a wrapped time
\* is cutting the time.
LEMMA TruncWraps ==
  ASSUME NEW a \in Int
  PROVE  Trunc(a % Period) = Trunc(a)
<1> USE RangingAssumption
<1>1. PICK k \in 1 .. Period : Period = k * Period32
  OBVIOUS
<1> DEFINE r == a % Period
           q == a \div Period
           s == r % Period32
           u == r \div Period32
<1>2. q \in Int /\ a = Period * q + r
  BY ModuloSplit
<1>3. r \in Int
  BY ModuloInRange
<1>4. u \in Int /\ r = Period32 * u + s
  BY <1>3, ModuloSplit
<1>5. s \in 0 .. Period32 - 1
  BY <1>3, ModuloInRange
<1> HIDE DEF r, q, s, u
<1>6. k * q + u \in Int
  BY <1>2, <1>4
<1>7. Period * q = Period32 * (k * q)
  BY <1>1, <1>2
<1>8. a = Period32 * (k * q + u) + s
  BY <1>2, <1>4, <1>5, <1>7
<1>9. a % Period32 = s
  BY <1>5, <1>6, <1>8, ModuloUnique
<1> QED
  BY <1>9 DEF Trunc, r, s

LEMMA TruncCongruent ==
  ASSUME NEW x \in Int, NEW y \in Int
  PROVE  Trunc(x) = Trunc(y) <=> \E k \in Int : x = y + Period32 * k
<1> USE ConstantTypes
<1> DEFINE qx == x \div Period32
           qy == y \div Period32
           rx == x % Period32
           ry == y % Period32
<1>1. /\ qx \in Int /\ x = Period32 * qx + rx
      /\ qy \in Int /\ y = Period32 * qy + ry
      /\ rx \in 0 .. Period32 - 1 /\ ry \in 0 .. Period32 - 1
  BY ModuloSplit, ModuloInRange
<1>2. Trunc(x) = rx /\ Trunc(y) = ry
  BY DEF Trunc
<1> HIDE DEF qx, qy
<1>3. ASSUME rx = ry PROVE \E k \in Int : x = y + Period32 * k
  <2>1. qx - qy \in Int /\ x = y + Period32 * (qx - qy)
    BY <1>1, <1>3
  <2> QED
    BY <2>1
<1>4. ASSUME NEW k \in Int, x = y + Period32 * k PROVE rx = ry
  <2>1. qy + k \in Int /\ x = Period32 * (qy + k) + ry
    BY <1>1, <1>4
  <2> QED
    BY <1>1, <2>1, ModuloUnique
<1> QED
  BY <1>2, <1>3, <1>4

LEMMA TruncInRange == \A x \in Int : Trunc(x) \in 0 .. Period32 - 1
  BY ConstantTypes, ModuloInRange DEF Trunc

LEMMA TruncIsSmall ==
  ASSUME NEW x \in 0 .. Period32 - 1
  PROVE  Trunc(x) = x
<1>1. x = Period32 * 0 + x
  BY ConstantTypes
<1>2. (Period32 * 0 + x) % Period32 = x
  BY ConstantTypes, ModuloUnique
<1> QED
  BY <1>1, <1>2 DEF Trunc

LEMMA TruncSum ==
  ASSUME NEW x \in Int, NEW y \in Int
  PROVE  Trunc(Trunc(x) + y) = Trunc(x + y)
<1>1. Trunc(x) \in Int
  BY TruncInRange
<1>2. Trunc(Trunc(x)) = Trunc(x)
  BY TruncInRange, TruncIsSmall
<1>3. PICK k \in Int : Trunc(x) = x + Period32 * k
  BY <1>1, <1>2, TruncCongruent
<1>4. Trunc(x) + y = (x + y) + Period32 * k
  BY <1>3, ConstantTypes
<1> QED
  BY <1>1, <1>4, TruncCongruent

LEMMA TruncShift ==
  ASSUME NEW x \in Int, NEW y \in Int, NEW z \in Int, Trunc(x) = Trunc(y)
  PROVE  Trunc(x + z) = Trunc(y + z)
<1>1. Trunc(Trunc(x) + z) = Trunc(x + z)
  BY TruncSum
<1>2. Trunc(Trunc(y) + z) = Trunc(y + z)
  BY TruncSum
<1> QED
  BY <1>1, <1>2

LEMMA GridType ==
  ASSUME NEW t \in Stamp
  PROVE  Grid(t) \in Stamp
<1> USE ConstantTypes
<1>1. t \in Nat /\ t <= Period - 1
  BY DEF Stamp
<1>2. t % Grain \in 0 .. Grain - 1
  BY <1>1, ModuloInRange
<1>3. t \div Grain \in Int /\ t = Grain * (t \div Grain) + (t % Grain)
  BY <1>1, ModuloSplit
<1>4. t \div Grain >= 0
  BY <1>1, <1>2, <1>3
<1>5. Grain * (t \div Grain) >= 0
  BY <1>3, <1>4
<1> QED
  BY <1>1, <1>2, <1>3, <1>5 DEF Grid, Stamp

(***************************************************************************)
(* The arithmetic of twr_respond (mesh_twr.cc:105-113)                     *)
(***************************************************************************)

\* Differences of 32-bit words are the elapsed times, wherever the counter
\* wrapped in between, as long as less than one word has elapsed.
THEOREM ElapsedTime ==
  ASSUME NEW x \in Int, NEW y \in Int, x - y \in 0 .. Period32 - 1
  PROVE  Diff(Trunc(x % Period), Trunc(y % Period)) = x - y
<1> USE ConstantTypes
<1> DEFINE rx == x % Period32
           ry == y % Period32
           qx == x \div Period32
           qy == y \div Period32
           d  == rx - ry
           dq == d \div Period32
           dr == d % Period32
<1>1. Trunc(x % Period) = rx /\ Trunc(y % Period) = ry
  BY TruncWraps DEF Trunc
<1>2. /\ qx \in Int /\ x = Period32 * qx + rx
      /\ qy \in Int /\ y = Period32 * qy + ry
      /\ rx \in Int /\ ry \in Int
  BY ModuloSplit, ModuloInRange
<1>3. d \in Int
  BY <1>2
<1>4. dq \in Int /\ d = Period32 * dq + dr /\ dr \in 0 .. Period32 - 1
  BY <1>3, ModuloSplit, ModuloInRange
<1> HIDE DEF rx, ry, qx, qy, dq, dr
<1>5. qx - qy + dq \in Int
  BY <1>2, <1>4
<1>6. x - y = Period32 * (qx - qy + dq) + dr
  BY <1>2, <1>4
<1>7. (x - y) % Period32 = dr
  <2>1. Period32 \in Nat \ {0}
    BY ConstantTypes
  <2> QED
    BY ONLY <1>4, <1>5, <1>6, <2>1, ModuloUnique
<1>8. (x - y) % Period32 = x - y
  <2>1. x - y = Period32 * 0 + (x - y)
    OBVIOUS
  <2>2. (Period32 * 0 + (x - y)) % Period32 = x - y
    BY ModuloUnique
  <2> QED
    BY <2>1, <2>2
<1> QED
  BY <1>1, <1>7, <1>8 DEF Diff, d, dr

LEMMA FactorOrder ==
  ASSUME NEW k \in Nat \ {0}, NEW a \in Int, NEW b \in Int
  PROVE  /\ k * a <= k * b => a <= b
         /\ k * a < k * b => a < b
<1>1. ASSUME b < a PROVE k * b < k * a
  <2>1. a - b - 1 \in Nat /\ a = b + 1 + (a - b - 1)
    BY <1>1
  <2>2. k * a = k * b + k + k * (a - b - 1) /\ k * (a - b - 1) \in Nat
    BY <2>1
  <2> QED
    BY <2>2
<1> QED
  BY <1>1

LEMMA QuotientBounds ==
  ASSUME NEW m \in Int, NEW k \in Nat \ {0}
  PROVE  /\ Quotient(m, k) \in Int
         /\ m >= 0 => k * Quotient(m, k) <= m /\ m < k * Quotient(m, k) + k
         /\ m < 0 => m <= k * Quotient(m, k) /\ Quotient(m, k) <= 0
<1>1. ASSUME NEW x \in Nat
      PROVE  x \div k \in Nat /\ k * (x \div k) <= x /\ x < k * (x \div k) + k
  <2>1. /\ x \div k \in Int /\ x = k * (x \div k) + (x % k)
        /\ x % k \in 0 .. k - 1
    BY ModuloSplit, ModuloInRange
  <2>2. x \div k >= 0
    BY <2>1
  <2> QED
    BY <2>1, <2>2
<1>2. CASE m >= 0
  <2>1. m \in Nat /\ Quotient(m, k) = m \div k
    BY <1>2 DEF Quotient
  <2> QED
    BY <1>1, <1>2, <2>1
<1>3. CASE m < 0
  <2> DEFINE j == (-m) \div k
  <2>1. -m \in Nat
    BY <1>3
  <2>2. j \in Nat /\ k * j <= -m
    BY <1>1, <2>1
  <2>3. Quotient(m, k) = -j
    BY <1>3 DEF Quotient
  <2> HIDE DEF j
  <2>4. k * (-j) = -(k * j) /\ k * j \in Int
    BY <2>2
  <2> QED
    BY <1>3, <2>2, <2>3, <2>4
<1> QED
  BY <1>2, <1>3

\* The initiator's reply time as its frame states it, da, is short of the true
\* one by `long'; the round trips ra and rb contain the true reply times and two
\* flights.  Then the reply times, which depend on both programs, cancel but
\* for a share of less than one half of `long'.
THEOREM FormulaIsClose ==
  ASSUME NEW f \in Nat \ {0}, NEW da \in Nat, NEW db \in Nat, NEW long \in Int,
         da + long >= 0,
         NEW r \in Tof(2 * f + db, 2 * f + da + long, da, db)
  PROVE  r \in Int /\ 2 * (r - f) \in IF long >= 0 THEN 0 .. long ELSE long - 1 .. 0
<1> DEFINE ra == 2 * f + db
           rb == 2 * f + da + long
           k  == ra + rb + da + db
           c  == f + db
           e  == long * c
           m  == ra * rb - da * db
<1>1. k \in Nat \ {0} /\ c \in Nat /\ k - 2 * c \in Nat
  OBVIOUS
<1>2. m = k * f + e
  <2>1. ra * rb = 4 * (f * f) + 2 * (f * da) + 2 * (f * long)
                    + 2 * (db * f) + db * da + db * long
    OBVIOUS
  <2>2. k * f = 4 * (f * f) + 2 * (da * f) + long * f + 2 * (db * f)
    OBVIOUS
  <2>3. e = long * f + long * db
    OBVIOUS
  <2> QED
    BY <2>1, <2>2, <2>3
<1>3. r = Quotient(m, k)
  BY <1>1 DEF Tof
<1>4. e \in Int /\ m \in Int /\ k * f \in Int /\ k * f >= 0
  OBVIOUS
\* e is between nothing and one half of k times long
<1>5. /\ long >= 0 => e >= 0 /\ 2 * e <= k * long
      /\ long < 0 => e <= 0 /\ k * long <= 2 * e
  <2> DEFINE g == k - 2 * c
  <2>1. g \in Nat /\ k * long = 2 * e + long * g
    BY <1>1
  <2> HIDE DEF g, k, c
  <2>2. ASSUME long >= 0 PROVE long * c >= 0 /\ long * g >= 0
    BY <1>1, <2>1, <2>2
  <2>3. ASSUME long < 0 PROVE long * c <= 0 /\ long * g <= 0
    BY <1>1, <2>1, <2>3
  <2>4. long * g \in Int
    BY <2>1
  <2> HIDE DEF e
  <2>5. k * long = 2 * e + long * g /\ e \in Int
    BY <1>4, <2>1
  <2> QED
    BY <2>2, <2>3, <2>4, <2>5 DEF e
<1> HIDE DEF k, c, e, m
<1>6. r \in Int
  BY <1>1, <1>3, <1>4, QuotientBounds
<1> DEFINE d == r - f
<1>7. d \in Int /\ r = f + d /\ k * r = k * f + k * d /\ k * d \in Int
  BY <1>1, <1>6
<1>8. k * (2 * d) = 2 * (k * d) /\ k * (2 * d + 2) = 2 * (k * d) + 2 * k
  BY <1>1, <1>7
<1>9. k * long \in Int /\ k * 0 = 0 /\ k * (d + 1) = k * d + k
  BY <1>1, <1>7
<1> HIDE DEF d
<1>10. CASE long >= 0
  <2>1. m >= 0
    BY <1>2, <1>4, <1>5, <1>10
  <2>2. k * d <= e /\ e < k * d + k
    BY <1>1, <1>2, <1>3, <1>4, <1>7, <2>1, QuotientBounds
  <2>3. k * (2 * d) <= k * long /\ k * 0 < k * (d + 1)
    BY <1>1, <1>4, <1>5, <1>7, <1>8, <1>9, <1>10, <2>2
  <2>4. 2 * d <= long /\ 0 < d + 1
    BY <1>1, <1>7, <2>3, FactorOrder
  <2> QED
    BY <1>6, <1>7, <1>10, <2>4 DEF d
<1>11. CASE long < 0 /\ m >= 0
  <2>1. k * d <= e /\ e < k * d + k
    BY <1>1, <1>2, <1>3, <1>4, <1>7, <1>11, QuotientBounds
  <2>2. k * d <= k * 0 /\ k * long < k * (2 * d + 2)
    BY <1>1, <1>4, <1>5, <1>7, <1>8, <1>9, <1>11, <2>1
  <2>3. d <= 0 /\ long < 2 * d + 2
    BY <1>1, <1>7, <2>2, FactorOrder
  <2> QED
    BY <1>6, <1>7, <1>11, <2>3 DEF d
<1>12. CASE long < 0 /\ m < 0
  <2>1. e <= k * d /\ r <= 0
    BY <1>1, <1>2, <1>3, <1>4, <1>7, <1>12, QuotientBounds
  <2>2. k * long <= k * (2 * d)
    BY <1>1, <1>4, <1>5, <1>7, <1>8, <1>9, <1>12, <2>1
  <2>3. long <= 2 * d
    BY <1>1, <1>7, <2>2, FactorOrder
  <2>4. d <= 0
    BY <1>6, <1>7, <2>1
  <2> QED
    BY <1>6, <1>7, <1>12, <2>3, <2>4 DEF d
<1> QED
  BY <1>4, <1>10, <1>11, <1>12

(***************************************************************************)
(* Type correctness                                                        *)
(***************************************************************************)

LEMMA OwnType == ASSUME TypeOK, NEW n \in Node PROVE Own(n) \in Stamp
<1>1. now + Offset[n] \in Int
  BY ConstantTypes DEF TypeOK, Stamp
<1> QED
  BY <1>1, ConstantTypes, ModuloInRange DEF Own, Stamp

LEMMA StampPlus ==
  ASSUME NEW t \in Stamp, NEW d \in Nat
  PROVE  (t + d) % Period \in Stamp
  BY ConstantTypes, ModuloInRange DEF Stamp

LEMMA TruncType == ASSUME NEW t \in Int PROVE Trunc(t) \in Word
  BY ConstantTypes, ModuloInRange DEF Trunc, Word

LEMMA DiffType == ASSUME NEW s \in Int, NEW t \in Int PROVE Diff(s, t) \in Nat
  BY ConstantTypes, ModuloInRange DEF Diff

LEMMA TofType ==
  ASSUME NEW ra \in Nat, NEW rb \in Nat, NEW da \in Nat, NEW db \in Nat
  PROVE  Tof(ra, rb, da, db) \subseteq Int
<1> DEFINE sum == ra + rb + da + db
           m   == ra * rb - da * db
<1>1. m \in Int /\ sum \in Nat
  OBVIOUS
<1> HIDE DEF sum, m
<1>2. ASSUME sum # 0 PROVE Quotient(m, sum) \in Int
  <2>1. sum \in Nat \ {0} /\ -m \in Int
    BY <1>1, <1>2
  <2>2. m \div sum \in Int /\ (-m) \div sum \in Int
    BY <1>1, <2>1, ModuloSplit
  <2> QED
    BY <2>2 DEF Quotient
<1>3. Word \subseteq Int
  BY DEF Word
<1> QED
  BY <1>2, <1>3 DEF Tof, sum, m

LEMMA HeaderType ==
  ASSUME NEW i \in Ids, NEW q \in Nat, NEW s \in Node, NEW d \in Node
  PROVE  Header(i, q, s, d) \in Frame
<1>1. 0 \in Word
  BY ConstantTypes DEF Word
<1> QED
  BY <1>1 DEF Header, Frame

LEMMA FinalTimeType ==
  ASSUME TypeOK, NEW n \in Node PROVE FinalTime(n) \in Stamp
<1>1. (rx_stamp[n] + FinalDelay) % Period \in Stamp
  BY StampPlus, ConstantTypes DEF TypeOK
<1> QED
  BY <1>1, GridType DEF FinalTime

LEMMA FinalFrameType ==
  ASSUME TypeOK, NEW n \in Node PROVE FinalFrame(n) \in Frame
<1>1. FinalTime(n) \in Int /\ rx_stamp[n] \in Int /\ tx_stamp[n] \in Int
  BY FinalTimeType DEF TypeOK, Stamp
<1>2. FinalStamp(n) \in Int
  BY <1>1, ConstantTypes DEF FinalStamp
<1>3. /\ Trunc(tx_stamp[n]) \in Word
      /\ Trunc(rx_stamp[n]) \in Word
      /\ Trunc(FinalStamp(n)) \in Word
  BY <1>1, <1>2, TruncType
<1>4. Header("twr_3_final", seq[n], n, peer[n]) \in Frame
  BY HeaderType DEF Ids, TypeOK
<1>5. mixed[n] \in BOOLEAN
  BY DEF TypeOK
<1> QED
  BY <1>3, <1>4, <1>5 DEF FinalFrame, Frame

LEMMA ReceiveType ==
  ASSUME TypeOK, NEW n \in Node, NEW id, NEW ok, Receive(n, id, ok)
  PROVE  status' \in [Node -> SUBSET Bits]
<1>1. \E read : status' = [status EXCEPT ![n] = @ \ read]
  BY DEF Receive
<1>2. status \in [Node -> SUBSET Bits]
  BY DEF TypeOK
<1> QED
  BY <1>1, <1>2

LEMMA SendAtType ==
  ASSUME TypeOK, NEW n \in Node, NEW f \in Frame, NEW t \in Stamp,
         NEW a \in BOOLEAN, NEW late \in BOOLEAN, SendAt(n, f, t, a, late)
  PROVE  /\ txbuf' \in [Node -> Frame]
         /\ dx' \in [Node -> Stamp]
         /\ w4r' \in [Node -> BOOLEAN]
         /\ chip' \in [Node -> {"off", "armed", "turning", "on"}]
         /\ timer' \in [Node -> Nat]
  BY DEF SendAt, TypeOK

LEMMA SendNowType ==
  ASSUME TypeOK, NEW n \in Node, NEW f \in Frame, NEW a \in BOOLEAN,
         SendNow(n, f, a)
  PROVE  /\ txbuf' \in [Node -> Frame]
         /\ dx' \in [Node -> Stamp]
         /\ w4r' \in [Node -> BOOLEAN]
         /\ chip' \in [Node -> {"off", "armed", "turning", "on"}]
         /\ timer' \in [Node -> Nat]
  BY OwnType DEF SendNow, TypeOK

LEMMA TypeInit == Init => TypeOK
<1> SUFFICES ASSUME Init PROVE TypeOK
  OBVIOUS
<1>1. 0 \in Stamp
  BY ConstantTypes DEF Stamp
<1>2. \A n \in Node : Header("ping", 0, n, n) \in Frame
  BY HeaderType DEF Ids
<1> QED
  BY <1>1, <1>2, ConstantTypes DEF Init, TypeOK, Steps

LEMMA CallType ==
  ASSUME TypeOK, NEW n \in Node, NEW p \in Node,
         \/ CallInitiate(n, p) \/ CallRespond(n, p)
         \/ CallPing(n, p) \/ CallPingRx(n, p)
  PROVE  TypeOK'
<1> USE ConstantTypes
<1>1. CASE CallInitiate(n, p)
  BY <1>1 DEF CallInitiate, Call, Goto, TypeOK, Steps, rxVars, regVars
<1>2. CASE CallRespond(n, p)
  BY <1>2 DEF CallRespond, Call, Goto, RxNow, TypeOK, Steps, rxVars
<1>3. CASE CallPing(n, p)
  BY <1>3 DEF CallPing, Call, Goto, TypeOK, Steps, rxVars, regVars
<1>4. CASE CallPingRx(n, p)
  BY <1>4 DEF CallPingRx, Call, Goto, RxNow, TypeOK, Steps, rxVars
<1> QED
  BY <1>1, <1>2, <1>3, <1>4

LEMMA ProgramType == ASSUME TypeOK, NEW n \in Node, Program(n) PROVE TypeOK'
<1> USE ConstantTypes DEF Goto, GoOn
<1>1. CASE SendPing(n)
  <2>1. Header("ping", seq[n], n, peer[n]) \in Frame
    BY HeaderType DEF Ids, TypeOK
  <2>2. SendNow(n, Header("ping", seq[n], n, peer[n]), FALSE)
    BY <1>1 DEF SendPing
  <2> QED
    BY <1>1, <2>1, <2>2, SendNowType DEF SendPing, TypeOK, Steps, rxVars
<1>2. CASE ReceivePing(n)
  BY <1>2, ReceiveType DEF ReceivePing, TypeOK, Steps, rxVars, regVars
<1>3. CASE SendPoll(n)
  <2>1. Header("twr_1_poll", seq[n], n, peer[n]) \in Frame
    BY HeaderType DEF Ids, TypeOK
  <2>2. SendNow(n, Header("twr_1_poll", seq[n], n, peer[n]), TRUE)
    BY <1>3 DEF SendPoll
  <2> QED
    BY <1>3, <2>1, <2>2, SendNowType DEF SendPoll, RxAfterTx, TypeOK, Steps, rxVars
<1>4. CASE ReceiveResp(n)
  <2>1. PICK ok \in BOOLEAN :
          /\ Receive(n, "twr_2_resp", ok)
          /\ GoOn(n, ok, "i_final")
          /\ mixed' = [mixed EXCEPT ![n] = ok /\ Foreign(n, rxbuf[n], seq[n] + 1)]
    BY <1>4 DEF ReceiveResp
  <2>2. (ok /\ Foreign(n, rxbuf[n], seq[n] + 1)) \in BOOLEAN
    BY Zenon
  <2>3. mixed' \in [Node -> BOOLEAN]
    BY <2>1, <2>2 DEF TypeOK
  <2>4. status' \in [Node -> SUBSET Bits]
    BY <2>1, ReceiveType
  <2> QED
    BY <1>4, <2>1, <2>3, <2>4 DEF ReceiveResp, TypeOK, Steps, rxVars, regVars
<1>5. CASE SendFinal(n)
  <2>1. PICK late \in BOOLEAN :
          /\ SendAt(n, FinalFrame(n), FinalTime(n), FALSE, late)
          /\ Goto(n, IF late THEN "idle" ELSE "i_sent")
    BY <1>5 DEF SendFinal
  <2>2. FinalFrame(n) \in Frame /\ FinalTime(n) \in Stamp
    BY FinalFrameType, FinalTimeType
  <2>3. /\ txbuf' \in [Node -> Frame]
        /\ dx' \in [Node -> Stamp]
        /\ w4r' \in [Node -> BOOLEAN]
        /\ chip' \in [Node -> {"off", "armed", "turning", "on"}]
        /\ timer' \in [Node -> Nat]
    BY <2>1, <2>2, SendAtType
  <2>4. pc' \in [Node -> Steps] /\ lag' \in [Node -> Nat]
    BY <2>1 DEF TypeOK, Steps
  <2> QED
    BY <1>5, <2>3, <2>4 DEF SendFinal, TypeOK, rxVars
<1>6. CASE FinalSent(n)
  BY <1>6 DEF FinalSent, AwaitSent, TypeOK, Steps, rxVars, regVars
<1>7. CASE ReceivePoll(n)
  <2>1. status' \in [Node -> SUBSET Bits]
    BY <1>7, ReceiveType DEF ReceivePoll
  <2>2. poll_rx' \in [Node -> Stamp]
    BY <1>7 DEF ReceivePoll, TypeOK
  <2>3. pc' \in [Node -> Steps] /\ lag' \in [Node -> Nat]
    BY <1>7 DEF ReceivePoll, TypeOK, Steps
  <2>4. seq' \in [Node -> Nat]
    <3>1. rxbuf[n].seq \in Nat
      BY DEF TypeOK, Frame
    <3> QED
      BY <1>7, <3>1 DEF ReceivePoll, TypeOK
  <2> QED
    BY <1>7, <2>1, <2>2, <2>3, <2>4 DEF ReceivePoll, TypeOK, rxVars, regVars
<1>8. CASE SendResp(n)
  <2> DEFINE f == Header("twr_2_resp", rxbuf[n].seq + 1, n, rxbuf[n].src)
             t == Grid((poll_rx[n] + RespDelay) % Period)
  <2>1. PICK late \in BOOLEAN :
          /\ SendAt(n, f, t, TRUE, late)
          /\ Goto(n, IF late THEN "idle" ELSE "r_sent")
    BY <1>8 DEF SendResp
  <2>2. f \in Frame
    <3>1. rxbuf[n].src \in Node /\ rxbuf[n].seq + 1 \in Nat
      BY DEF TypeOK, Frame
    <3> QED
      BY <3>1, HeaderType DEF Ids
  <2>3. t \in Stamp
    BY StampPlus, GridType DEF TypeOK
  <2> HIDE DEF f, t
  <2>4. /\ txbuf' \in [Node -> Frame]
        /\ dx' \in [Node -> Stamp]
        /\ w4r' \in [Node -> BOOLEAN]
        /\ chip' \in [Node -> {"off", "armed", "turning", "on"}]
        /\ timer' \in [Node -> Nat]
    BY <2>1, <2>2, <2>3, SendAtType
  <2>5. pc' \in [Node -> Steps] /\ lag' \in [Node -> Nat]
    BY <2>1 DEF TypeOK, Steps
  <2>6. rxdelay' \in [Node -> Nat] /\ rxto' \in [Node -> Nat]
    BY <1>8 DEF SendResp, RxAfterTx, TypeOK
  <2> QED
    BY <1>8, <2>4, <2>5, <2>6 DEF SendResp, TypeOK, rxVars
<1>9. CASE RespSent(n)
  BY <1>9 DEF RespSent, AwaitSent, TypeOK, Steps, rxVars, regVars
<1>10. CASE ReceiveFinal(n)
  <2>1. PICK ok \in BOOLEAN :
          /\ Receive(n, "twr_3_final", ok)
          /\ Goto(n, IF ok THEN "r_range" ELSE "idle")
          /\ mixed' = [mixed EXCEPT ![n] = ok /\ Foreign(n, rxbuf[n], seq[n])]
    BY <1>10 DEF ReceiveFinal
  <2>2. (ok /\ Foreign(n, rxbuf[n], seq[n])) \in BOOLEAN
    BY Zenon
  <2>3. mixed' \in [Node -> BOOLEAN]
    BY <2>1, <2>2 DEF TypeOK
  <2>4. status' \in [Node -> SUBSET Bits]
    BY <2>1, ReceiveType
  <2>5. pc' \in [Node -> Steps] /\ lag' \in [Node -> Nat]
    BY <2>1 DEF TypeOK, Steps
  <2> QED
    BY <1>10, <2>3, <2>4, <2>5 DEF ReceiveFinal, TypeOK, rxVars, regVars
<1>11. CASE Compute(n)
  <2> DEFINE f  == rxbuf[n]
             ra == Diff(f.resp_rx, f.poll_tx)
             rb == Diff(Trunc(rx_stamp[n]), Trunc(tx_stamp[n]))
             da == Diff(f.final_tx, f.resp_rx)
             db == Diff(Trunc(tx_stamp[n]), Trunc(poll_rx[n]))
  <2>1. PICK tof \in Tof(ra, rb, da, db) : range' = [range EXCEPT ![n] = {tof}]
    BY <1>11 DEF Compute
  <2>2. f.resp_rx \in Int /\ f.poll_tx \in Int /\ f.final_tx \in Int
    BY DEF TypeOK, Frame, Word
  <2>3. /\ Trunc(rx_stamp[n]) \in Int /\ Trunc(tx_stamp[n]) \in Int
        /\ Trunc(poll_rx[n]) \in Int
    BY TruncType DEF TypeOK, Stamp, Word
  <2>4. ra \in Nat /\ rb \in Nat /\ da \in Nat /\ db \in Nat
    BY <2>2, <2>3, DiffType
  <2> HIDE DEF ra, rb, da, db
  <2>5. tof \in Int
    BY <2>1, <2>4, TofType
  <2>6. range' \in [Node -> SUBSET Int]
    BY <2>1, <2>5 DEF TypeOK
  <2> QED
    BY <1>11, <2>6 DEF Compute, TypeOK, Steps, chipVars, rxVars, regVars
<1> QED
  BY <1>1, <1>2, <1>3, <1>4, <1>5, <1>6, <1>7, <1>8, <1>9, <1>10, <1>11 DEF Program

LEMMA ChipType == ASSUME TypeOK, NEW n \in Node, Chip(n) PROVE TypeOK'
<1> USE ConstantTypes
<1>1. CASE Depart(n)
  <2> DEFINE stamp == (Own(n) + AntDelay) % Period
  <2>1. stamp \in Stamp
    BY OwnType, StampPlus
  <2>2. Trunc(stamp) \in Word
    BY <2>1, TruncType DEF Stamp
  <2>3. AntDelay + Flight \in Nat
    OBVIOUS
  <2> HIDE DEF stamp
  <2>4. tx_stamp' = [tx_stamp EXCEPT ![n] = stamp]
    BY <1>1 DEF Depart, stamp
  <2>5. air' = air \cup {[frame |-> txbuf[n], from |-> n,
                          left |-> AntDelay + Flight, stamp |-> Trunc(stamp)]}
    BY <1>1 DEF Depart, stamp
  <2>6. air' \subseteq [frame : Frame, from : Node, left : Nat, stamp : Word]
    BY <2>2, <2>3, <2>5 DEF TypeOK
  <2>7. timer' \in [Node -> Nat] /\ status' \in [Node -> SUBSET Bits]
    BY <1>1 DEF Depart, TypeOK, Bits
  <2>8. chip' \in [Node -> {"off", "armed", "turning", "on"}]
    BY <1>1 DEF Depart, TypeOK
  <2> QED
    BY <1>1, <2>1, <2>4, <2>6, <2>7, <2>8 DEF Depart, TypeOK, progVars, rxVars, regVars
<1>2. CASE TurnOn(n)
  BY <1>2 DEF TurnOn, TypeOK, progVars, rxVars, regVars
<1>3. CASE GiveUp(n)
  BY <1>3 DEF GiveUp, TypeOK, Bits, progVars, rxVars, regVars
<1> QED
  BY <1>1, <1>2, <1>3 DEF Chip

LEMMA MediumType == ASSUME TypeOK, Medium PROVE TypeOK'
<1>1. PICK a \in air : Arrive(a)
  BY DEF Medium
<1>2. PICK heard \in [Listening(a) -> {"good", "error", "missed"}] :
       LET got(n) == n \in Listening(a) /\ heard[n] = "good"
           bad(n) == n \in Listening(a) /\ heard[n] = "error"
       IN /\ status' = [n \in Node |-> status[n]
                           \cup (IF got(n) THEN {RxGood} ELSE {})
                           \cup (IF bad(n) THEN {"RXERR"} ELSE {})]
          /\ chip' = [n \in Node |-> IF got(n) \/ bad(n) THEN "off" ELSE chip[n]]
          /\ rxbuf' = [n \in Node |-> IF got(n) THEN a.frame ELSE rxbuf[n]]
          /\ rx_stamp' = [n \in Node |-> IF got(n) THEN Own(n) ELSE rx_stamp[n]]
  BY <1>1 DEF Arrive
<1>3. a.frame \in Frame
  BY DEF TypeOK
<1>4. status' \in [Node -> SUBSET Bits]
  BY <1>2 DEF TypeOK, Bits, RxGood
<1>5. chip' \in [Node -> {"off", "armed", "turning", "on"}]
  BY <1>2 DEF TypeOK
<1>6. rxbuf' \in [Node -> Frame]
  BY <1>2, <1>3 DEF TypeOK
<1>7. rx_stamp' \in [Node -> Stamp]
  BY <1>2, OwnType DEF TypeOK
<1>8. air' \subseteq air
  BY <1>1 DEF Arrive
<1> QED
  BY <1>1, <1>4, <1>5, <1>6, <1>7, <1>8 DEF Arrive, TypeOK, progVars, regVars

LEMMA TickType == ASSUME TypeOK, Tick PROVE TypeOK'
<1>1. now' \in Stamp
  BY StampPlus DEF Tick, TypeOK
<1>2. air' \subseteq [frame : Frame, from : Node, left : Nat, stamp : Word]
  <2> SUFFICES ASSUME NEW b \in air'
               PROVE  b \in [frame : Frame, from : Node, left : Nat, stamp : Word]
    OBVIOUS
  <2>1. PICK a \in air : b = [a EXCEPT !.left = @ - 1]
    BY DEF Tick
  <2>2. a \in [frame : Frame, from : Node, left : Nat, stamp : Word]
    BY DEF TypeOK
  <2>3. a.left # 0
    BY DEF Tick, ChipDue
  <2>4. a.left - 1 \in Nat
    BY <2>2, <2>3
  <2> QED
    BY <2>1, <2>2, <2>4
<1>3. lag' \in [Node -> Nat] /\ timer' \in [Node -> Nat]
  BY DEF Tick, TypeOK
<1> QED
  BY <1>1, <1>2, <1>3 DEF Tick, TypeOK, rxVars, regVars

LEMMA TypeStep == TypeOK /\ [Next]_vars => TypeOK'
<1> SUFFICES ASSUME TypeOK, [Next]_vars PROVE TypeOK'
  OBVIOUS
<1>1. ASSUME NEW n \in Node, NewCall(n) PROVE TypeOK'
  BY <1>1, CallType DEF NewCall
<1>2. CASE UNCHANGED vars
  BY <1>2 DEF vars, TypeOK, progVars, chipVars, rxVars, regVars
<1> QED
  BY <1>1, <1>2, ProgramType, ChipType, MediumType, TickType DEF Next

\* Types: counters stay within 40 bits and time stamps in frames within 32,
\* whatever is added to them; a pending frame always has time left.
THEOREM TypeCorrect == Spec => []TypeOK
  BY TypeInit, TypeStep, PTL DEF Spec

(***************************************************************************)
(* No program polls for ever                                               *)
(***************************************************************************)

RxBits == {RxGood} \cup RxBad

\* The programs that wait for a frame, now or once their own has gone.
Waiting(n) == Polling(n) \/ pc[n] = "r_sent"

\* How the program of one node and its chip fit together:
\*   - a program that waits for a frame has its receiver on, or about to come
\*     on, with a time-out, until one bit is set, and no other program has;
\*   - a receiver that is on has set no bit yet, and never sets two;
\*   - TXFRS is clear before a delayed transmission, and then means its end.
NodeInv(n) ==
  /\ Waiting(n) => \/ status[n] \cap RxBits # {}
                   \/ Hears(n) /\ rxto[n] > 0
  /\ ~Waiting(n) => status[n] \cap RxBits = {} /\ ~Hears(n)
  /\ Hears(n) => status[n] \cap RxBits = {}
  /\ RxGood \in status[n] => status[n] \cap RxBad = {}
  /\ chip[n] = "armed" => pc[n] \in {"idle", "i_resp", "i_sent", "r_sent"}
  /\ chip[n] = "armed" /\ pc[n] = "i_resp" => w4r[n]
  /\ pc[n] \in {"i_final", "r_resp"} => "TXFRS" \notin status[n]
  /\ Sending(n) => (chip[n] = "armed" <=> "TXFRS" \notin status[n])

DriverInv == \A n \in Node : NodeInv(n)

\* What NodeInv speaks of.
nodeVars == <<pc, chip, w4r, status, rxto>>

LEMMA DriverInit == Init => DriverInv
  BY DEF Init, DriverInv, NodeInv, Waiting, Polling, Sending, Hears, RxBits, RxBad,
         RxGood

LEMMA DriverCall ==
  ASSUME TypeOK, DriverInv, NEW n \in Node, NewCall(n)
  PROVE  DriverInv'
<1> SUFFICES ASSUME NEW m \in Node PROVE NodeInv(m)'
  BY DEF DriverInv
<1> USE ConstantTypes DEF TypeOK, Steps, NodeInv, Waiting, Polling, Sending, Hears,
        RxBits, RxBad, RxGood
<1>1. NodeInv(m) /\ NodeInv(n)
  BY DEF DriverInv
<1>2. PICK p \in Node : \/ CallInitiate(n, p) \/ CallRespond(n, p)
                        \/ CallPing(n, p) \/ CallPingRx(n, p)
  BY DEF NewCall
<1>3. CASE CallInitiate(n, p)
  BY <1>1, <1>3 DEF CallInitiate, Call, Goto, regVars
<1>4. CASE CallRespond(n, p)
  BY <1>1, <1>4 DEF CallRespond, Call, Goto, RxNow
<1>5. CASE CallPing(n, p)
  BY <1>1, <1>5 DEF CallPing, Call, Goto, regVars
<1>6. CASE CallPingRx(n, p)
  BY <1>1, <1>6 DEF CallPingRx, Call, Goto, RxNow
<1> QED
  BY <1>2, <1>3, <1>4, <1>5, <1>6

\* Whatever mp_receive returns, it leaves no bit behind that it polls for; with
\* a frame, TXFRS is gone as well.
LEMMA DriverReceive ==
  ASSUME TypeOK, DriverInv, NEW n \in Node, NEW id, NEW ok \in BOOLEAN,
         NEW l \in {"idle", "i_final", "r_resp", "r_range"},
         l # "idle" => ok, Polling(n), Receive(n, id, ok),
         pc' = [pc EXCEPT ![n] = l], UNCHANGED <<chip, w4r, rxto>>
  PROVE  DriverInv'
<1> SUFFICES ASSUME NEW m \in Node PROVE NodeInv(m)'
  BY DEF DriverInv
<1>1. NodeInv(m) /\ NodeInv(n)
  BY DEF DriverInv
<1>2. /\ status' = [status EXCEPT ![n] = status'[n]]
      /\ status'[n] \cap RxBits = {}
      /\ ok => "TXFRS" \notin status'[n]
      /\ status[n] \cap RxBits # {}
  <2>1. CASE /\ RxGood \in status[n]
             /\ status' = [status EXCEPT ![n] = @ \ {RxGood, "TXFRS"}]
    BY <1>1, <2>1 DEF NodeInv, RxBits, RxBad, RxGood, TypeOK
  <2>2. CASE /\ RxGood \notin status[n]
             /\ RxBad \cap status[n] # {}
             /\ status' = [status EXCEPT ![n] = @ \ RxBad]
             /\ ~ok
    BY <2>2 DEF RxBits, RxBad, RxGood, TypeOK
  <2> QED
    BY <2>1, <2>2 DEF Receive
<1>3. CASE m = n
  <2>1. ~Hears(n) /\ Hears(n)' = Hears(n)
    BY <1>1, <1>2 DEF NodeInv, Hears
  <2>2. pc[n] \in {"i_resp", "q_ping", "r_poll", "r_final"} /\ pc'[n] = l
    BY DEF Polling, TypeOK
  <2>3. ~Waiting(n)' /\ ~Sending(n)'
    BY <2>2 DEF Waiting, Polling, Sending
  <2>4. chip'[n] # "armed"
    BY <1>1, <1>2, <2>1, <2>2 DEF NodeInv, Hears
  <2> QED
    BY <1>1, <1>2, <1>3, <2>1, <2>2, <2>3, <2>4 DEF NodeInv, RxBits, RxGood
<1>4. CASE m # n
  <2>1. status'[m] = status[m] /\ pc'[m] = pc[m]
    BY <1>2, <1>4 DEF TypeOK
  <2> QED
    BY <1>1, <2>1 DEF NodeInv, Waiting, Polling, Sending, Hears
<1> QED
  BY <1>3, <1>4

LEMMA DriverProgram ==
  ASSUME TypeOK, DriverInv, NEW n \in Node, Program(n)
  PROVE  DriverInv'
<1> SUFFICES ASSUME NEW m \in Node PROVE NodeInv(m)'
  BY DEF DriverInv
<1> USE ConstantTypes DEF TypeOK, Steps, NodeInv, Waiting, Polling, Sending, Hears,
        RxBits, RxBad, RxGood, Goto, GoOn
<1>0. NodeInv(m) /\ NodeInv(n)
  BY DEF DriverInv
<1>1. CASE SendPing(n)
  BY <1>0, <1>1 DEF SendPing, SendNow
<1>2. CASE ReceivePing(n)
  <2>1. PICK ok \in BOOLEAN, l \in {"idle", "i_final", "r_resp", "r_range"} :
          /\ Receive(n, "ping", ok)
          /\ pc' = [pc EXCEPT ![n] = l]
          /\ l # "idle" => ok
    BY <1>2 DEF ReceivePing
  <2>2. pc[n] = "q_ping" /\ UNCHANGED <<chip, w4r, rxto>>
    BY <1>2 DEF ReceivePing, regVars
  <2>3. Polling(n)
    BY <2>2
  <2> HIDE DEF TypeOK, NodeInv, Steps, Waiting, Polling, RxBits, RxBad, RxGood
  <2>4. DriverInv'
    BY <2>1, <2>2, <2>3, DriverReceive
  <2> QED
    BY <2>4 DEF DriverInv
<1>3. CASE SendPoll(n)
  <2>1. /\ pc[n] = "i_wait" /\ pc' = [pc EXCEPT ![n] = "i_resp"]
        /\ rxto' = [rxto EXCEPT ![n] = Timeout]
        /\ w4r' = [w4r EXCEPT ![n] = TRUE]
        /\ chip' = [chip EXCEPT ![n] = "armed"]
        /\ status' = status
    BY <1>3 DEF SendPoll, RxAfterTx, SendNow
  <2>2. CASE m = n
    BY <1>0, <2>1, <2>2
  <2>3. CASE m # n
    BY <1>0, <2>1, <2>3
  <2> QED
    BY <2>2, <2>3
<1>4. CASE ReceiveResp(n)
  <2>1. PICK ok \in BOOLEAN, l \in {"idle", "i_final", "r_resp", "r_range"} :
          /\ Receive(n, "twr_2_resp", ok)
          /\ pc' = [pc EXCEPT ![n] = l]
          /\ l # "idle" => ok
    BY <1>4 DEF ReceiveResp
  <2>2. pc[n] = "i_resp" /\ UNCHANGED <<chip, w4r, rxto>>
    BY <1>4 DEF ReceiveResp, regVars
  <2>3. Polling(n)
    BY <2>2
  <2> HIDE DEF TypeOK, NodeInv, Steps, Waiting, Polling, RxBits, RxBad, RxGood
  <2>4. DriverInv'
    BY <2>1, <2>2, <2>3, DriverReceive
  <2> QED
    BY <2>4 DEF DriverInv
<1>5. CASE SendFinal(n)
  <2>1. PICK late \in BOOLEAN :
          /\ w4r' = [w4r EXCEPT ![n] = FALSE]
          /\ chip' = [chip EXCEPT ![n] = IF late THEN "off" ELSE "armed"]
          /\ pc' = [pc EXCEPT ![n] = IF late THEN "idle" ELSE "i_sent"]
    BY <1>5 DEF SendFinal, SendAt
  <2>2. pc[n] = "i_final" /\ UNCHANGED <<status, rxto>>
    BY <1>5 DEF SendFinal
  <2>3. CASE m = n
    BY <1>0, <2>1, <2>2, <2>3
  <2>4. CASE m # n
    BY <1>0, <2>1, <2>2, <2>4
  <2> QED
    BY <2>3, <2>4
<1>6. CASE FinalSent(n)
  BY <1>0, <1>6 DEF FinalSent, AwaitSent, regVars
<1>7. CASE ReceivePoll(n)
  <2>1. PICK ok \in BOOLEAN, l \in {"idle", "i_final", "r_resp", "r_range"} :
          /\ Receive(n, "twr_1_poll", ok)
          /\ pc' = [pc EXCEPT ![n] = l]
          /\ l # "idle" => ok
    BY <1>7 DEF ReceivePoll
  <2>2. pc[n] = "r_poll" /\ UNCHANGED <<chip, w4r, rxto>>
    BY <1>7 DEF ReceivePoll, regVars
  <2>3. Polling(n)
    BY <2>2
  <2> HIDE DEF TypeOK, NodeInv, Steps, Waiting, Polling, RxBits, RxBad, RxGood
  <2>4. DriverInv'
    BY <2>1, <2>2, <2>3, DriverReceive
  <2> QED
    BY <2>4 DEF DriverInv
<1>8. CASE SendResp(n)
  <2>1. PICK late \in BOOLEAN :
          /\ w4r' = [w4r EXCEPT ![n] = TRUE]
          /\ chip' = [chip EXCEPT ![n] = IF late THEN "off" ELSE "armed"]
          /\ pc' = [pc EXCEPT ![n] = IF late THEN "idle" ELSE "r_sent"]
    BY <1>8 DEF SendResp, SendAt
  <2>2. /\ pc[n] = "r_resp" /\ UNCHANGED status
        /\ rxto' = [rxto EXCEPT ![n] = Timeout]
    BY <1>8 DEF SendResp, RxAfterTx
  <2>3. CASE m = n
    BY <1>0, <2>1, <2>2, <2>3
  <2>4. CASE m # n
    BY <1>0, <2>1, <2>2, <2>4
  <2> QED
    BY <2>3, <2>4
<1>9. CASE RespSent(n)
  BY <1>0, <1>9 DEF RespSent, AwaitSent, regVars
<1>10. CASE ReceiveFinal(n)
  <2>1. PICK ok \in BOOLEAN, l \in {"idle", "i_final", "r_resp", "r_range"} :
          /\ Receive(n, "twr_3_final", ok)
          /\ pc' = [pc EXCEPT ![n] = l]
          /\ l # "idle" => ok
    BY <1>10 DEF ReceiveFinal
  <2>2. pc[n] = "r_final" /\ UNCHANGED <<chip, w4r, rxto>>
    BY <1>10 DEF ReceiveFinal, regVars
  <2>3. Polling(n)
    BY <2>2
  <2> HIDE DEF TypeOK, NodeInv, Steps, Waiting, Polling, RxBits, RxBad, RxGood
  <2>4. DriverInv'
    BY <2>1, <2>2, <2>3, DriverReceive
  <2> QED
    BY <2>4 DEF DriverInv
<1>11. CASE Compute(n)
  BY <1>0, <1>11 DEF Compute, chipVars, regVars
<1> QED
  BY <1>1, <1>2, <1>3, <1>4, <1>5, <1>6, <1>7, <1>8, <1>9, <1>10, <1>11 DEF Program

LEMMA DriverChip ==
  ASSUME TypeOK, DriverInv, NEW n \in Node, Chip(n)
  PROVE  DriverInv'
<1> SUFFICES ASSUME NEW m \in Node PROVE NodeInv(m)'
  BY DEF DriverInv
<1> USE DEF TypeOK, Steps, NodeInv, Waiting, Polling, Sending, Hears, RxBits, RxBad,
        RxGood, progVars, regVars
<1>0. NodeInv(m) /\ NodeInv(n)
  BY DEF DriverInv
<1>1. CASE Depart(n)
  BY <1>0, <1>1 DEF Depart, SendDue
<1>2. CASE TurnOn(n)
  BY <1>0, <1>2 DEF TurnOn, TurnDue
<1>3. CASE GiveUp(n)
  BY <1>0, <1>3 DEF GiveUp, GiveUpDue
<1> QED
  BY <1>1, <1>2, <1>3 DEF Chip

LEMMA DriverMedium ==
  ASSUME TypeOK, DriverInv, Medium
  PROVE  DriverInv'
<1> SUFFICES ASSUME NEW m \in Node PROVE NodeInv(m)'
  BY DEF DriverInv
<1>0. NodeInv(m)
  BY DEF DriverInv
<1>1. PICK a \in air : Arrive(a)
  BY DEF Medium
<1>2. PICK heard \in [Listening(a) -> {"good", "error", "missed"}] :
        /\ status' = [n \in Node |-> status[n]
              \cup (IF n \in Listening(a) /\ heard[n] = "good" THEN {RxGood} ELSE {})
              \cup (IF n \in Listening(a) /\ heard[n] = "error" THEN {"RXERR"} ELSE {})]
        /\ chip' = [n \in Node |->
              IF \/ n \in Listening(a) /\ heard[n] = "good"
                 \/ n \in Listening(a) /\ heard[n] = "error"
              THEN "off" ELSE chip[n]]
  BY <1>1 DEF Arrive
<1>3. UNCHANGED <<pc, w4r, rxto>>
  BY <1>1 DEF Arrive, progVars, regVars
<1>4. CASE m \notin Listening(a) \/ heard[m] = "missed"
  <2>1. status'[m] = status[m] /\ chip'[m] = chip[m]
    BY <1>2, <1>4 DEF TypeOK
  <2> QED
    BY <1>0, <1>3, <2>1 DEF NodeInv, Waiting, Polling, Sending, Hears
<1>5. CASE m \in Listening(a) /\ heard[m] # "missed"
  <2>1. chip[m] = "on"
    BY <1>5 DEF Listening
  <2>2. chip'[m] = "off" /\ \/ status'[m] = status[m] \cup {RxGood}
                            \/ status'[m] = status[m] \cup {"RXERR"}
    BY <1>2, <1>5 DEF TypeOK, RxGood
  <2> QED
    BY <1>0, <1>3, <2>1, <2>2 DEF NodeInv, Waiting, Polling, Sending, Hears, RxBits,
       RxBad, RxGood
<1> QED
  BY <1>4, <1>5

LEMMA DriverStep == TypeOK /\ DriverInv /\ [Next]_vars => DriverInv'
<1> SUFFICES ASSUME TypeOK, DriverInv, [Next]_vars PROVE DriverInv'
  OBVIOUS
<1>1. ASSUME UNCHANGED nodeVars PROVE DriverInv'
  BY <1>1 DEF nodeVars, DriverInv, NodeInv, Waiting, Polling, Sending, Hears
<1>2. CASE Tick
  BY <1>1, <1>2 DEF Tick, nodeVars, regVars
<1>3. CASE UNCHANGED vars
  BY <1>1, <1>3 DEF vars, nodeVars, progVars, chipVars, regVars
<1> QED
  BY <1>2, <1>3, DriverCall, DriverProgram, DriverChip, DriverMedium DEF Next

THEOREM DriverIsSound == Spec => [](TypeOK /\ DriverInv)
<1>1. Init => TypeOK /\ DriverInv
  BY TypeInit, DriverInit
<1>2. TypeOK /\ DriverInv /\ [Next]_vars => (TypeOK /\ DriverInv)'
  BY TypeStep, DriverStep
<1> QED
  BY <1>1, <1>2, PTL DEF Spec

\* The loop in mp_poll_rx always has something coming.
THEOREM NobodyIsDeaf == Spec => []NeverDeaf
<1>1. DriverInv => NeverDeaf
  BY DEF DriverInv, NodeInv, NeverDeaf, Waiting, RxBits
<1> QED
  BY <1>1, DriverIsSound, PTL

\* mp_send_at never takes the TXFRS of an earlier frame for its own.
THEOREM SentIsSent == Spec => []SentMeansSent
<1>1. DriverInv => SentMeansSent
  BY DEF DriverInv, NodeInv, SentMeansSent
<1> QED
  BY <1>1, DriverIsSound, PTL

\* Every way out of a call leaves the receiver off.
THEOREM ReturnsAreQuiet == Spec => []CallReturnsQuiet
<1>1. DriverInv => CallReturnsQuiet
  BY DEF DriverInv, NodeInv, CallReturnsQuiet, Waiting, Polling
<1> QED
  BY <1>1, DriverIsSound, PTL

(***************************************************************************)
(* The time in the final frame                                             *)
(***************************************************************************)

\* What an armed chip will send says when it will be sent, with the antenna
\* delay the code assumes.
ArmedStamp(n) ==
  chip[n] = "armed" /\ txbuf[n].id = "twr_3_final" =>
    txbuf[n].final_tx = Trunc(dx[n] + AntAssumed)

StampInv == FinalStampOff /\ \A n \in Node : ArmedStamp(n)

LEMMA StampInit == Init => StampInv
  BY DEF Init, StampInv, FinalStampOff, ArmedStamp

LEMMA StampCall ==
  ASSUME TypeOK, StampInv, NEW n \in Node, NewCall(n)
  PROVE  StampInv'
<1> USE DEF StampInv, FinalStampOff, ArmedStamp
<1>1. PICK p \in Node : \/ CallInitiate(n, p) \/ CallRespond(n, p)
                        \/ CallPing(n, p) \/ CallPingRx(n, p)
  BY DEF NewCall
<1>2. UNCHANGED <<dx, txbuf, air>>
  BY <1>1 DEF CallInitiate, CallRespond, CallPing, CallPingRx, Call, RxNow, regVars
<1>3. chip' = chip \/ chip' = [chip EXCEPT ![n] = "on"]
  BY <1>1 DEF CallInitiate, CallRespond, CallPing, CallPingRx, RxNow
<1> QED
  BY <1>2, <1>3 DEF TypeOK

\* A program that arms its chip with another frame, or does not arm it.
LEMMA StampOther ==
  ASSUME TypeOK, StampInv, NEW n \in Node, UNCHANGED air,
         \/ UNCHANGED <<chip, dx, txbuf>>
         \/ \E f \in Frame, t \in Stamp, a, late \in BOOLEAN :
              /\ SendNow(n, f, a) \/ SendAt(n, f, t, a, late)
              /\ f.id # "twr_3_final"
  PROVE  StampInv'
<1> USE DEF StampInv, FinalStampOff, ArmedStamp
<1>1. CASE UNCHANGED <<chip, dx, txbuf>>
  BY <1>1
<1>2. ASSUME NEW f \in Frame, NEW t \in Stamp, NEW a \in BOOLEAN,
             NEW late \in BOOLEAN,
             SendNow(n, f, a) \/ SendAt(n, f, t, a, late), f.id # "twr_3_final"
      PROVE  StampInv'
  <2>1. /\ txbuf' = [txbuf EXCEPT ![n] = f]
        /\ dx' = [dx EXCEPT ![n] = dx'[n]]
        /\ chip' = [chip EXCEPT ![n] = chip'[n]]
    BY <1>2 DEF SendNow, SendAt, TypeOK
  <2>2. ASSUME NEW m \in Node PROVE ArmedStamp(m)'
    <3>1. CASE m = n
      BY <1>2, <2>1, <3>1 DEF TypeOK
    <3>2. CASE m # n
      BY <2>1, <3>2 DEF TypeOK
    <3> QED
      BY <3>1, <3>2
  <2> QED
    BY <2>2
<1> QED
  BY <1>1, <1>2

LEMMA StampFinal ==
  ASSUME TypeOK, StampInv, NEW n \in Node, SendFinal(n)
  PROVE  StampInv'
<1> USE DEF StampInv, FinalStampOff
<1>1. PICK late \in BOOLEAN : SendAt(n, FinalFrame(n), FinalTime(n), FALSE, late)
  BY DEF SendFinal
<1>2. /\ txbuf' = [txbuf EXCEPT ![n] = FinalFrame(n)]
      /\ dx' = [dx EXCEPT ![n] = FinalTime(n)]
      /\ chip' = [chip EXCEPT ![n] = IF late THEN "off" ELSE "armed"]
  BY <1>1 DEF SendAt
<1>3. UNCHANGED air
  BY DEF SendFinal
<1>4. FinalFrame(n).final_tx = Trunc(FinalTime(n) + AntAssumed)
  BY DEF FinalFrame, FinalStamp, Header
<1>5. ASSUME NEW m \in Node PROVE ArmedStamp(m)'
  <2>1. CASE m = n
    BY <1>2, <1>4, <2>1 DEF ArmedStamp, TypeOK
  <2>2. CASE m # n
    BY <1>2, <2>2 DEF ArmedStamp, TypeOK
  <2> QED
    BY <2>1, <2>2
<1> QED
  BY <1>3, <1>5

LEMMA StampProgram ==
  ASSUME TypeOK, StampInv, NEW n \in Node, Program(n)
  PROVE  StampInv'
<1>1. CASE SendPing(n)
  <2> DEFINE f == Header("ping", seq[n], n, peer[n])
  <2>1. f \in Frame /\ f.id = "ping"
    BY HeaderType DEF Ids, TypeOK, Header
  <2>2. SendNow(n, f, FALSE) /\ UNCHANGED air
    BY <1>1 DEF SendPing
  <2>3. dx[n] \in Stamp
    BY DEF TypeOK
  <2> HIDE DEF f
  <2> QED
    BY <2>1, <2>2, <2>3, StampOther
<1>2. CASE SendPoll(n)
  <2> DEFINE f == Header("twr_1_poll", seq[n], n, peer[n])
  <2>1. f \in Frame /\ f.id = "twr_1_poll"
    BY HeaderType DEF Ids, TypeOK, Header
  <2>2. SendNow(n, f, TRUE) /\ UNCHANGED air
    BY <1>2 DEF SendPoll
  <2>3. dx[n] \in Stamp
    BY DEF TypeOK
  <2> HIDE DEF f
  <2> QED
    BY <2>1, <2>2, <2>3, StampOther
<1>3. CASE SendResp(n)
  <2> DEFINE f == Header("twr_2_resp", rxbuf[n].seq + 1, n, rxbuf[n].src)
             t == Grid((poll_rx[n] + RespDelay) % Period)
  <2>1. rxbuf[n].src \in Node /\ rxbuf[n].seq + 1 \in Nat
    BY DEF TypeOK, Frame
  <2>2. f \in Frame /\ f.id = "twr_2_resp"
    BY <2>1, HeaderType DEF Ids, Header
  <2>3. t \in Stamp
    BY ConstantTypes, StampPlus, GridType DEF TypeOK
  <2>4. PICK late \in BOOLEAN : SendAt(n, f, t, TRUE, late)
    BY <1>3 DEF SendResp
  <2>5. UNCHANGED air
    BY <1>3 DEF SendResp
  <2> HIDE DEF f, t
  <2> QED
    BY <2>2, <2>3, <2>4, <2>5, StampOther
<1>4. CASE UNCHANGED <<chip, dx, txbuf, air>>
  BY <1>4, StampOther
<1>5. CASE \/ ReceivePing(n) \/ ReceiveResp(n) \/ FinalSent(n) \/ ReceivePoll(n)
           \/ RespSent(n) \/ ReceiveFinal(n) \/ Compute(n)
  BY <1>4, <1>5 DEF ReceivePing, ReceiveResp, FinalSent, ReceivePoll, RespSent,
     ReceiveFinal, Compute, chipVars, regVars
<1> QED
  BY <1>1, <1>2, <1>3, <1>5, StampFinal DEF Program

LEMMA StampChip ==
  ASSUME TypeOK, StampInv, NEW n \in Node, Chip(n)
  PROVE  StampInv'
<1> USE DEF StampInv, FinalStampOff, ArmedStamp
<1>1. CASE Depart(n)
  <2> DEFINE word == Trunc((Own(n) + AntDelay) % Period)
             new  == [frame |-> txbuf[n], from |-> n, left |-> AntDelay + Flight,
                      stamp |-> word]
  <2>1. Own(n) \in Int
    BY OwnType DEF Stamp
  <2>2. word = Trunc(dx[n] + AntDelay)
    BY <1>1, <2>1, ConstantTypes, TruncWraps DEF Depart, SendDue
  <2>3. air' = air \cup {new}
    BY <1>1 DEF Depart
  <2>4. new.frame.id = "twr_3_final" =>
           new.frame.final_tx = Trunc(new.stamp + AntAssumed - AntDelay)
    <3>1. dx[n] + AntDelay \in Int /\ AntAssumed - AntDelay \in Int
      BY ConstantTypes DEF TypeOK, Stamp
    <3>2. Trunc(word + (AntAssumed - AntDelay))
            = Trunc(dx[n] + AntDelay + (AntAssumed - AntDelay))
      BY <2>2, <3>1, TruncSum
    <3>3. /\ dx[n] + AntDelay + (AntAssumed - AntDelay) = dx[n] + AntAssumed
          /\ word + (AntAssumed - AntDelay) = word + AntAssumed - AntDelay
      <4>1. word \in Int /\ dx[n] \in Int
        BY <2>2, <3>1, TruncInRange DEF TypeOK, Stamp
      <4> QED
        BY <4>1, ConstantTypes
    <3> QED
      BY <1>1, <3>2, <3>3 DEF Depart, SendDue
  <2>5. FinalStampOff'
    BY <2>3, <2>4
  <2>6. UNCHANGED <<dx, txbuf>>
    BY <1>1 DEF Depart, regVars
  <2>7. \A m \in Node : chip'[m] = "armed" => chip[m] = "armed"
    BY <1>1 DEF Depart, TypeOK
  <2> QED
    BY <2>5, <2>6, <2>7
<1>2. CASE TurnOn(n)
  BY <1>2 DEF TurnOn, regVars, TypeOK
<1>3. CASE GiveUp(n)
  BY <1>3 DEF GiveUp, regVars, TypeOK
<1> QED
  BY <1>1, <1>2, <1>3 DEF Chip

LEMMA StampStep == TypeOK /\ StampInv /\ [Next]_vars => StampInv'
<1> SUFFICES ASSUME TypeOK, StampInv, [Next]_vars PROVE StampInv'
  OBVIOUS
<1> USE DEF StampInv, FinalStampOff, ArmedStamp
<1>1. CASE Medium
  <2>1. PICK a \in air : Arrive(a)
    BY <1>1 DEF Medium
  <2>2. air' \subseteq air /\ UNCHANGED <<dx, txbuf>>
    BY <2>1 DEF Arrive, regVars
  <2>3. \A m \in Node : chip'[m] = "armed" => chip[m] = "armed"
    BY <2>1 DEF Arrive
  <2> QED
    BY <2>2, <2>3
<1>2. CASE Tick
  <2>1. UNCHANGED <<chip, dx, txbuf>>
    BY <1>2 DEF Tick, regVars
  <2>2. ASSUME NEW b \in air', b.frame.id = "twr_3_final"
        PROVE  b.frame.final_tx = Trunc(b.stamp + AntAssumed - AntDelay)
    <3>1. PICK a \in air : b = [a EXCEPT !.left = @ - 1]
      BY <1>2 DEF Tick
    <3>2. a \in [frame : Frame, from : Node, left : Nat, stamp : Word]
      BY DEF TypeOK
    <3>3. b.frame = a.frame /\ b.stamp = a.stamp
      BY <3>1, <3>2
    <3> QED
      BY <2>2, <3>3
  <2> QED
    BY <2>1, <2>2
<1>3. CASE UNCHANGED vars
  BY <1>3 DEF vars, chipVars, regVars
<1> QED
  BY <1>1, <1>2, <1>3, StampCall, StampProgram, StampChip DEF Next

\* What the final frame says of its own departure is off by the difference of
\* the antenna delays, 16436 in mesh_twr.cc and 16450 in the device tree, and by
\* nothing else, however the times wrap and however late the program was.
THEOREM FinalStampIsOff == Spec => []FinalStampOff
<1>1. Init => TypeOK /\ StampInv
  BY TypeInit, StampInit
<1>2. TypeOK /\ StampInv /\ [Next]_vars => (TypeOK /\ StampInv)'
  BY TypeStep, StampStep
<1>3. StampInv => FinalStampOff
  BY DEF StampInv
<1> QED
  BY <1>1, <1>2, <1>3, PTL DEF Spec

=============================================================================

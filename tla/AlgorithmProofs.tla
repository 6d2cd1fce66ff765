--------------------------- MODULE AlgorithmProofs ---------------------------
(***************************************************************************)
(* What holds of the pure algorithms for every input: the range of the     *)
(* colours and their continuity, and the lines the command handler         *)
(* understands.  At the end, the invariants of MCAlgorithms for every      *)
(* value of its constants.                                                 *)
(***************************************************************************)
EXTENDS MCAlgorithms, CobsProofs

(* LedColour *)

\* The remainder of the hue, whatever its sign, names a sector and an angle.
LEMMA HueInCircle ==
  ASSUME NEW h \in Int
  PROVE  HueOf(h) \in 0 .. 359 /\ Angle(HueOf(h)) \in 0 .. 60
                               /\ HueOf(h) \div 60 \in 0 .. 5
<1>1. HueOf(h) \in 0 .. 359
    BY DEF HueOf
<1> QED
    BY <1>1 DEF Angle

\* Products that an integer division brings back into range.
LEMMA Scaled ==
  ASSUME NEW d \in Nat \ {0}, NEW a \in 0 .. d, NEW x \in Nat
  PROVE  (x * a) \div d \in 0 .. x
<1>1. x * a \in Nat /\ x * d \in Nat /\ x * a <= x * d
    OBVIOUS
<1>2. (x * a) \div d \in Int /\ d * ((x * a) \div d) <= x * a
      /\ x * a < d * ((x * a) \div d) + d
    BY <1>1
<1> QED
    BY <1>1, <1>2

\* No colour leaves 0 .. 255, so storing the int results in bytes loses
\* nothing (led_utils.c:22-27), for any hue and any saturation and value.
THEOREM ColoursFitBytes ==
  ASSUME NEW h \in Int, NEW s \in Channel, NEW v \in Channel
  PROVE  led_hsv2rgb(h, s, v) \in [r : 0 .. v, g : 0 .. v, b : 0 .. v]
<1> DEFINE hue == HueOf(h)
<1>1. hue \div 60 \in 0 .. 5 /\ Angle(hue) \in 0 .. 60
    BY HueInCircle
<1>2. Low(s, v) \in 0 .. v
  <2>1. 255 - s \in 0 .. 255 /\ v \in Nat
      BY DEF Channel
  <2>2. (v * (255 - s)) \div 255 \in 0 .. v
      BY <2>1, Scaled
  <2>3. v * (255 - s) = (255 - s) * v
      BY <2>1
  <2> QED
      BY <2>2, <2>3 DEF Low
<1>3. Middle(hue, s, v) \in 0 .. v
  <2>1. v \in Nat /\ Low(s, v) \in Int /\ v - Low(s, v) \in Nat
      BY <1>2 DEF Channel
  <2>2. ((v - Low(s, v)) * Angle(hue)) \div 60 \in 0 .. v - Low(s, v)
      BY <1>1, <2>1, Scaled
  <2> QED
      BY <1>2, <2>1, <2>2 DEF Middle
<1> HIDE DEF hue
<1>4. v \in 0 .. v /\ 0 \in 0 .. v
    BY DEF Channel
<1> QED
    BY <1>1, <1>2, <1>3, <1>4 DEF led_hsv2rgb, Rgb, hue

\* The hue is reduced as by the modulus of mathematics, so one degree more is the
\* next of 360.
LEMMA HueSteps ==
  ASSUME NEW h \in Int
  PROVE  /\ HueOf(h) \in 0 .. 359
         /\ HueOf(h + 1) = IF HueOf(h) = 359 THEN 0 ELSE HueOf(h) + 1
  BY DEF HueOf

\* One 60th more of a difference.
LEMMA ScaledSteps ==
  ASSUME NEW d \in Nat, NEW a \in Nat
  PROVE  (d * (a + 1)) \div 60 - (d * a) \div 60 \in 0 .. d \div 60 + 1
<1> DEFINE x == d * a
<1>1. x \in Nat /\ d * (a + 1) = x + d
  OBVIOUS
<1> HIDE DEF x
<1>2. (x + d) \div 60 - x \div 60 \in 0 .. d \div 60 + 1
  BY <1>1
<1> QED
  BY <1>1, <1>2 DEF x

\* Neighbouring hues give neighbouring colours for every hue, saturation and value,
\* across the borders of the sectors and where the circle closes
\* (led_utils.c:16-60): no component jumps by more than a 60th of the value, and one.
THEOREM ColoursAreSmooth ==
  ASSUME NEW h \in Int, NEW s \in Channel, NEW v \in Channel
  PROVE  ColourIsContinuous(h, s, v)
<1> DEFINE low  == Low(s, v)
           d    == v - low
           M(a) == low + (d * a) \div 60
           step == v \div 60 + 1
           k    == HueOf(h) \div 60
           p    == HueOf(h) % 60
<1>1. low \in 0 .. v /\ v \in Nat
  <2>1. 255 - s \in 0 .. 255 /\ v \in Nat
    BY DEF Channel
  <2>2. (v * (255 - s)) \div 255 \in 0 .. v
    BY <2>1, Scaled
  <2>3. v * (255 - s) = (255 - s) * v
    BY <2>1
  <2> QED
    BY <2>1, <2>2, <2>3 DEF Low
<1> HIDE DEF low
<1>2. d \in 0 .. v
  BY <1>1
<1>3. \A a \in 0 .. 59 : M(a + 1) - M(a) \in 0 .. step
  <2> SUFFICES ASSUME NEW a \in 0 .. 59 PROVE M(a + 1) - M(a) \in 0 .. step
    OBVIOUS
  <2>1. (d * (a + 1)) \div 60 - (d * a) \div 60 \in 0 .. d \div 60 + 1
    BY <1>2, ScaledSteps
  <2>2. d \div 60 <= v \div 60
    BY <1>1, <1>2
  <2>3. (d * (a + 1)) \div 60 \in Int /\ (d * a) \div 60 \in Int
    <3>1. d * (a + 1) \in Int /\ d * a \in Int
      BY <1>2
    <3> QED
      BY <3>1
  <2> QED
    BY <1>1, <1>2, <2>1, <2>2, <2>3
<1>4. M(0) = low /\ M(60) = v
  BY <1>1, <1>2
<1>5. \A a \in 0 .. 60 : M(a) \in Int
  <2> SUFFICES ASSUME NEW a \in 0 .. 60 PROVE M(a) \in Int
    OBVIOUS
  <2>1. d * a \in Int
    BY <1>2
  <2>2. (d * a) \div 60 \in Int
    BY <2>1
  <2> QED
    BY <1>1, <2>2
<1>6. \A q \in 0 .. 359 : Middle(q, s, v) = M(Angle(q))
  BY DEF Middle, low
<1> HIDE DEF M, d
<1>7. k \in 0 .. 5 /\ p \in 0 .. 59 /\ HueOf(h) = 60 * k + p
  <2>1. \A q \in 0 .. 359 :
          /\ q \div 60 \in 0 .. 5 /\ q % 60 \in 0 .. 59
          /\ q = 60 * (q \div 60) + (q % 60)
    OBVIOUS
  <2> QED
    BY <2>1, HueSteps
<1>8. step \in Nat
  BY <1>1
<1>9. /\ HueOf(h) \in 0 .. 359 /\ HueOf(h + 1) \in 0 .. 359
      /\ HueOf(h + 1) = IF HueOf(h) = 359 THEN 0 ELSE HueOf(h) + 1
  <2>1. h + 1 \in Int
    OBVIOUS
  <2> QED
    BY <2>1, HueSteps
<1>10. CASE v = 0 \/ s = 0
  BY <1>1, <1>8, <1>10 DEF ColourIsContinuous, led_hsv2rgb, Rgb, Apart
<1>11. CASE v # 0 /\ s # 0 /\ p < 59
  <2>1. HueOf(h + 1) = 60 * k + p + 1
    BY <1>7, <1>11, HueSteps
  <2>2. HueOf(h + 1) \div 60 = k /\ HueOf(h + 1) % 60 = p + 1
    BY <1>7, <1>11, <2>1
  <2> QED
    BY <1>1, <1>3, <1>5, <1>6, <1>7, <1>8, <1>11, <2>1, <2>2
       DEF ColourIsContinuous, led_hsv2rgb, Rgb, Apart, Angle, low
<1>12. CASE v # 0 /\ s # 0 /\ p = 59
  <2>1. M(60) - M(59) \in 0 .. step /\ M(1) - M(0) \in 0 .. step
    BY <1>3
  <2>2. M(59) \in Int /\ M(1) \in Int
    BY <1>5
  <2>3. CASE k = 5
    <3>1. HueOf(h) = 359 /\ HueOf(h + 1) = 0
      BY <1>7, <1>12, <2>3, HueSteps
    <3>2. /\ 359 \div 60 = 5 /\ Angle(359) = 1
          /\ 0 \div 60 = 0 /\ Angle(0) = 0
      BY DEF Angle
    <3>3. Middle(359, s, v) = M(1) /\ Middle(0, s, v) = M(0)
      BY <1>6, <3>2
    <3> QED
      BY <1>1, <1>4, <1>8, <1>12, <2>1, <2>2, <3>1, <3>2, <3>3
         DEF ColourIsContinuous, led_hsv2rgb, Rgb, Apart, low
  <2>4. CASE k # 5
    <3>1. HueOf(h) = 60 * k + 59 /\ HueOf(h + 1) = 60 * (k + 1)
      BY <1>7, <1>12, <1>9, <2>4
    <3>2. /\ HueOf(h) \div 60 = k /\ HueOf(h) % 60 = 59
          /\ HueOf(h + 1) \div 60 = k + 1 /\ HueOf(h + 1) % 60 = 0
      BY <1>7, <2>4, <3>1
    <3>3. CASE k \in {0, 2, 4}
      <4>1. Angle(HueOf(h)) = 59 /\ Angle(HueOf(h + 1)) = 60
        BY <3>2, <3>3 DEF Angle
      <4>2. Middle(HueOf(h), s, v) = M(59) /\ Middle(HueOf(h + 1), s, v) = M(60)
        BY <1>6, <1>9, <4>1
      <4> QED
        BY <1>1, <1>4, <1>8, <1>12, <2>1, <2>2, <3>2, <3>3, <4>2
           DEF ColourIsContinuous, led_hsv2rgb, Rgb, Apart, low
    <3>4. CASE k \in {1, 3}
      <4>1. Angle(HueOf(h)) = 1 /\ Angle(HueOf(h + 1)) = 0
        BY <3>2, <3>4 DEF Angle
      <4>2. Middle(HueOf(h), s, v) = M(1) /\ Middle(HueOf(h + 1), s, v) = M(0)
        BY <1>6, <1>9, <4>1
      <4> QED
        BY <1>1, <1>4, <1>8, <1>12, <2>1, <2>2, <3>2, <3>4, <4>2
           DEF ColourIsContinuous, led_hsv2rgb, Rgb, Apart, low
    <3> QED
      BY <1>7, <2>4, <3>3, <3>4
  <2> QED
    BY <2>3, <2>4
<1> QED
  BY <1>7, <1>10, <1>11, <1>12

-----------------------------------------------------------------------------
(* CommandLine *)

\* The first character behind from that ends a token is the delimiter at end.
EndsWith(f, from, end, delim) ==
  /\ f[end] = delim
  /\ \A i \in from .. end - 1 : f[i] # delim /\ f[i] # "nul"

\* What strtok does with that
Cut(f, end) == [f EXCEPT ![end] = "nul"]


LEMMA TokenFound ==
  ASSUME NEW A, NEW f \in Seq(A), Len(f) = Size,
         NEW from \in Nat \ {0}, NEW end \in Nat, from < end, end <= Size,
         NEW delim, EndsWith(f, from, end, delim)
  PROVE  /\ Strtok(f, from, delim).token = {SubSeq(f, from, end - 1)}
         /\ Strtok(f, from, delim).buf = Cut(f, end)
<1> DEFINE starts == {i \in from .. Size : f[i] # delim}
           ends   == {i \in from .. Size : f[i] \in {delim, "nul"}}
<1>1. Size \in Nat /\ end \in Nat /\ end <= Size /\ from < end /\ from \in from .. end - 1
  BY CommandLineAssumption
<1>2. f[end] = delim /\ \A i \in from .. end - 1 : f[i] # delim /\ f[i] # "nul"
  BY DEF EndsWith
<1>3. TokenStart(f, from, delim) = from
  <2>1. from \in starts /\ \A j \in starts : from <= j
    BY <1>1, <1>2
  <2>2. \A i \in starts : (\A j \in starts : i <= j) => i = from
    BY <1>1, <2>1
  <2>3. (CHOOSE i \in starts : \A j \in starts : i <= j) = from
    <3> HIDE DEF starts
    <3> QED
      BY <2>1, <2>2
  <2> QED
    BY <2>1, <2>3 DEF TokenStart
<1>4. TokenEnd(f, from, delim) = end
  <2>1. end \in ends
    BY <1>1, <1>2
  <2>2. \A j \in ends : end <= j
    <3> SUFFICES ASSUME NEW j \in ends, j < end PROVE FALSE
      BY <1>1
    <3>1. j \in from .. end - 1
      BY <1>1
    <3> QED
      BY <1>2, <3>1
  <2>3. \A i \in ends : (\A j \in ends : i <= j) => i = end
    BY <1>1, <2>1, <2>2
  <2>4. (CHOOSE i \in ends : \A j \in ends : i <= j) = end
    <3> HIDE DEF ends
    <3> QED
      BY <2>1, <2>2, <2>3
  <2> QED
    BY <2>1, <2>4 DEF TokenEnd
<1>5. ~(from > Size \/ f[from] = "nul")
  BY <1>1, <1>2
<1>6. Strtok(f, from, delim) = [token |-> {SubSeq(f, from, end - 1)},
                                buf   |-> [f EXCEPT ![end] = "nul"]]
  BY <1>1, <1>3, <1>4, <1>5 DEF Strtok
<1> QED
  BY <1>6 DEF Cut

\* Two sequences whose elements are the same, a part of one and all of the other
LEMMA PartIsAll ==
  ASSUME NEW A, NEW B, NEW f \in Seq(A), NEW s \in Seq(B), NEW p \in Nat,
         p + Len(s) <= Len(f), \A i \in 1 .. Len(s) : f[p + i] = s[i]
  PROVE  SubSeq(f, p + 1, p + Len(s)) = s
<1> DEFINE x == SubSeq(f, p + 1, p + Len(s))
           C == A \cup B
<1>1. f \in Seq(C) /\ s \in Seq(C)
  OBVIOUS
<1> HIDE DEF C
<1>2. /\ x \in Seq(C) /\ Len(x) = Len(s)
      /\ \A i \in 1 .. Len(s) : x[i] = f[p + i]
  BY <1>1
<1> HIDE DEF x
<1>3. \A i \in 1 .. Len(s) : x[i] = s[i]
  BY <1>2
<1>4. x = s
  BY <1>1, <1>2, <1>3, SeqEqual
<1> QED
  BY <1>4 DEF x

\* A line NAME=NUMBER, or NAME= with no number behind it, that fits the buffer is
\* understood whatever the buffer held when it came (main.c:49-51): the command's
\* name is this line's, and if the line has a number, so is the argument; what an
\* older line left behind the newline gets into neither.
THEOREM LinesAreHeard ==
  ASSUME NEW old, NEW name \in Seq(Letter), name # <<>>, NEW number \in Seq(Digit)
  PROVE  LineIsHeard(old, name, number)
<1> DEFINE line == name \o <<"=">> \o number \o <<"nl">>
           a == Len(name)
           b == Len(number)
           r == Receive(old, line)
           A == {r[i] : i \in 1 .. Size} \cup {"nul"}
           first  == Strtok(r, 1, "=")
           second == Strtok(first.buf, a + 2, "nl")
<1>1. a \in Nat \ {0} /\ b \in Nat
  OBVIOUS
<1>2. /\ Len(line) = a + b + 2
      /\ \A i \in 1 .. a : line[i] = name[i]
      /\ line[a + 1] = "="
      /\ \A i \in 1 .. b : line[a + 1 + i] = number[i]
      /\ line[a + b + 2] = "nl"
  <2> DEFINE B  == Letter \cup Digit \cup {"=", "nl"}
             l1 == name \o <<"=">>
             l2 == l1 \o number
  <2>1. name \in Seq(B) /\ number \in Seq(B) /\ <<"=">> \in Seq(B) /\ <<"nl">> \in Seq(B)
    OBVIOUS
  <2> HIDE DEF B
  <2>2. /\ l1 \in Seq(B) /\ Len(l1) = a + 1 /\ l1[a + 1] = "="
        /\ \A i \in 1 .. a : l1[i] = name[i]
    BY <1>1, <2>1
  <2> HIDE DEF l1
  <2>3. /\ l2 \in Seq(B) /\ Len(l2) = a + 1 + b
        /\ \A i \in 1 .. a + 1 : l2[i] = l1[i]
        /\ \A i \in 1 .. b : l2[a + 1 + i] = number[i]
    BY <1>1, <2>1, <2>2
  <2> HIDE DEF l2
  <2>4. /\ Len(l2 \o <<"nl">>) = a + b + 2
        /\ \A i \in 1 .. a + 1 + b : (l2 \o <<"nl">>)[i] = l2[i]
        /\ (l2 \o <<"nl">>)[a + b + 2] = "nl"
    <3>1. Len(<<"nl">>) = 1 /\ <<"nl">>[1] = "nl"
      OBVIOUS
    <3>2. PICK end \in Seq(B) : end = <<"nl">>
      BY <2>1
    <3> HIDE DEF a, b, line
    <3>3. Len(l2) \in Nat /\ Len(end) = 1 /\ end[1] = "nl"
      BY <2>3, <3>1, <3>2
    <3>4. /\ Len(l2 \o end) = Len(l2) + Len(end)
          /\ \A i \in 1 .. Len(l2) + Len(end) :
                (l2 \o end)[i] = IF i <= Len(l2) THEN l2[i] ELSE end[i - Len(l2)]
      BY <2>3, ConcatProperties
    <3>5. (l2 \o end)[Len(l2) + 1] = "nl"
      <4>1. /\ Len(l2) + 1 \in 1 .. Len(l2) + Len(end) /\ ~(Len(l2) + 1 <= Len(l2))
            /\ (Len(l2) + 1) - Len(l2) = 1
        BY <3>3
      <4> QED
        BY <3>3, <3>4, <4>1
    <3> QED
      BY <1>1, <2>3, <3>2, <3>3, <3>4, <3>5
  <2>5. line = l2 \o <<"nl">>
    BY DEF l1, l2
  <2> HIDE DEF line
  <2>6. \A i \in 1 .. a : line[i] = name[i]
    BY <1>1, <2>2, <2>3, <2>4, <2>5
  <2>7. line[a + 1] = "="
    <3>1. a + 1 \in 1 .. a + 1 /\ a + 1 \in 1 .. a + 1 + b
      BY <1>1
    <3> QED
      BY <2>2, <2>3, <2>4, <2>5, <3>1
  <2>8. \A i \in 1 .. b : line[a + 1 + i] = number[i]
    <3>1. \A i \in 1 .. b : a + 1 + i \in 1 .. a + 1 + b
      BY <1>1
    <3> QED
      BY <2>3, <2>4, <2>5, <3>1
  <2> QED
    BY <2>4, <2>5, <2>6, <2>7, <2>8
<1> HIDE DEF line
<1>3. SUFFICES ASSUME Len(line) <= Size
               PROVE  /\ Parse(r).name = {name}
                      /\ number # <<>> => Parse(r).arg = {Atoi(number)}
  BY DEF LineIsHeard, line
<1>4. Size \in Nat /\ a + b + 2 <= Size
  BY <1>2, <1>3, CommandLineAssumption
<1>5. r \in Seq(A) /\ Len(r) = Size
  <2>1. r \in [1 .. Size -> A]
    BY DEF Receive
  <2> HIDE DEF A, r
  <2> QED
    BY <1>4, <2>1
<1>6. \A i \in 1 .. a + b + 2 : r[i] = line[i]
  BY <1>1, <1>2, <1>4 DEF Receive
<1> HIDE DEF A, r
<1>7. /\ \A i \in 1 .. a : name[i] \in Letter
      /\ \A i \in 1 .. b : number[i] \in Digit
  OBVIOUS
<1>8. /\ \A c \in Letter : c # "=" /\ c # "nul"
      /\ \A c \in Digit : c # "nl" /\ c # "nul"
  BY CommandLineAssumption
<1> HIDE DEF a, b
<1>9. /\ first.token = {SubSeq(r, 1, a)}
      /\ first.buf = Cut(r, a + 1)
  <2>1. r[a + 1] = "="
    BY <1>1, <1>2, <1>6
  <2>2. \A i \in 1 .. (a + 1) - 1 : r[i] # "=" /\ r[i] # "nul"
    BY <1>1, <1>2, <1>6, <1>7, <1>8
  <2>3. a + 1 \in Nat /\ 1 < a + 1 /\ a + 1 <= Size /\ (a + 1) - 1 = a
    BY <1>1, <1>4
  <2> QED
    <3> DEFINE p == 1
               e == a + 1
    <3>1. EndsWith(r, p, e, "=") /\ first = Strtok(r, p, "=")
      BY <2>1, <2>2 DEF EndsWith
    <3>2. p \in Nat \ {0} /\ e \in Nat /\ p < e /\ e <= Size
      BY <2>3
    <3> HIDE DEF p, e, first
    <3>3. /\ Strtok(r, p, "=").token = {SubSeq(r, p, e - 1)}
          /\ Strtok(r, p, "=").buf = Cut(r, e)
      <4> HIDE DEF r
      <4> QED
        BY ONLY <1>5, <3>1, <3>2, TokenFound
    <3>4. /\ first.token = {SubSeq(r, p, e - 1)}
          /\ first.buf = Cut(r, e)
      BY ONLY <3>1, <3>3
    <3> QED
      BY <2>3, <3>4 DEF p, e
<1>10. SubSeq(r, 1, a) = name
  <2>1. \A i \in 1 .. a : r[0 + i] = name[i]
    BY <1>1, <1>2, <1>6
  <2>2. 0 + 1 = 1 /\ 0 + a = a /\ 0 + a <= Len(r)
    BY <1>1, <1>4, <1>5
  <2> QED
    BY <1>5, <2>1, <2>2, PartIsAll DEF a
<1>11. first.token = {name} /\ (CHOOSE t \in first.token : TRUE) = name
  BY <1>9, <1>10
<1>12. Parse(r).name = {name} /\ Parse(r).arg = {Atoi(t) : t \in second.token}
  <2> HIDE DEF first
  <2>1. first.token # {}
    BY <1>11
  <2> QED
    BY <1>11, <2>1 DEF Parse, first, a
<1>13. ASSUME number # <<>> PROVE second.token = {number}
  <2> DEFINE f == first.buf
  <2>1. b # 0
    BY <1>13 DEF b
  <2>2. f \in Seq(A) /\ Len(f) = Size
    <3>1. "nul" \in A
      BY DEF A
    <3>2. f = [r EXCEPT ![a + 1] = "nul"]
      BY <1>9 DEF Cut
    <3> HIDE DEF f
    <3>3. r \in [1 .. Size -> A]
      BY <1>5
    <3>4. f \in [1 .. Size -> A]
      BY <3>1, <3>2, <3>3
    <3> QED
      BY <1>4, <3>4
  <2>3. \A i \in 1 .. Size : i # a + 1 => f[i] = r[i]
    <3>1. f = [r EXCEPT ![a + 1] = "nul"] /\ r \in [1 .. Size -> A]
      BY <1>5, <1>9 DEF Cut
    <3> HIDE DEF f
    <3> QED
      BY <3>1
  <2> HIDE DEF f
  <2>4. \A i \in 1 .. b : f[(a + 1) + i] = number[i]
    <3>1. \A i \in 1 .. b : /\ a + 1 + i \in 1 .. a + b + 2 /\ a + 1 + i # a + 1
                            /\ a + 1 + i \in 1 .. Size
      BY <1>1, <1>4
    <3> QED
      BY <1>2, <1>6, <2>3, <3>1
  <2>5. f[a + 2 + b] = "nl"
    <3>1. /\ a + b + 2 \in 1 .. a + b + 2 /\ a + b + 2 # a + 1
          /\ a + b + 2 \in 1 .. Size /\ a + 2 + b = a + b + 2
      BY <1>1, <1>4
    <3> QED
      BY <1>2, <1>6, <2>3, <3>1
  <2>6. \A i \in a + 2 .. a + 2 + b - 1 : f[i] # "nl" /\ f[i] # "nul"
    <3> SUFFICES ASSUME NEW i \in a + 2 .. a + 2 + b - 1
                 PROVE  f[i] # "nl" /\ f[i] # "nul"
      OBVIOUS
    <3>1. i - (a + 1) \in 1 .. b /\ (a + 1) + (i - (a + 1)) = i
      BY <1>1
    <3> QED
      BY <1>7, <1>8, <2>4, <3>1
  <2>7. second.token = {SubSeq(f, a + 2, a + 2 + b - 1)}
    <3> DEFINE p == a + 2
               e == a + 2 + b
    <3>1. p \in Nat \ {0} /\ e \in Nat /\ p < e /\ e <= Size
      BY <1>1, <1>4, <2>1
    <3>2. f[e] = "nl" /\ \A i \in p .. e - 1 : f[i] # "nl" /\ f[i] # "nul"
      BY <1>1, <2>5, <2>6
    <3>3. second = Strtok(f, p, "nl")
      BY DEF f
    <3> HIDE DEF p, e, second
    <3>4. EndsWith(f, p, e, "nl")
      BY <3>2 DEF EndsWith
    <3>5. Strtok(f, p, "nl").token = {SubSeq(f, p, e - 1)}
      <4> HIDE DEF f
      <4> QED
        BY ONLY <2>2, <3>1, <3>4, TokenFound
    <3>6. second.token = {SubSeq(f, p, e - 1)}
      BY ONLY <3>3, <3>5
    <3>7. e - 1 = a + 2 + b - 1
      BY <1>1 DEF e
    <3> QED
      BY <3>6, <3>7 DEF p
  <2>8. SubSeq(f, (a + 1) + 1, (a + 1) + b) = number
    <3>1. a + 1 \in Nat /\ a + 1 + b <= Len(f)
      BY <1>1, <1>4, <2>2
    <3> QED
      BY <2>2, <2>4, <3>1, PartIsAll DEF b
  <2>9. (a + 1) + 1 = a + 2 /\ (a + 1) + b = a + 2 + b - 1
    BY <1>1
  <2> QED
    BY <2>7, <2>8, <2>9
<1> HIDE DEF second, first
<1> QED
  BY <1>12, <1>13

-----------------------------------------------------------------------------
(* The invariants of MCAlgorithms *)

\* What a run may pick, for every value of the bounds
InputOK ==
  \/ input = [for |-> "nothing"]
  \/ \E bytes \in Seq(Byte) : input = [for |-> "cobs", bytes |-> bytes]
  \/ \E h \in Int, s \in Channel, v \in Channel :
        input = [for |-> "led", h |-> h, s |-> s, v |-> v]

LEMMA BoundedSeqIsSeq ==
  ASSUME NEW S, NEW n, NEW s \in BoundedSeq(S, n)
  PROVE  s \in Seq(S)
<1>1. PICK m \in 0 .. n : s \in [1 .. m -> S]
  BY DEF BoundedSeq, SeqOf
<1>2. CASE n \in Nat
  BY <1>1, <1>2
<1> QED
  BY <1>1

LEMMA InputIsOK == Spec => []InputOK
<1>1. Init => InputOK
  BY DEF Init, InputOK
<1>2. InputOK /\ [Next]_vars => InputOK'
  <2> SUFFICES ASSUME InputOK, [Next]_vars PROVE InputOK'
    OBVIOUS
  <2>1. CASE PickBytes
    <3>1. PICK bytes \in BoundedSeq(Byte, MaxBytes) : input' = [for |-> "cobs", bytes |-> bytes]
      BY <2>1 DEF PickBytes, Pick
    <3> QED
      BY <3>1, BoundedSeqIsSeq DEF InputOK
  <2>2. CASE PickColour
    <3>1. PICK turn \in {-360, 0, 360}, sector \in 0 .. 5, d \in -2 .. 31,
               s \in {0, 1, 100, 254, 255}, v \in {0, 1, 59, 61, 254, 255} :
             Pick([for |-> "led", h |-> turn + 60 * sector + d, s |-> s, v |-> v])
      BY <2>2, Zenon DEF PickColour
    <3>2. turn + 60 * sector + d \in Int /\ s \in Channel /\ v \in Channel
      BY DEF Channel
    <3> QED
      BY <3>1, <3>2 DEF InputOK, Pick
  <2>3. CASE HostSendsLine
    BY <2>3 DEF HostSendsLine, InputOK
  <2>4. CASE UNCHANGED vars
    BY <2>4 DEF vars, InputOK
  <2> QED
    BY <2>1, <2>2, <2>3, <2>4 DEF Next
<1> QED
  BY <1>1, <1>2, PTL DEF Spec

\* Neighbouring hues give neighbouring colours (led_utils.c:16-60), for every
\* colour, not only around the borders of the sectors.
THEOREM ColoursStayContinuous == Spec => []ColoursAreContinuous
<1>1. InputOK => ColoursAreContinuous
  BY ColoursAreSmooth DEF InputOK, ColoursAreContinuous
<1> QED
  BY <1>1, InputIsOK, PTL

\* What cobs_encode writes is a sound frame (cobs.c:16-54), for messages of every
\* length and every length of a full block.
THEOREM FramesStaySound == Spec => []CobsFrames
<1>1. InputOK => CobsFrames
  BY FramesAreSound DEF InputOK, CobsFrames
<1> QED
  BY <1>1, InputIsOK, PTL

\* cobs_decode stays inside any bytes it is given and never overtakes itself
\* (cobs.c:77-98), for frames of every length.
THEOREM DecodingStaysInPlace == Spec => []CobsDecodesInPlace
<1>1. InputOK => CobsDecodesInPlace
  BY DecoderStops DEF InputOK, CobsDecodesInPlace
<1> QED
  BY <1>1, InputIsOK, PTL

\* cobs_decode undoes cobs_encode (cobs.c:16, 64), for messages of every length and
\* every length of a full block.
THEOREM RoundTripHolds == Spec => []CobsRoundTrip
<1>1. InputOK => CobsRoundTrip
  BY DecodingUndoesEncoding DEF InputOK, CobsRoundTrip
<1> QED
  BY <1>1, InputIsOK, PTL

\* Whatever lines came before, the next well-formed one is understood
\* (main.c:49-51), for every size of the buffer, alphabet and number of lines.
THEOREM CommandsStayHeard == Spec => []CommandsAreHeard
<1>1. CommandsAreHeard
  <2> SUFFICES ASSUME NEW name \in BoundedSeq(Letter, 2) \ {<<>>},
                      NEW number \in BoundedSeq(Digit, 2)
               PROVE  LineIsHeard(buf, name, number)
    BY DEF CommandsAreHeard
  <2>1. name \in Seq(Letter) /\ name # <<>> /\ number \in Seq(Digit)
    BY BoundedSeqIsSeq
  <2> QED
    BY <2>1, LinesAreHeard
<1> QED
  BY <1>1, PTL
=============================================================================

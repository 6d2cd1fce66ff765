----------------------------- MODULE CobsProofs -----------------------------
(***************************************************************************)
(* COBS for messages and frames of every length: what one turn of each     *)
(* loop of cobs.c does, what a run of the encoder keeps, and that the      *)
(* decoder gives every message back.                                       *)
(***************************************************************************)
EXTENDS Cobs, SequenceTheorems, WellFoundedInduction, TLAPS

(* Runs of a loop *)

\* Induction for a set of numbers: what 0 is in, and n + 1 with n, holds them all.
LEMMA NatIndex ==
  ASSUME NEW T, 0 \in T, \A n \in Nat : n \in T => n + 1 \in T
  PROVE  Nat \subseteq T
<1> DEFINE R == OpToRel(<, Nat)
           Left == Nat \ T
<1>1. IsWellFoundedOn(R, Nat)
  BY NatLessThanWellFounded
<1>2. \A m, n \in Nat : m < n => <<m, n>> \in R
  BY DEF OpToRel
<1> HIDE DEF R
<1>3. SUFFICES ASSUME Left # {} PROVE FALSE
  OBVIOUS
<1>4. PICK x \in Left : \A y \in Left : ~(<<y, x>> \in R)
  <2>1. Left \subseteq Nat
    OBVIOUS
  <2> HIDE DEF Left
  <2> QED
    BY <1>1, <1>3, <2>1, WFMin
<1>5. x \in Nat /\ x # 0 /\ x - 1 \in Nat /\ x - 1 < x
  OBVIOUS
<1>6. x - 1 \notin Left
  BY <1>2, <1>4, <1>5
<1> QED
  BY <1>5, <1>6

\* A loop with one turn for each element of its input: its state is in X all the
\* way, and a turn takes it one step.
IsRun(run, X, start, step, input) ==
  /\ run \in [0 .. Len(input) -> X]
  /\ run[0] = start
  /\ \A n \in 1 .. Len(input) : run[n] = step[<<run[n - 1], input[n]>>]

\* Every such loop has a run.
LEMMA RunExists ==
  ASSUME NEW X, NEW start \in X, NEW A, NEW step \in [X \X A -> X],
         NEW input \in Seq(A)
  PROVE  \E run : IsRun(run, X, start, step, input)
<1> DEFINE Runs(n) == {run \in [0 .. n -> X] :
                          /\ run[0] = start
                          /\ \A i \in 1 .. n : run[i] = step[<<run[i - 1], input[i]>>]}
           T == {n \in Nat : n <= Len(input) => Runs(n) # {}}
<1>1. 0 \in T
  <2>1. [i \in 0 .. 0 |-> start] \in Runs(0)
    OBVIOUS
  <2> QED
    BY <2>1
<1>2. ASSUME NEW n \in Nat, n \in T
      PROVE  n + 1 \in T
  <2>1. SUFFICES ASSUME n + 1 <= Len(input) PROVE Runs(n + 1) # {}
    OBVIOUS
  <2>2. PICK run \in Runs(n) : TRUE
    BY <1>2, <2>1
  <2>3. input[n + 1] \in A /\ run[n] \in X
    BY <2>1, <2>2
  <2> DEFINE more == [i \in 0 .. n + 1 |->
                        IF i = n + 1 THEN step[<<run[n], input[n + 1]>>] ELSE run[i]]
  <2>4. step[<<run[n], input[n + 1]>>] \in X
    BY <2>3
  <2>5. more \in [0 .. n + 1 -> X]
    BY <2>2, <2>4
  <2>6. more[0] = start
    BY <2>2
  <2>7. ASSUME NEW i \in 1 .. n + 1
        PROVE  more[i] = step[<<more[i - 1], input[i]>>]
    <3>1. CASE i = n + 1
      <4>1. more[i] = step[<<run[n], input[n + 1]>>] /\ more[n] = run[n] /\ i - 1 = n
        BY <3>1
      <4> QED
        BY <3>1, <4>1
    <3>2. CASE i \in 1 .. n
      BY <2>2, <3>2
    <3> QED
      BY <3>1, <3>2
  <2> QED
    BY <2>5, <2>6, <2>7
<1>3. Len(input) \in T
  <2> HIDE DEF T
  <2>1. Nat \subseteq T
    BY <1>1, <1>2, NatIndex
  <2> QED
    BY <2>1
<1> QED
  BY <1>3 DEF IsRun

-----------------------------------------------------------------------------
(* One turn *)


\* Where an encoder stands: the block under way begins at index at, has code - 1
\* bytes behind it, and no byte but the code to come is zero.
Encoding(s) ==
  /\ s \in [out : Seq(Byte), at : Nat \ {0}, code : 1 .. Full - 1]
  /\ Len(s.out) = s.at + s.code - 1
  /\ \A i \in 1 .. Len(s.out) : i # s.at => s.out[i] # 0

\* Every turn of the loop of cobs_encode keeps that, at any position of a zero
\* and in full blocks (cobs.c:30-50): so the code byte never overflows, and
\* putting it in its place leaves a frame without zeros.
THEOREM EncoderKeepsFrame ==
  /\ Encoding(EncodeStart)
  /\ \A s, b : Encoding(s) /\ b \in Byte => Encoding(EncodeByte(s, b))
  /\ \A s : Encoding(s) =>
       LET frame == [s.out EXCEPT ![s.at] = s.code]
       IN \A i \in 1 .. Len(frame) : frame[i] # 0
<1> Full \in Nat /\ Full > 1
    BY FullAssumption
<1>1. Encoding(EncodeStart)
    BY DEF Encoding, EncodeStart, Byte
<1>2. ASSUME NEW s, NEW b, Encoding(s), b \in Byte
      PROVE  Encoding(EncodeByte(s, b))
  <2> DEFINE grown == IF b = 0 THEN s.out ELSE Append(s.out, b)
             code  == IF b = 0 THEN s.code ELSE s.code + 1
  <2>1. /\ grown \in Seq(Byte) /\ code \in 1 .. Full
        /\ s.at \in 1 .. Len(grown) /\ Len(grown) = s.at + code - 1
        /\ \A i \in 1 .. Len(grown) : i # s.at => grown[i] # 0
    <3>1. CASE b = 0
        BY <1>2, <3>1 DEF Encoding, Byte
    <3>2. CASE b # 0
      <4>1. /\ s.out \in Seq(Byte) /\ s.at \in Nat \ {0} /\ s.code \in 1 .. Full - 1
            /\ Len(s.out) = s.at + s.code - 1 /\ b \in Byte
          BY <1>2 DEF Encoding
      <4>2. grown = Append(s.out, b) /\ code = s.code + 1
          BY <3>2
      <4>3. /\ Append(s.out, b) \in Seq(Byte)
            /\ Len(Append(s.out, b)) = Len(s.out) + 1
            /\ \A i \in 1 .. Len(s.out) : Append(s.out, b)[i] = s.out[i]
            /\ Append(s.out, b)[Len(s.out) + 1] = b
          BY <4>1
      <4>4. \A i \in 1 .. Len(s.out) : i # s.at => s.out[i] # 0
          BY <1>2 DEF Encoding
      <4>5. Len(grown) = Len(s.out) + 1
          BY <4>2, <4>3
      <4>6. ASSUME NEW i \in 1 .. Len(grown), i # s.at
            PROVE  grown[i] # 0
        <5>1. CASE i \in 1 .. Len(s.out)
            BY <4>2, <4>3, <4>4, <4>6, <5>1
        <5>2. CASE i = Len(s.out) + 1
            BY <3>2, <4>2, <4>3, <5>2
        <5> QED
            BY <4>1, <4>5, <5>1, <5>2
      <4> HIDE DEF grown, code
      <4>7. grown \in Seq(Byte)
          BY <4>2, <4>3
      <4>8. code \in 1 .. Full /\ s.at \in 1 .. Len(grown)
            /\ Len(grown) = s.at + code - 1
        <5>1. Len(grown) = s.at + s.code
            BY <4>1, <4>5
        <5> QED
            BY <4>1, <4>2, <5>1
      <4>9. \A i \in 1 .. Len(grown) : i # s.at => grown[i] # 0
          BY <4>6
      <4> QED
          BY <4>7, <4>8, <4>9
    <3> QED
        BY <3>1, <3>2
  <2>2. CASE b = 0 \/ code = Full
    <3> DEFINE closed == [grown EXCEPT ![s.at] = code]
    <3>1. EncodeByte(s, b) =
            [out |-> Append(closed, 0), at |-> Len(grown) + 1, code |-> 1]
        BY <2>2 DEF EncodeByte
    <3> HIDE DEF grown, code
    <3>2. /\ closed \in Seq(Byte) /\ Len(closed) = Len(grown)
          /\ \A i \in 1 .. Len(closed) : closed[i] # 0
        BY <2>1 DEF Byte
    <3> HIDE DEF closed
    <3>3. /\ Append(closed, 0) \in Seq(Byte)
          /\ Len(Append(closed, 0)) = Len(grown) + 1
          /\ \A i \in 1 .. Len(grown) + 1 :
                i # Len(grown) + 1 => Append(closed, 0)[i] # 0
        BY <3>2 DEF Byte
    <3> QED
        BY <2>1, <3>1, <3>3 DEF Encoding
  <2>3. CASE ~(b = 0 \/ code = Full)
    <3>1. EncodeByte(s, b) = [s EXCEPT !.out = grown, !.code = code]
        BY <2>3 DEF EncodeByte
    <3>2. code \in 1 .. Full - 1
        BY <2>1, <2>3
    <3> HIDE DEF grown, code
    <3> QED
        BY <1>2, <2>1, <3>1, <3>2 DEF Encoding
  <2> QED
      BY <2>2, <2>3
<1>3. ASSUME NEW s, Encoding(s)
      PROVE  \A i \in 1 .. Len([s.out EXCEPT ![s.at] = s.code]) :
                [s.out EXCEPT ![s.at] = s.code][i] # 0
    BY <1>3 DEF Encoding, Byte
<1> QED
    BY <1>1, <1>2, <1>3

Decoding == [read : Nat, out : Seq(Byte), ok : BOOLEAN]

\* Every turn of the loop of cobs_decode, over any bytes at all, stays inside
\* the frame, writes nothing it has not read, and gets on by a byte at least
\* unless it refuses the frame (cobs.c:77-96): it ends.
THEOREM DecoderIsSteady ==
  /\ \A frame \in Seq(Byte) : DecodeStart \in Decoding /\ Steady(frame, DecodeStart)
  /\ \A frame \in Seq(Byte), s \in Decoding :
       Steady(frame, s) /\ s.read < Len(frame) =>
         /\ DecodeBlock(frame, s) \in Decoding
         /\ Steady(frame, DecodeBlock(frame, s))
         /\ DecodeBlock(frame, s).ok => DecodeBlock(frame, s).read > s.read
<1> Full \in Nat /\ Full > 1
    BY FullAssumption
<1>1. ASSUME NEW frame \in Seq(Byte)
      PROVE  DecodeStart \in Decoding /\ Steady(frame, DecodeStart)
    BY DEF DecodeStart, Decoding, Steady
<1>2. ASSUME NEW frame \in Seq(Byte), NEW s \in Decoding,
             Steady(frame, s), s.read < Len(frame)
      PROVE  /\ DecodeBlock(frame, s) \in Decoding
             /\ Steady(frame, DecodeBlock(frame, s))
             /\ DecodeBlock(frame, s).ok => DecodeBlock(frame, s).read > s.read
  <2> DEFINE code == frame[s.read + 1]
             read == s.read + (IF code = 0 THEN 1 ELSE code)
             body == SubSeq(frame, s.read + 2, read)
             tail == IF code # Full /\ read # Len(frame) THEN <<0>> ELSE <<>>
  <2>1. s.read \in Nat /\ s.out \in Seq(Byte) /\ Len(s.out) <= s.read
        /\ code \in Byte /\ Len(frame) \in Nat
      BY <1>2 DEF Decoding, Steady
  <2>2. CASE s.read + code > Len(frame) /\ code # 1
    <3>1. DecodeBlock(frame, s) = [s EXCEPT !.ok = FALSE]
        BY <2>2 DEF DecodeBlock
    <3> QED
        BY <1>2, <3>1 DEF Decoding, Steady
  <2>3. CASE ~(s.read + code > Len(frame) /\ code # 1)
    <3>1. DecodeBlock(frame, s) =
            [s EXCEPT !.read = read, !.out = @ \o body \o tail]
        BY <2>3 DEF DecodeBlock
    <3>2. read \in s.read + 1 .. Len(frame)
      <4>1. code \in Nat
          BY <2>1 DEF Byte
      <4> HIDE DEF code
      <4>2. s.read + code <= Len(frame) \/ code = 1
          BY <2>1, <2>3, <4>1
      <4> QED
          BY <1>2, <2>1, <4>1, <4>2
    <3> HIDE DEF code, read
    <3>3. body \in Seq(Byte) /\ Len(body) = read - s.read - 1
        BY <2>1, <3>2
    <3>4. tail \in Seq(Byte) /\ Len(tail) <= 1
      <4>1. <<0>> \in Seq(Byte) /\ Len(<<0>>) = 1
          BY DEF Byte
      <4>2. <<>> \in Seq(Byte) /\ Len(<<>>) = 0
          OBVIOUS
      <4>3. CASE code # Full /\ read # Len(frame)
        <5>1. tail = <<0>>
            BY <4>3
        <5> QED
            BY <4>1, <5>1
      <4>4. CASE ~(code # Full /\ read # Len(frame))
        <5>1. tail = <<>>
            BY <4>4
        <5> QED
            BY <4>2, <5>1
      <4> QED
          BY <4>3, <4>4
    <3> HIDE DEF body, tail
    <3>5. s.out \o body \o tail \in Seq(Byte)
          /\ Len(s.out \o body \o tail) = Len(s.out) + Len(body) + Len(tail)
      <4>1. s.out \o body \in Seq(Byte) /\ Len(s.out \o body) = Len(s.out) + Len(body)
          BY <2>1, <3>3, ConcatProperties
      <4>2. PICK front \in Seq(Byte) : front = s.out \o body
          BY <4>1
      <4>3. front \o tail \in Seq(Byte) /\ Len(front \o tail) = Len(front) + Len(tail)
          BY <3>4, ConcatProperties
      <4> QED
          BY <4>1, <4>2, <4>3
    <3>6. /\ DecodeBlock(frame, s).read = read
          /\ DecodeBlock(frame, s).out = s.out \o body \o tail
          /\ DecodeBlock(frame, s).ok = s.ok
          /\ DecodeBlock(frame, s) =
               [read |-> read, out |-> s.out \o body \o tail, ok |-> s.ok]
        BY <3>1 DEF Decoding
    <3>7. Len(s.out \o body \o tail) <= read
        BY <2>1, <3>2, <3>3, <3>4, <3>5
    <3>8. DecodeBlock(frame, s) \in Decoding
        BY <2>1, <3>2, <3>5, <3>6 DEF Decoding
    <3> QED
        BY <2>1, <3>2, <3>6, <3>7, <3>8 DEF Steady
  <2> QED
      BY <2>2, <2>3
<1> QED
    BY <1>1, <1>2

-----------------------------------------------------------------------------
(* The encoder's run *)

\* A run of the encoder exists and does one EncodeByte for each byte.
LEMMA EncoderRuns ==
  ASSUME NEW message \in Seq(Byte)
  PROVE  /\ EncodeRun(message)[0] = EncodeStart
         /\ \A n \in 1 .. Len(message) :
              EncodeRun(message)[n] = EncodeByte(EncodeRun(message)[n - 1], message[n])
         /\ \A n \in 0 .. Len(message) : Encoding(EncodeRun(message)[n])
<1> DEFINE X    == {s \in [out : Seq(Byte), at : Nat \ {0}, code : 1 .. Full - 1] :
                       Encoding(s)}
           step == [x \in X \X Byte |-> EncodeByte(x[1], x[2])]
<1>1. \A s : Encoding(s) <=> s \in X
  BY DEF Encoding
<1>2. EncodeStart \in X
  BY <1>1, EncoderKeepsFrame
<1>3. step \in [X \X Byte -> X]
  <2>1. ASSUME NEW x \in X \X Byte PROVE EncodeByte(x[1], x[2]) \in X
    <3>1. x[1] \in X /\ x[2] \in Byte
      OBVIOUS
    <3> HIDE DEF X
    <3> QED
      BY <1>1, <3>1, EncoderKeepsFrame
  <2> HIDE DEF X
  <2> QED
    BY <2>1
<1>4. \A s \in X, b \in Byte : step[<<s, b>>] = EncodeByte(s, b)
  <2> HIDE DEF X
  <2> QED
    OBVIOUS
<1> HIDE DEF X, step
<1>5. PICK run : IsRun(run, X, EncodeStart, step, message)
  BY <1>2, <1>3, RunExists
<1>6. /\ Len(message) \in Nat /\ run \in [0 .. Len(message) -> X]
      /\ run[0] = EncodeStart
  BY <1>5 DEF IsRun
<1>7. \A n \in 1 .. Len(message) : run[n] = EncodeByte(run[n - 1], message[n])
  <2>1. \A n \in 1 .. Len(message) : run[n - 1] \in X /\ message[n] \in Byte
    BY <1>6
  <2> QED
    BY <1>4, <1>5, <2>1 DEF IsRun
<1>8. run = [n \in 0 .. Len(message) |->
               IF n = 0 THEN EncodeStart ELSE EncodeByte(run[n - 1], message[n])]
  BY <1>6, <1>7
<1> DEFINE Body(f) == [n \in 0 .. Len(message) |->
               IF n = 0 THEN EncodeStart ELSE EncodeByte(f[n - 1], message[n])]
           r == EncodeRun(message)
<1>9. r = Body(r)
  <2>1. \E f : f = Body(f)
    BY <1>8
  <2> QED
    BY <2>1 DEF EncodeRun
<1> HIDE DEF r
<1>10. /\ r[0] = EncodeStart
       /\ \A n \in 1 .. Len(message) : r[n] = EncodeByte(r[n - 1], message[n])
  BY <1>6, <1>9
<1>11. \A n \in 0 .. Len(message) : Encoding(r[n])
  <2> DEFINE T == {n \in Nat : n <= Len(message) => Encoding(r[n])}
  <2>1. 0 \in T
    BY <1>10, EncoderKeepsFrame
  <2>2. ASSUME NEW n \in Nat, n \in T PROVE n + 1 \in T
    <3> SUFFICES ASSUME n + 1 <= Len(message) PROVE Encoding(r[n + 1])
      OBVIOUS
    <3>1. n + 1 \in 1 .. Len(message) /\ (n + 1) - 1 = n /\ Encoding(r[n])
      BY <1>6, <2>2
    <3>2. message[n + 1] \in Byte /\ r[n + 1] = EncodeByte(r[n], message[n + 1])
      BY <1>10, <3>1
    <3> QED
      BY <3>1, <3>2, EncoderKeepsFrame
  <2>3. Nat \subseteq T
    <3> HIDE DEF T
    <3> QED
      BY <2>1, <2>2, NatIndex
  <2> QED
    BY <1>6, <2>3
<1> QED
  BY <1>10, <1>11 DEF r

\* One turn of cobs_encode, by what it does to the block under way: the byte goes
\* into it, or it is closed behind the bytes o with the code c.
Closes(s, t, o, c) ==
  /\ t.out = Append([o EXCEPT ![s.at] = c], 0)
  /\ t.at = Len(o) + 1
  /\ t.code = 1

LEMMA OneByte ==
  ASSUME NEW s, Encoding(s), NEW b \in Byte
  PROVE  LET t == EncodeByte(s, b)
         IN \/ /\ b # 0 /\ s.code + 1 < Full
               /\ t.out = Append(s.out, b) /\ t.at = s.at /\ t.code = s.code + 1
            \/ b # 0 /\ s.code + 1 = Full /\ Closes(s, t, Append(s.out, b), Full)
            \/ b = 0 /\ Closes(s, t, s.out, s.code)
<1>1. Full \in Nat /\ s.code \in 1 .. Full - 1
  BY FullAssumption DEF Encoding
<1>2. CASE b = 0
  BY <1>2 DEF EncodeByte, Closes
<1>3. CASE b # 0 /\ s.code + 1 = Full
  BY <1>3 DEF EncodeByte, Closes
<1>4. CASE b # 0 /\ s.code + 1 # Full
  <2>1. s.code + 1 < Full
    BY <1>1, <1>4
  <2>2. EncodeByte(s, b) = [s EXCEPT !.out = Append(s.out, b), !.code = s.code + 1]
    BY <1>4 DEF EncodeByte
  <2> QED
    BY <1>4, <2>1, <2>2 DEF Encoding
<1> QED
  BY <1>2, <1>3, <1>4

\* Putting a byte into its place
LEMMA PutByte ==
  ASSUME NEW o \in Seq(Byte), NEW at \in Nat, NEW c \in Byte
  PROVE  /\ [o EXCEPT ![at] = c] \in Seq(Byte)
         /\ Len([o EXCEPT ![at] = c]) = Len(o)
<1> DEFINE p == [o EXCEPT ![at] = c]
<1>1. Len(o) \in Nat /\ o \in [1 .. Len(o) -> Byte]
  OBVIOUS
<1>2. p \in [1 .. Len(o) -> Byte]
  BY <1>1
<1> HIDE DEF p
<1>3. p \in Seq(Byte) /\ Len(p) = Len(o)
  BY <1>1, <1>2
<1> QED
  BY <1>3 DEF p

\* What a frame costs: a byte for the first code, and one for each block that is
\* closed because it is full; zeros cost nothing.
Cost(n, s) ==
  \E full \in Nat : /\ Len(s.out) = n + 1 + full
                    /\ full * (Full - 1) + s.code - 1 <= n

LEMMA CostOfByte ==
  ASSUME NEW n \in Nat, NEW s, Encoding(s), NEW b \in Byte, Cost(n, s)
  PROVE  Cost(n + 1, EncodeByte(s, b))
<1> DEFINE t == EncodeByte(s, b)
<1>1. /\ Full \in Nat /\ Full > 1
      /\ s.out \in Seq(Byte) /\ s.at \in Nat /\ s.code \in Nat /\ Len(s.out) \in Nat
  BY FullAssumption DEF Encoding
<1>2. PICK full \in Nat : /\ Len(s.out) = n + 1 + full
                          /\ full * (Full - 1) + s.code - 1 <= n
  BY DEF Cost
<1>3. /\ Append(s.out, b) \in Seq(Byte)
      /\ Len(Append(s.out, b)) = n + 2 + full
  BY <1>1, <1>2
<1>4. \A o \in Seq(Byte) : \A c :
        Len(Append([o EXCEPT ![s.at] = c], 0)) = Len(o) + 1
  OBVIOUS
<1> DEFINE paid == full * (Full - 1)
<1>5. paid \in Nat /\ (full + 1) * (Full - 1) = paid + Full - 1
  BY <1>1
<1>6. paid + s.code - 1 <= n
  BY <1>2
<1>7. CASE b # 0 /\ s.code + 1 < Full
  <2>1. t.out = Append(s.out, b) /\ t.code = s.code + 1
    BY <1>1, <1>7, OneByte
  <2>2. Len(t.out) = (n + 1) + 1 + full /\ paid + t.code - 1 <= n + 1
    <3> HIDE DEF t, paid
    <3> QED
      BY <1>1, <1>3, <1>5, <1>6, <2>1
  <2> QED
    BY <2>2 DEF Cost
<1>8. CASE b # 0 /\ s.code + 1 = Full
  <2>1. Closes(s, t, Append(s.out, b), Full)
    BY <1>1, <1>8, OneByte
  <2>2. Len(t.out) = (n + 1) + 1 + (full + 1)
        /\ (full + 1) * (Full - 1) + t.code - 1 <= n + 1
    <3> HIDE DEF t, paid
    <3>1. Len(t.out) = Len(Append(s.out, b)) + 1 /\ t.code = 1
      BY <1>3, <1>4, <2>1 DEF Closes
    <3> QED
      BY <1>1, <1>2, <1>3, <1>5, <1>6, <1>8, <3>1
  <2> QED
    BY <2>2 DEF Cost
<1>9. CASE b = 0
  <2>1. Closes(s, t, s.out, s.code)
    BY <1>1, <1>9, OneByte
  <2>2. Len(t.out) = (n + 1) + 1 + full /\ paid + t.code - 1 <= n + 1
    <3> HIDE DEF t, paid
    <3>1. Len(t.out) = Len(s.out) + 1 /\ t.code = 1
      BY <1>1, <1>4, <2>1 DEF Closes
    <3> QED
      BY <1>1, <1>2, <1>5, <1>6, <3>1
  <2> QED
    BY <2>2 DEF Cost
<1> QED
  <2>1. s.code + 1 <= Full
    BY <1>1 DEF Encoding
  <2> QED
    BY <1>1, <1>7, <1>8, <1>9, <2>1

\* So many full blocks as are paid for fit the message.
LEMMA FullBlocksFit ==
  ASSUME NEW d \in Nat \ {0}, NEW n \in Nat, NEW full \in Nat, full * d <= n
  PROVE  full <= n \div d
<1> DEFINE q == n \div d
<1>1. q \in Nat /\ n < d * q + d
  OBVIOUS
<1> HIDE DEF q
<1>2. full * d < (q + 1) * d
  BY <1>1
<1>3. full < q + 1
  <2> SUFFICES ASSUME full >= q + 1 PROVE FALSE
    BY <1>1
  <2>1. full * d >= (q + 1) * d
    BY <1>1
  <2> QED
    BY <1>1, <1>2, <2>1
<1> QED
  BY <1>1, <1>3 DEF q

\* Every frame cobs_encode writes is free of zeros, made of bytes, and no longer
\* than its caller reckons with (cobs.c:16-54), whatever the message.
THEOREM FramesAreSound ==
  ASSUME NEW message \in Seq(Byte)
  PROVE  FrameIsSound(message)
<1> DEFINE run == EncodeRun(message)
           N   == Len(message)
           s   == run[N]
           frame == [s.out EXCEPT ![s.at] = s.code]
           T == {n \in Nat : n <= N => Cost(n, run[n])}
<1>1. N \in Nat /\ Full \in Nat /\ Full > 1
  BY FullAssumption
<1>2. /\ run[0] = EncodeStart
      /\ \A n \in 1 .. N : run[n] = EncodeByte(run[n - 1], message[n])
      /\ \A n \in 0 .. N : Encoding(run[n])
  BY EncoderRuns
<1> HIDE DEF run
<1>3. 0 \in T
  <2>1. Len(run[0].out) = 1 /\ run[0].code = 1
    BY <1>2 DEF EncodeStart
  <2>2. Len(run[0].out) = 0 + 1 + 0 /\ 0 * (Full - 1) + run[0].code - 1 <= 0
    BY <1>1, <2>1
  <2> QED
    BY <2>2 DEF Cost
<1>4. ASSUME NEW n \in Nat, n \in T PROVE n + 1 \in T
  <2> SUFFICES ASSUME n + 1 <= N PROVE Cost(n + 1, run[n + 1])
    OBVIOUS
  <2>1. n \in 0 .. N /\ n + 1 \in 1 .. N /\ (n + 1) - 1 = n /\ Cost(n, run[n])
    BY <1>1, <1>4
  <2>2. message[n + 1] \in Byte /\ run[n + 1] = EncodeByte(run[n], message[n + 1])
    BY <1>2, <2>1
  <2>3. Encoding(run[n])
    BY <1>2, <2>1
  <2> QED
    BY <2>1, <2>2, <2>3, CostOfByte
<1>5. Cost(N, s)
  <2>1. Nat \subseteq T
    <3> HIDE DEF T
    <3> QED
      BY <1>3, <1>4, NatIndex
  <2> QED
    BY <1>1, <2>1
<1>6. Encoding(s)
  BY <1>1, <1>2
<1>7. frame = Encode(message)
  BY DEF Encode, run
<1> HIDE DEF s
<1>8. /\ frame \in Seq(Byte) /\ Len(frame) = Len(s.out)
      /\ \A i \in 1 .. Len(frame) : frame[i] # 0
  <2>1. s.out \in Seq(Byte) /\ s.code \in Byte
    BY <1>1, <1>6 DEF Encoding, Byte
  <2>2. \A i \in 1 .. Len(frame) : frame[i] # 0
    BY <1>6, EncoderKeepsFrame
  <2>3. frame \in Seq(Byte) /\ Len(frame) = Len(s.out)
    BY <1>6, <2>1, PutByte DEF Encoding
  <2> QED
    BY ONLY <2>2, <2>3
<1>9. Len(frame) <= N + 1 + N \div (Full - 1)
  <2>1. PICK full \in Nat : /\ Len(s.out) = N + 1 + full
                            /\ full * (Full - 1) + s.code - 1 <= N
    BY <1>5 DEF Cost
  <2>2. full * (Full - 1) \in Nat /\ s.code >= 1 /\ s.code \in Nat
    BY <1>1, <1>6 DEF Encoding
  <2>3. full * (Full - 1) <= N
    BY <1>1, <2>1, <2>2
  <2>4. full <= N \div (Full - 1)
    <3>1. Full - 1 \in Nat \ {0} /\ full \in Nat
      BY <1>1, <2>1
    <3> QED
      BY ONLY <1>1, <2>3, <3>1, FullBlocksFit
  <2>5. N \div (Full - 1) \in Int
    BY <1>1
  <2> QED
    BY <1>1, <1>8, <2>1, <2>4, <2>5
<1> HIDE DEF frame
<1>10. \A i \in 1 .. Len(frame) : frame[i] \in Byte \ {0}
  BY <1>8
<1> QED
  BY <1>7, <1>9, <1>10 DEF FrameIsSound

-----------------------------------------------------------------------------
(* The decoder's run *)

\* The loop is done: every byte is read, or the frame is refused.
Stopped(frame, s) == ~Decodes(frame, s)

\* A run of the decoder exists, whatever the frame: every turn of it is steady,
\* and reads a byte at least until it stops.
LEMMA DecoderRuns ==
  ASSUME NEW frame \in Seq(Byte)
  PROVE  LET run == DecodeRun(frame)
         IN /\ run[0] = DecodeStart
            /\ \A k \in 1 .. Len(frame) :
                 run[k] = IF Decodes(frame, run[k - 1]) THEN DecodeBlock(frame, run[k - 1])
                                                       ELSE run[k - 1]
            /\ \A k \in 0 .. Len(frame) :
                 /\ run[k] \in Decoding /\ Steady(frame, run[k])
                 /\ run[k].read >= k \/ Stopped(frame, run[k])
<1> DEFINE X    == {s \in Decoding : Steady(frame, s)}
           Turn(s) == IF Decodes(frame, s) THEN DecodeBlock(frame, s) ELSE s
           step == [x \in X \X Byte |-> Turn(x[1])]
<1>1. DecodeStart \in X
  BY DecoderIsSteady
<1>2. \A s \in X : Turn(s) \in X
  BY DecoderIsSteady DEF Decodes
<1>3. step \in [X \X Byte -> X]
  <2> HIDE DEF X, Turn
  <2> QED
    BY <1>2
<1>4. \A s \in X, b \in Byte : step[<<s, b>>] = Turn(s)
  <2> HIDE DEF X, Turn
  <2> QED
    OBVIOUS
<1> HIDE DEF X, step, Turn
<1>5. PICK run : IsRun(run, X, DecodeStart, step, frame)
  BY <1>1, <1>3, RunExists
<1>6. /\ Len(frame) \in Nat /\ run \in [0 .. Len(frame) -> X]
      /\ run[0] = DecodeStart
  BY <1>5 DEF IsRun
<1>7. \A k \in 1 .. Len(frame) : run[k] = Turn(run[k - 1])
  <2>1. \A k \in 1 .. Len(frame) : run[k - 1] \in X /\ frame[k] \in Byte
    BY <1>6
  <2> QED
    BY <1>4, <1>5, <2>1 DEF IsRun
<1> DEFINE Body(f) == [k \in 0 .. Len(frame) |->
               IF k = 0 THEN DecodeStart
               ELSE IF Decodes(frame, f[k - 1]) THEN DecodeBlock(frame, f[k - 1])
                    ELSE f[k - 1]]
           r == DecodeRun(frame)
<1>8. run = Body(run)
  BY <1>6, <1>7 DEF Turn
<1>9. r = Body(r)
  <2>1. \E f : f = Body(f)
    BY <1>8
  <2> QED
    BY <2>1 DEF DecodeRun
<1> HIDE DEF r
<1>10. /\ r[0] = DecodeStart
       /\ \A k \in 1 .. Len(frame) :
            r[k] = IF Decodes(frame, r[k - 1]) THEN DecodeBlock(frame, r[k - 1])
                                              ELSE r[k - 1]
  BY <1>6, <1>9
<1>11. \A k \in 1 .. Len(frame) : r[k] = Turn(r[k - 1])
  BY <1>10 DEF Turn
<1> DEFINE Good(k) == r[k] \in X /\ (r[k].read >= k \/ Stopped(frame, r[k]))
           T == {k \in Nat : k <= Len(frame) => Good(k)}
<1>12. 0 \in T
  BY <1>1, <1>10 DEF DecodeStart
<1>13. ASSUME NEW k \in Nat, k \in T PROVE k + 1 \in T
  <2> SUFFICES ASSUME k + 1 <= Len(frame) PROVE Good(k + 1)
    OBVIOUS
  <2>1. k + 1 \in 1 .. Len(frame) /\ (k + 1) - 1 = k /\ Good(k)
    BY <1>6, <1>13
  <2>2. r[k + 1] = Turn(r[k]) /\ r[k + 1] \in X
    BY <1>2, <1>11, <2>1
  <2>3. CASE Stopped(frame, r[k])
    BY <2>2, <2>3 DEF Stopped, Turn
  <2>4. CASE ~Stopped(frame, r[k])
    <3>1. /\ r[k].ok /\ r[k].read < Len(frame) /\ r[k].read >= k
          /\ r[k + 1] = DecodeBlock(frame, r[k])
      BY <2>1, <2>2, <2>4 DEF Stopped, Turn, Decodes
    <3>2. r[k] \in Decoding /\ Steady(frame, r[k])
      BY <2>1 DEF X
    <3>3. r[k + 1].ok => r[k + 1].read > r[k].read
      BY <3>1, <3>2, DecoderIsSteady
    <3>4. r[k + 1].read \in Nat /\ r[k].read \in Nat
      BY <2>2, <3>2 DEF X, Decoding
    <3> QED
      BY <2>2, <3>1, <3>3, <3>4 DEF Stopped, Decodes
  <2> QED
    BY <2>3, <2>4
<1>14. \A k \in 0 .. Len(frame) : Good(k)
  <2>1. Nat \subseteq T
    <3> HIDE DEF T
    <3> QED
      BY <1>12, <1>13, NatIndex
  <2> QED
    BY <1>6, <2>1
<1>15. \A s \in X : s \in Decoding /\ Steady(frame, s)
  BY DEF X
<1> HIDE DEF Turn
<1> QED
  BY <1>10, <1>14, <1>15 DEF r

\* cobs_decode, over any bytes, stops after at most as many turns as there are
\* bytes, has then read no byte behind the frame and written none before it was
\* read (cobs.c:77-98), and has accepted the frame only if it read all of it.
THEOREM DecoderStops ==
  ASSUME NEW frame \in Seq(Byte)
  PROVE  /\ Steady(frame, Decoded(frame))
         /\ Stopped(frame, Decoded(frame))
         /\ Decoded(frame).ok => Decoded(frame).read = Len(frame)
<1> DEFINE s == Decoded(frame)
<1>1. Len(frame) \in 0 .. Len(frame)
  OBVIOUS
<1>2. /\ s \in Decoding /\ Steady(frame, s)
      /\ s.read >= Len(frame) \/ Stopped(frame, s)
  BY <1>1, DecoderRuns DEF Decoded
<1> HIDE DEF s
<1>3. s.read \in Nat /\ s.read <= Len(frame) /\ Len(frame) \in Nat
  BY <1>2 DEF Decoding, Steady
<1>4. Stopped(frame, s) /\ (s.ok => s.read = Len(frame))
  BY <1>2, <1>3 DEF Stopped, Decodes
<1> QED
  BY <1>2, <1>4 DEF s

-----------------------------------------------------------------------------
(* What was encoded is decoded *)

\* The beginning of a sequence, put together from two parts of it
LEMMA Joined ==
  ASSUME NEW m \in Seq(Byte), NEW a \in 0 .. Len(m), NEW b \in a .. Len(m)
  PROVE  SubSeq(m, 1, a) \o SubSeq(m, a + 1, b) = SubSeq(m, 1, b)
<1> DEFINE x == SubSeq(m, 1, a)
           y == SubSeq(m, a + 1, b)
           z == SubSeq(m, 1, b)
<1>1. a \in Nat /\ b \in Nat /\ Len(m) \in Nat
  OBVIOUS
<1>2. /\ x \in Seq(Byte) /\ Len(x) = a
      /\ \A i \in 1 .. a : x[i] = m[i]
  OBVIOUS
<1>3. /\ y \in Seq(Byte) /\ Len(y) = b - a
      /\ \A i \in 1 .. b - a : y[i] = m[a + i]
  BY <1>1
<1>4. /\ z \in Seq(Byte) /\ Len(z) = b
      /\ \A i \in 1 .. b : z[i] = m[i]
  BY <1>1
<1> HIDE DEF x, y, z
<1>5. /\ x \o y \in Seq(Byte) /\ Len(x \o y) = b
      /\ \A i \in 1 .. b : (x \o y)[i] = IF i <= a THEN x[i] ELSE y[i - a]
  BY <1>1, <1>2, <1>3
<1>6. ASSUME NEW i \in 1 .. b PROVE (x \o y)[i] = z[i]
  <2>1. CASE i <= a
    BY <1>1, <1>2, <1>4, <1>5, <2>1
  <2>2. CASE i > a
    <3>1. i - a \in 1 .. b - a /\ a + (i - a) = i /\ ~(i <= a)
      BY <1>1, <2>2
    <3>2. (x \o y)[i] = y[i - a] /\ y[i - a] = m[a + (i - a)] /\ z[i] = m[i]
      BY <1>3, <1>4, <1>5, <3>1
    <3> QED
      BY <3>1, <3>2
  <2>3. i \in Nat /\ (i <= a \/ i > a)
    BY <1>1
  <2> QED
    BY ONLY <2>1, <2>2, <2>3
<1>7. x \o y = z
  BY <1>1, <1>4, <1>5, <1>6, SeqEqual
<1> QED
  BY <1>7 DEF x, y, z

LEMMA OneByteLong ==
  ASSUME NEW m \in Seq(Byte), NEW i \in 1 .. Len(m)
  PROVE  SubSeq(m, i, i) = <<m[i]>>
<1> DEFINE x == SubSeq(m, i, i)
           y == <<m[i]>>
<1>1. x \in Seq(Byte) /\ Len(x) = 1 /\ x[1] = m[i]
  OBVIOUS
<1>2. y \in Seq(Byte) /\ Len(y) = 1 /\ y[1] = m[i]
  OBVIOUS
<1> HIDE DEF x, y
<1>3. \A j \in 1 .. 1 : x[j] = y[j]
  BY <1>1, <1>2
<1>4. x = y
  BY <1>1, <1>2, <1>3, SeqEqual
<1> QED
  BY <1>4 DEF x, y

\* A part of one sequence that is a part of another
Same(f, p, m, q, len) == \A i \in 1 .. len : f[p + i] = m[q + i]

LEMMA SamePart ==
  ASSUME NEW f \in Seq(Byte), NEW m \in Seq(Byte), NEW p \in Nat, NEW q \in Nat,
         NEW len \in Nat, p + len <= Len(f), q + len <= Len(m),
         Same(f, p, m, q, len)
  PROVE  SubSeq(f, p + 1, p + len) = SubSeq(m, q + 1, q + len)
<1> DEFINE x == SubSeq(f, p + 1, p + len)
           y == SubSeq(m, q + 1, q + len)
<1>1. /\ x \in Seq(Byte) /\ Len(x) = len
      /\ \A i \in 1 .. len : x[i] = f[p + i]
  OBVIOUS
<1>2. /\ y \in Seq(Byte) /\ Len(y) = len
      /\ \A i \in 1 .. len : y[i] = m[q + i]
  OBVIOUS
<1> HIDE DEF x, y
<1>3. \A i \in 1 .. len : x[i] = y[i]
  BY <1>1, <1>2 DEF Same
<1>4. x = y
  BY <1>1, <1>2, <1>3, SeqEqual
<1> QED
  BY <1>4 DEF x, y

\* The decoder at the code of a block at index at, what it sent out being right
Arrived(at, sent) == [read |-> at - 1, out |-> sent, ok |-> TRUE]

\* The decoder at the code c of a block, with done bytes of the message behind it
\* and the bytes of the block those that follow in the message: it gets them out,
\* and a zero unless the block is full or the frame ends.
LEMMA BlockIsUndone ==
  ASSUME NEW message \in Seq(Byte), NEW frame \in Seq(Byte),
         NEW at \in Nat \ {0}, NEW c \in 1 .. Full, NEW done \in Nat,
         at + c - 1 <= Len(frame), done + c - 1 <= Len(message),
         frame[at] = c,
         Same(frame, at, message, done, c - 1)
  PROVE  DecodeBlock(frame, Arrived(at, SubSeq(message, 1, done))) =
           Arrived(at + c, IF c # Full /\ at + c - 1 # Len(frame)
                           THEN SubSeq(message, 1, done + c - 1) \o <<0>>
                           ELSE SubSeq(message, 1, done + c - 1))
<1> DEFINE d    == Arrived(at, SubSeq(message, 1, done))
           all  == SubSeq(message, 1, done + c - 1)
           body == SubSeq(frame, at + 1, at + c - 1)
           tail == IF c # Full /\ at + c - 1 # Len(frame) THEN <<0>> ELSE <<>>
<1>1. /\ Full \in Nat /\ c \in Nat /\ c # 0 /\ Len(frame) \in Nat
      /\ Len(message) \in Nat /\ at \in Nat
  BY FullAssumption
<1>2. DecodeBlock(frame, d) =
        [d EXCEPT !.read = at + c - 1, !.out = @ \o body \o tail]
  <2>1. /\ d.read = at - 1 /\ d.read + 1 = at /\ d.read + 2 = at + 1
        /\ d.read + c = at + c - 1
    BY <1>1 DEF Arrived
  <2>2. ~(d.read + c > Len(frame) /\ c # 1)
    BY <1>1, <2>1
  <2> HIDE DEF d
  <2> QED
    BY <1>1, <2>1, <2>2 DEF DecodeBlock
<1>3. SubSeq(message, 1, done) \o body = all
  <2>1. body = SubSeq(message, done + 1, done + (c - 1))
    <3>1. SubSeq(frame, at + 1, at + (c - 1)) = SubSeq(message, done + 1, done + (c - 1))
      <4>1. PICK len \in Nat : len = c - 1
        BY <1>1
      <4>2. /\ at + len <= Len(frame) /\ done + len <= Len(message)
            /\ Same(frame, at, message, done, len)
        BY <1>1, <4>1
      <4>3. SubSeq(frame, at + 1, at + len) = SubSeq(message, done + 1, done + len)
        <5>1. at \in Nat
          BY <1>1
        <5> QED
          BY ONLY <4>2, <5>1, frame \in Seq(Byte), message \in Seq(Byte), done \in Nat,
             len \in Nat, SamePart
      <4> QED
        BY <4>1, <4>3
    <3>2. at + (c - 1) = at + c - 1
      BY <1>1
    <3> QED
      BY <3>1, <3>2
  <2>2. done \in 0 .. Len(message) /\ done + (c - 1) \in done .. Len(message)
        /\ done + (c - 1) = done + c - 1
    BY <1>1
  <2> QED
    BY <2>1, <2>2, Joined
<1>4. all \in Seq(Byte)
  BY <1>1
<1>5. DecodeBlock(frame, d) =
        Arrived(at + c, SubSeq(message, 1, done) \o body \o tail)
  <2>1. \A sent \in Seq(Byte) :
           /\ Arrived(at, sent) \in [read : Int, out : Seq(Byte), ok : BOOLEAN]
           /\ Arrived(at, sent).ok /\ Arrived(at, sent).out = sent
    BY DEF Arrived
  <2>2. SubSeq(message, 1, done) \in Seq(Byte)
    BY <1>1
  <2>3. d \in [read : Int, out : Seq(Byte), ok : BOOLEAN] /\ d.ok
        /\ d.out = SubSeq(message, 1, done)
    BY <1>1, <2>1, <2>2
  <2> HIDE DEF d, body, tail
  <2>4. DecodeBlock(frame, d) =
          [read |-> at + c - 1, out |-> d.out \o body \o tail, ok |-> TRUE]
    BY <1>2, <2>3
  <2> QED
    BY <2>3, <2>4 DEF Arrived
<1>6. SubSeq(message, 1, done) \o body \o tail =
        IF c # Full /\ at + c - 1 # Len(frame) THEN all \o <<0>> ELSE all
  <2> HIDE DEF all, body
  <2>1. all \o <<>> = all
    BY <1>4
  <2> QED
    BY <1>3, <2>1
<1> QED
  BY <1>5, <1>6

\* What a decoder gets back from the blocks an encoder has closed.  Of the n bytes
\* the encoder has taken, the last s.code - 1 are in the block under way; whatever
\* comes behind the closed blocks, the decoder arrives there with all the others.
Arrives(frame, s, sent) ==
  \E k \in 0 .. s.at - 1 : DecodeRun(frame)[k] = Arrived(s.at, sent)

Begins(frame, s) ==
  Len(frame) >= s.at /\ \A i \in 1 .. s.at - 1 : frame[i] = s.out[i]

UndoneUpTo(message, done, s) ==
  /\ Same(s.out, s.at, message, done, s.code - 1)
  /\ \A frame \in Seq(Byte) :
       Begins(frame, s) => Arrives(frame, s, SubSeq(message, 1, done))

Undone(message, n, s) ==
  \E done \in Nat : done + s.code = n + 1 /\ UndoneUpTo(message, done, s)

\* The block is closed behind the bytes o with the code c, and the message goes on
\* behind it, with the zero the decoder adds unless the block is full.
LEMMA ClosedIsUndone ==
  ASSUME NEW message \in Seq(Byte), NEW n \in Nat, n + 1 <= Len(message),
         NEW s, NEW at \in Nat \ {0}, s.at = at,
         NEW done \in Nat, UndoneUpTo(message, done, s),
         NEW o \in Seq(Byte), NEW c \in 1 .. Full, NEW t, Closes(s, t, o, c),
         Len(o) = at + c - 1,
         \A i \in 1 .. at - 1 : o[i] = s.out[i],
         Same(o, at, message, done, c - 1),
         \/ c = Full /\ done + c = n + 2
         \/ c < Full /\ done + c = n + 1 /\ message[n + 1] = 0
  PROVE  Undone(message, n + 1, t)
<1>1. /\ Full \in Nat /\ c \in Nat /\ c # 0 /\ Len(message) \in Nat
      /\ at \in Nat /\ at # 0
  BY FullAssumption
<1>2. t.out = Append([o EXCEPT ![at] = c], 0) /\ t.at = at + c /\ t.code = 1
  BY <1>1 DEF Closes
<1>3. \/ c = Full /\ done + c - 1 = n + 1
      \/ c < Full /\ done + c - 1 = n /\ message[n + 1] = 0
  BY <1>1
<1>4. t.out[at] = c /\ \A i \in 1 .. at + c - 1 : i # at => t.out[i] = o[i]
  <2> DEFINE p == [o EXCEPT ![at] = c]
  <2>1. c \in Byte
    BY <1>1 DEF Byte
  <2>2. p \in Seq(Byte) /\ Len(p) = at + c - 1
    BY <1>1, <2>1, PutByte
  <2>3. p[at] = c /\ \A i \in 1 .. at + c - 1 : i # at => p[i] = o[i]
    BY <1>1
  <2> HIDE DEF p
  <2>4. \A i \in 1 .. at + c - 1 : Append(p, 0)[i] = p[i]
    BY <2>2
  <2>5. t.out = Append(p, 0)
    BY <1>2 DEF p
  <2>6. at \in 1 .. at + c - 1
    BY <1>1
  <2> QED
    BY <2>2, <2>3, <2>4, <2>5, <2>6
<1>5. ASSUME NEW frame \in Seq(Byte), Begins(frame, t)
      PROVE  Arrives(frame, t, SubSeq(message, 1, n + 1))
  <2> DEFINE d   == Arrived(at, SubSeq(message, 1, done))
             all == SubSeq(message, 1, done + c - 1)
             run == DecodeRun(frame)
  <2>1. /\ Len(frame) \in Nat /\ Len(frame) >= at + c
        /\ frame[at] = c
        /\ \A i \in 1 .. at + c - 1 : i # at => frame[i] = o[i]
    <3>1. Len(frame) \in Nat /\ Len(frame) >= at + c
      BY <1>1, <1>2, <1>5 DEF Begins
    <3>2. \A i \in 1 .. at + c - 1 : frame[i] = t.out[i]
      <4>1. t.at - 1 = at + c - 1
        BY <1>1, <1>2
      <4> QED
        BY <1>5, <4>1 DEF Begins
    <3>3. at \in 1 .. at + c - 1
      BY <1>1
    <3> QED
      BY <1>4, <3>1, <3>2, <3>3
  <2>2. Begins(frame, s)
    <3>1. \A i \in 1 .. at - 1 : frame[i] = s.out[i]
      BY <1>1, <2>1
    <3>2. Len(frame) >= at
      BY <1>1, <2>1
    <3> QED
      BY <3>1, <3>2 DEF Begins
  <2>3. PICK k \in 0 .. at - 1 : run[k] = d
    BY <2>2 DEF UndoneUpTo, Arrives
  <2>4. k \in Nat /\ k + 1 \in 1 .. Len(frame) /\ (k + 1) - 1 = k /\ k + 1 \in 0 .. t.at - 1
    BY <1>1, <1>2, <2>1, <2>3
  <2>5. Decodes(frame, d)
    BY <1>1, <2>1 DEF Decodes, Arrived
  <2>6. run[k + 1] = DecodeBlock(frame, d)
    <3>1. run[k + 1] = IF Decodes(frame, run[k]) THEN DecodeBlock(frame, run[k]) ELSE run[k]
      <4> HIDE DEF d
      <4> QED
        BY <2>4, DecoderRuns
    <3> HIDE DEF run, d
    <3> QED
      BY <2>3, <2>5, <3>1
  <2> HIDE DEF run
  <2>7. frame[at] = c
    BY <2>1
  <2>8. Same(frame, at, message, done, c - 1)
    <3>1. \A i \in 1 .. c - 1 : o[at + i] = message[done + i]
      BY DEF Same
    <3>2. \A i \in 1 .. c - 1 : frame[at + i] = o[at + i]
      BY <1>1, <2>1
    <3> QED
      BY <3>1, <3>2 DEF Same
  <2>9. DecodeBlock(frame, d) =
          Arrived(at + c, IF c # Full /\ at + c - 1 # Len(frame) THEN all \o <<0>> ELSE all)
    <3> HIDE DEF d, all
    <3>1. at \in Nat \ {0} /\ at + c - 1 <= Len(frame) /\ done + c - 1 <= Len(message)
      <4>1. done + c - 1 <= Len(message)
        BY <1>1, <1>3
      <4>2. at + c - 1 <= Len(frame)
        BY <1>1, <2>1
      <4> QED
        BY <4>1, <4>2
    <3>2. DecodeBlock(frame, Arrived(at, SubSeq(message, 1, done))) =
            Arrived(at + c, IF c # Full /\ at + c - 1 # Len(frame)
                            THEN SubSeq(message, 1, done + c - 1) \o <<0>>
                            ELSE SubSeq(message, 1, done + c - 1))
      BY <1>1, <2>7, <2>8, <3>1, BlockIsUndone
    <3> QED
      BY <3>2 DEF d, all
  <2>10. at + c - 1 # Len(frame)
    BY <1>1, <2>1
  <2>11. SubSeq(message, 1, n + 1) = IF c # Full THEN all \o <<0>> ELSE all
    <3>1. CASE c = Full
      <4>1. done + c - 1 = n + 1
        BY <1>1, <1>3, <3>1
      <4> QED
        BY <3>1, <4>1
    <3>2. CASE c # Full
      <4>1. done + c - 1 = n /\ message[n + 1] = 0
        BY <1>1, <1>3, <3>2
      <4>2. SubSeq(message, n + 1, n + 1) = <<0>>
        <5>1. n + 1 \in 1 .. Len(message)
          BY <1>1
        <5>2. SubSeq(message, n + 1, n + 1) = <<message[n + 1]>>
          BY <5>1, OneByteLong
        <5> QED
          BY <4>1, <5>2
      <4>3. SubSeq(message, 1, n) \o SubSeq(message, n + 1, n + 1) = SubSeq(message, 1, n + 1)
        <5>1. n \in 0 .. Len(message) /\ n + 1 \in n .. Len(message)
          BY <1>1
        <5> QED
          BY <5>1, Joined
      <4> QED
        BY <3>2, <4>1, <4>2, <4>3
    <3> QED
      BY <3>1, <3>2
  <2>12. run[k + 1] = Arrived(t.at, SubSeq(message, 1, n + 1))
    <3>1. t.at = at + c
      BY <1>1, <1>2
    <3> HIDE DEF all, d
    <3> QED
      BY <2>6, <2>9, <2>10, <2>11, <3>1
  <2> QED
    BY <2>4, <2>12 DEF Arrives, run
<1>6. Same(t.out, t.at, message, n + 1, t.code - 1)
  BY <1>2 DEF Same
<1>7. UndoneUpTo(message, n + 1, t)
  BY <1>5, <1>6 DEF UndoneUpTo
<1> QED
  BY <1>2, <1>7 DEF Undone

\* The invariant of the encoder's loop that the round trip rests on.
LEMMA ByteIsUndone ==
  ASSUME NEW message \in Seq(Byte), NEW n \in Nat, n + 1 <= Len(message),
         NEW s, Encoding(s), Undone(message, n, s)
  PROVE  Undone(message, n + 1, EncodeByte(s, message[n + 1]))
<1> DEFINE b    == message[n + 1]
           t    == EncodeByte(s, b)
           more == Append(s.out, b)
<1>1. PICK at \in Nat \ {0}, code \in 1 .. Full - 1 : at = s.at /\ code = s.code
  BY DEF Encoding
<1>2. PICK done \in Nat : done + code = n + 1 /\ UndoneUpTo(message, done, s)
  BY <1>1 DEF Undone
<1>3. /\ Full \in Nat /\ Full > 1 /\ b \in Byte
      /\ code \in Nat /\ code < Full
      /\ s.out \in Seq(Byte) /\ Len(s.out) = at + code - 1
  BY <1>1, FullAssumption DEF Encoding
<1>4. \A i \in 1 .. code - 1 : s.out[at + i] = message[done + i]
  BY <1>1, <1>2 DEF UndoneUpTo, Same
<1>5. done + code = n + 1
  BY <1>2
<1> HIDE DEF b
<1>6. /\ more \in Seq(Byte) /\ Len(more) = at + code
      /\ \A i \in 1 .. at + code - 1 : more[i] = s.out[i]
      /\ more[at + code] = b
  <2>1. at + code = Len(s.out) + 1
    BY <1>3
  <2>2. /\ more \in Seq(Byte) /\ Len(more) = Len(s.out) + 1
        /\ \A i \in 1 .. Len(s.out) : more[i] = s.out[i]
        /\ more[Len(s.out) + 1] = b
    BY <1>3
  <2> HIDE DEF more
  <2> QED
    BY <1>3, <2>1, <2>2
<1>7. \/ /\ b # 0 /\ s.code + 1 < Full
         /\ t.out = more /\ t.at = s.at /\ t.code = s.code + 1
      \/ b # 0 /\ s.code + 1 = Full /\ Closes(s, t, more, Full)
      \/ b = 0 /\ Closes(s, t, s.out, s.code)
  <2> HIDE DEF more
  <2> QED
    BY <1>3, OneByte DEF more
<1> HIDE DEF more, t
<1>8. \A i \in 1 .. code : more[at + i] = message[done + i]
  <2> SUFFICES ASSUME NEW i \in 1 .. code PROVE more[at + i] = message[done + i]
    OBVIOUS
  <2>1. CASE i = code
    BY <1>3, <1>6, <1>5, <2>1 DEF b
  <2>2. CASE i # code
    <3>1. i \in 1 .. code - 1 /\ at + i \in 1 .. at + code - 1
      BY <1>3, <2>2
    <3> QED
      BY <1>6, <1>4, <3>1
  <2> QED
    BY <2>1, <2>2
<1>9. CASE b # 0 /\ code + 1 < Full
  <2>1. t.out = more /\ t.at = at /\ t.code = code + 1
    BY <1>3, <1>9, <1>1, <1>7
  <2>2. Same(t.out, t.at, message, done, t.code - 1)
    BY <1>8, <2>1 DEF Same
  <2>3. \A frame \in Seq(Byte) : Begins(frame, t) => Begins(frame, s)
    <3>1. \A i \in 1 .. at - 1 : t.out[i] = s.out[i]
      BY <1>3, <1>6, <2>1
    <3> QED
      BY <1>1, <2>1, <3>1 DEF Begins
  <2>4. \A frame, sent : Arrives(frame, s, sent) => Arrives(frame, t, sent)
    BY <1>1, <2>1 DEF Arrives
  <2>5. \A frame \in Seq(Byte) :
           Begins(frame, t) => Arrives(frame, t, SubSeq(message, 1, done))
    BY <1>2, <2>3, <2>4 DEF UndoneUpTo
  <2>6. UndoneUpTo(message, done, t)
    BY <1>3, <2>2, <2>5 DEF UndoneUpTo
  <2>7. done + t.code = (n + 1) + 1
    BY <1>3, <1>5, <2>1
  <2> QED
    BY <2>6, <2>7 DEF Undone, t, b
<1>10. CASE b # 0 /\ code + 1 = Full
  <2>1. Closes(s, t, more, Full)
    BY <1>3, <1>10, <1>1, <1>7
  <2>2. Full \in 1 .. Full /\ Len(more) = at + Full - 1
    BY <1>3, <1>6, <1>10
  <2>3. done + Full = n + 2
    BY <1>3, <1>5, <1>10
  <2>4. \A i \in 1 .. at - 1 : more[i] = s.out[i]
    BY <1>3, <1>6
  <2>5. Same(more, at, message, done, Full - 1)
    BY <1>3, <1>8, <1>10 DEF Same
  <2> QED
    BY <1>6, <1>1, <1>2, <2>1, <2>2, <2>5, <2>4, <2>3, ClosedIsUndone DEF t, b
<1>11. CASE b = 0
  <2>1. Closes(s, t, s.out, code)
    BY <1>3, <1>11, <1>1, <1>7
  <2>2. code \in 1 .. Full /\ code < Full /\ done + code = n + 1
    BY <1>3, <1>5
  <2>3. Same(s.out, at, message, done, code - 1)
    BY <1>4 DEF Same
  <2> QED
    BY <1>3, <1>11, <1>1, <1>2, <2>1, <2>2, <2>3, ClosedIsUndone DEF t, b
<1> QED
  BY <1>3, <1>9, <1>10, <1>11

\* Decoding a frame that was encoded gives the message back, whatever its bytes,
\* its length, and the places of its zeros (cobs.c:16, 64).
THEOREM DecodingUndoesEncoding ==
  ASSUME NEW message \in Seq(Byte)
  PROVE  RoundTrip(message)
<1> DEFINE run   == EncodeRun(message)
           N     == Len(message)
           s     == run[N]
           frame == [s.out EXCEPT ![s.at] = s.code]
           E     == {n \in Nat : n <= N => Undone(message, n, run[n])}
<1>1. N \in Nat /\ Full \in Nat /\ Full > 1
  BY FullAssumption
<1>2. /\ run[0] = EncodeStart
      /\ \A n \in 1 .. N : run[n] = EncodeByte(run[n - 1], message[n])
      /\ \A n \in 0 .. N : Encoding(run[n])
  BY EncoderRuns
<1> HIDE DEF run
<1>3. 0 \in E
  <2>1. /\ EncodeStart.at = 1 /\ EncodeStart.code = 1
        /\ \A sent : Arrived(1, sent) = [read |-> 0, out |-> sent, ok |-> TRUE]
    BY DEF EncodeStart, Arrived
  <2>2. SubSeq(message, 1, 0) = <<>>
    OBVIOUS
  <2>3. \A f \in Seq(Byte) : Arrives(f, EncodeStart, <<>>)
    <3> SUFFICES ASSUME NEW f \in Seq(Byte) PROVE Arrives(f, EncodeStart, <<>>)
      OBVIOUS
    <3>1. DecodeRun(f)[0] = Arrived(1, <<>>)
      BY <2>1, DecoderRuns DEF DecodeStart
    <3> QED
      BY <2>1, <3>1 DEF Arrives
  <2>4. UndoneUpTo(message, 0, EncodeStart)
    <3>1. EncodeStart.code - 1 = 0 /\ \A f, m, p, q : Same(f, p, m, q, 0)
      BY <2>1 DEF Same
    <3>2. Same(EncodeStart.out, EncodeStart.at, message, 0, EncodeStart.code - 1)
      BY <3>1
    <3> QED
      BY <2>2, <2>3, <3>2 DEF UndoneUpTo
  <2>5. 0 + EncodeStart.code = 0 + 1
    BY <2>1
  <2> QED
    BY <1>2, <2>4, <2>5 DEF Undone
<1>4. ASSUME NEW n \in Nat, n \in E PROVE n + 1 \in E
  <2> SUFFICES ASSUME n + 1 <= N PROVE Undone(message, n + 1, run[n + 1])
    OBVIOUS
  <2>1. n \in 0 .. N /\ n + 1 \in 1 .. N /\ (n + 1) - 1 = n /\ Undone(message, n, run[n])
    BY <1>1, <1>4
  <2>2. run[n + 1] = EncodeByte(run[n], message[n + 1]) /\ Encoding(run[n])
    BY <1>2, <2>1
  <2> QED
    BY <2>1, <2>2, ByteIsUndone
<1>5. Undone(message, N, s)
  <2>1. Nat \subseteq E
    <3> HIDE DEF E
    <3> QED
      BY <1>3, <1>4, NatIndex
  <2> QED
    BY <1>1, <2>1
<1>6. Encoding(s) /\ frame = Encode(message)
  BY <1>1, <1>2 DEF Encode, run
<1> HIDE DEF s, E
<1>7. PICK at \in Nat \ {0}, code \in 1 .. Full - 1 : at = s.at /\ code = s.code
  BY <1>6 DEF Encoding
<1>8. PICK done \in Nat : done + code = N + 1 /\ UndoneUpTo(message, done, s)
  BY <1>5, <1>7 DEF Undone
<1>9. /\ frame \in Seq(Byte) /\ Len(frame) = at + code - 1
      /\ frame[at] = code
      /\ \A i \in 1 .. at + code - 1 : i # at => frame[i] = s.out[i]
  <2>1. s.out \in Seq(Byte) /\ Len(s.out) = at + code - 1 /\ code \in Byte
    <3>1. s.out \in Seq(Byte) /\ Len(s.out) = s.at + s.code - 1
      BY <1>6 DEF Encoding
    <3>2. code \in Byte
      BY <1>1 DEF Byte
    <3> QED
      BY <1>7, <3>1, <3>2
  <2>2. frame = [s.out EXCEPT ![at] = code]
    BY <1>7
  <2> HIDE DEF frame
  <2>3. frame \in Seq(Byte) /\ Len(frame) = Len(s.out)
    BY <2>1, <2>2, PutByte
  <2>4. at \in 1 .. Len(s.out)
    BY <1>1, <2>1
  <2>5. frame[at] = code /\ \A i \in 1 .. Len(s.out) : i # at => frame[i] = s.out[i]
    BY <2>1, <2>2, <2>4
  <2> QED
    BY <2>1, <2>3, <2>5
<1> HIDE DEF frame
<1> DEFINE decode == DecodeRun(frame)
           L      == Len(frame)
           last   == Arrived(at + code, message)
<1>10. L \in Nat /\ L = at + code - 1 /\ code \in Nat /\ code # 0
  BY <1>1, <1>9
<1>11. PICK k \in 0 .. at - 1 : decode[k] = Arrived(at, SubSeq(message, 1, done))
  <2>1. Begins(frame, s)
    <3>1. \A i \in 1 .. at - 1 : frame[i] = s.out[i]
      BY <1>9, <1>10
    <3>2. Len(frame) >= at
      BY <1>10
    <3> QED
      BY <1>7, <3>1, <3>2 DEF Begins
  <2> QED
    BY <1>7, <1>8, <1>9, <2>1 DEF UndoneUpTo, Arrives
<1>12. DecodeBlock(frame, Arrived(at, SubSeq(message, 1, done))) = last
  <2>1. \A i \in 1 .. code - 1 : frame[at + i] = s.out[at + i]
    BY <1>9, <1>10
  <2>2. Same(frame, at, message, done, code - 1)
    BY <1>7, <1>8, <2>1 DEF UndoneUpTo, Same
  <2>3. /\ at + code - 1 <= Len(frame) /\ at + code - 1 = Len(frame)
        /\ done + code - 1 <= Len(message) /\ done + code - 1 = Len(message)
        /\ code \in 1 .. Full
    BY <1>1, <1>8, <1>10
  <2>4. SubSeq(message, 1, done + code - 1) = message
    <3>1. SubSeq(message, 1, Len(message)) = message
      OBVIOUS
    <3> QED
      BY <2>3, <3>1
  <2>5. DecodeBlock(frame, Arrived(at, SubSeq(message, 1, done))) =
          Arrived(at + code, IF code # Full /\ at + code - 1 # Len(frame)
                             THEN SubSeq(message, 1, done + code - 1) \o <<0>>
                             ELSE SubSeq(message, 1, done + code - 1))
    <3> HIDE DEF L, decode, last
    <3>1. frame \in Seq(Byte) /\ frame[at] = code
      BY <1>9
    <3> QED
      BY ONLY <2>2, <2>3, <3>1, message \in Seq(Byte), at \in Nat \ {0}, done \in Nat,
         BlockIsUndone
  <2> QED
    BY <2>3, <2>4, <2>5
<1>13. \A j \in 1 .. L : decode[j] = IF Decodes(frame, decode[j - 1])
                                     THEN DecodeBlock(frame, decode[j - 1])
                                     ELSE decode[j - 1]
  BY <1>9, DecoderRuns
<1>14. Decodes(frame, Arrived(at, SubSeq(message, 1, done))) /\ ~Decodes(frame, last)
  BY <1>10 DEF Decodes, Arrived
<1> HIDE DEF decode, last
<1>15. \A j \in 0 .. L : j > k => decode[j] = last
  <2> DEFINE T == {j \in Nat : j <= L /\ j > k => decode[j] = last}
  <2>1. 0 \in T
    BY <1>10
  <2>2. ASSUME NEW j \in Nat, j \in T PROVE j + 1 \in T
    <3> SUFFICES ASSUME j + 1 <= L, j + 1 > k PROVE decode[j + 1] = last
      OBVIOUS
    <3>1. j + 1 \in 1 .. L /\ (j + 1) - 1 = j /\ (j = k \/ j > k)
      BY <1>10, <1>11
    <3>2. decode[j + 1] = IF Decodes(frame, decode[j]) THEN DecodeBlock(frame, decode[j])
                                                      ELSE decode[j]
      BY <1>13, <3>1
    <3>3. CASE j = k
      BY <1>11, <1>12, <1>14, <3>2, <3>3
    <3>4. CASE j > k
      <4>1. decode[j] = last
        BY <1>10, <2>2, <3>1, <3>4
      <4> QED
        BY <1>14, <3>2, <4>1
    <3> QED
      BY <3>1, <3>3, <3>4
  <2>3. Nat \subseteq T
    <3> HIDE DEF T
    <3> QED
      BY <2>1, <2>2, NatIndex
  <2> QED
    BY <2>3
<1>16. Decoded(frame) = last
  <2>1. L \in 0 .. L /\ L > k
    BY <1>10, <1>11
  <2> QED
    BY <1>15, <2>1 DEF Decoded, decode
<1>17. last.ok /\ last.out = message
  BY DEF last, Arrived
<1>18. Decode(frame) = message
  BY <1>16, <1>17 DEF Decode
<1> QED
  BY <1>6, <1>18 DEF RoundTrip
=============================================================================

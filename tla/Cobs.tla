-------------------------------- MODULE Cobs --------------------------------
(***************************************************************************)
(* Consistent overhead byte stuffing, src/modules/rts-zephyr/subsys/cobs:  *)
(* a message becomes a frame without zeros.  The frame is a sequence of    *)
(* blocks: a code byte, code - 1 bytes that are not zero, and a zero left  *)
(* out after the block unless the code is Full or the message ends there.  *)
(* One operator is one turn of the C loop; indices here start at 1.        *)
(***************************************************************************)
EXTENDS Integers, Sequences

CONSTANT Full   \* 0xFF: the code of a block that ends without a zero

ASSUME FullAssumption == Full \in Nat \ {0, 1}

Byte == 0 .. Full

-----------------------------------------------------------------------------
(* cobs_encode *)

\* Mutant of EncodeByte: the block is not closed when it is full.
EncodeByteOpen(s, b) ==
  IF b = 0 THEN [out  |-> Append([s.out EXCEPT ![s.at] = s.code], 0),
                 at   |-> Len(s.out) + 1,
                 code |-> 1]
           ELSE [s EXCEPT !.out = Append(@, b), !.code = (@ + 1) % (Full + 1)]

\* One byte of the message: out ends with the block under way, whose code
\* belongs at index at and would be code if the block ended here.
EncodeByte(s, b) ==
  LET grown       == IF b = 0 THEN s.out ELSE Append(s.out, b)
      code        == IF b = 0 THEN s.code ELSE s.code + 1
      Close(o, c) == [out  |-> Append([o EXCEPT ![s.at] = c], 0),
                      at   |-> Len(o) + 1,
                      code |-> 1]
  IN IF b = 0 \/ code = Full THEN Close(grown, code)
                             ELSE [s EXCEPT !.out = grown, !.code = code]

EncodeStart == [out |-> <<0>>, at |-> 1, code |-> 1]

\* The encoder after each of the bytes of the message
EncodeRun(message) ==
  LET run[n \in 0 .. Len(message)] ==
        IF n = 0 THEN EncodeStart ELSE EncodeByte(run[n - 1], message[n])
  IN run

Encode(message) ==
  LET s == EncodeRun(message)[Len(message)]
  IN [s.out EXCEPT ![s.at] = s.code]

-----------------------------------------------------------------------------
(* cobs_decode *)

DecodeStart == [read |-> 0, out |-> <<>>, ok |-> TRUE]

\* Mutant of DecodeBlock: a zero follows every block but the last.
DecodeBlockZero(frame, s) ==
  LET code == frame[s.read + 1]
      read == s.read + (IF code = 0 THEN 1 ELSE code)
  IN IF read > Len(frame) THEN [s EXCEPT !.ok = FALSE]
     ELSE [s EXCEPT !.read = read,
                    !.out = @ \o SubSeq(frame, s.read + 2, read)
                              \o (IF read # Len(frame) THEN <<0>> ELSE <<>>)]

\* Mutant of DecodeBlock: the length of the block is not looked at.
DecodeBlockTrusts(frame, s) ==
  LET code == frame[s.read + 1]
      read == s.read + (IF code = 0 THEN 1 ELSE code)
  IN [s EXCEPT !.read = read,
               !.out = @ \o [i \in 1 .. read - s.read - 1 |-> code]
                         \o (IF code # Full /\ read # Len(frame)
                             THEN <<0>> ELSE <<>>)]

\* One block.  A code of zero, which no encoder writes, counts as an empty one.
DecodeBlock(frame, s) ==
  LET code == frame[s.read + 1]
      read == s.read + (IF code = 0 THEN 1 ELSE code)
  IN IF s.read + code > Len(frame) /\ code # 1
     THEN [s EXCEPT !.ok = FALSE]
     ELSE [s EXCEPT !.read = read,
                    !.out = @ \o SubSeq(frame, s.read + 2, read)
                              \o (IF code # Full /\ read # Len(frame)
                                  THEN <<0>> ELSE <<>>)]

\* The condition of the decoder's loop
Decodes(frame, s) == s.ok /\ s.read < Len(frame)

\* The decoder after each of its turns, and when it stops: no frame has more
\* blocks than bytes.
DecodeRun(frame) ==
  LET run[k \in 0 .. Len(frame)] ==
        IF k = 0 THEN DecodeStart
        ELSE IF Decodes(frame, run[k - 1]) THEN DecodeBlock(frame, run[k - 1])
             ELSE run[k - 1]
  IN run

Decoded(frame) == DecodeRun(frame)[Len(frame)]

Decode(frame) == LET s == Decoded(frame) IN IF s.ok THEN s.out ELSE <<>>

-----------------------------------------------------------------------------
(* What the two promise of each other *)

\* The decoder gives back every message, wherever its zeros are and at every
\* length around a full block.
RoundTrip(message) == Decode(Encode(message)) = message

\* A frame holds no zero, the mark between frames, and is at most one byte in
\* Full - 1, and one, longer than its message: what a caller must provide.
FrameIsSound(message) ==
  LET frame == Encode(message)
  IN /\ \A i \in 1 .. Len(frame) : frame[i] \in Byte \ {0}
     /\ Len(frame) <= Len(message) + 1 + Len(message) \div (Full - 1)

\* Whatever the decoder gets, it reads no byte behind the frame and writes no
\* byte before it has read it: dst may be src.
Steady(frame, s) == s.read <= Len(frame) /\ Len(s.out) <= s.read
=============================================================================

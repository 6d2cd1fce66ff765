---------------------------- MODULE MCAlgorithms ----------------------------
(***************************************************************************)
(* The pure algorithms of the repository, each on its inputs: one step     *)
(* picks an input, and the invariants say what the algorithm does with it. *)
(* The command line takes more steps, since every line is parsed over what *)
(* the ones before it left in the buffer.                                  *)
(***************************************************************************)
EXTENDS Cobs, CommandLine, LedColour, SequencesExt

CONSTANTS MaxBytes,   \* bound: length of a message or frame
          MaxChars,   \* bound: length of a line the host sends
          MaxLines    \* bound: lines before the one looked at

VARIABLES input,      \* the input picked, with the algorithm it is for
          buf,        \* uart_buf_rx
          lines       \* lines the handler has parsed

vars == <<input, buf, lines>>

Init == /\ input = [for |-> "nothing"]
        /\ buf = Cleared
        /\ lines = 0

Pick(i) == /\ input.for = "nothing" /\ lines = 0
           /\ input' = i
           /\ UNCHANGED <<buf, lines>>

PickBytes == \E bytes \in BoundedSeq(Byte, MaxBytes) :
                Pick([for |-> "cobs", bytes |-> bytes])

\* Every hue around the borders of sectors and the ends of the circle.
PickColour ==
  \E turn \in {-360, 0, 360}, sector \in 0 .. 5, d \in -2 .. 31,
     s \in {0, 1, 100, 254, 255}, v \in {0, 1, 59, 61, 254, 255} :
        Pick([for |-> "led", h |-> turn + 60 * sector + d, s |-> s, v |-> v])

\* Any line at all, well formed or not.
HostSendsLine ==
  /\ input.for = "nothing" /\ lines < MaxLines
  /\ \E line \in BoundedSeq(Char \ {"nul"}, MaxChars) :
        buf' = Parse(Receive(buf, line)).buf
  /\ lines' = lines + 1
  /\ UNCHANGED input

Next == PickBytes \/ PickColour \/ HostSendsLine

Spec == Init /\ [][Next]_vars

-----------------------------------------------------------------------------
\* cobs_decode undoes cobs_encode (cobs.c:16, 64), with messages of zeros, of no
\* zeros, and of blocks that are just full, short of it by one or over it.
CobsRoundTrip == input.for = "cobs" => RoundTrip(input.bytes)

\* What cobs_encode writes holds no zero and has the length its caller reckons
\* with: one byte more, and one more for each full block (cobs.c:42-47).
CobsFrames == input.for = "cobs" => FrameIsSound(input.bytes)

\* cobs_decode with any bytes, a damaged frame for instance, stays inside its
\* source and never overtakes itself (cobs.c:79-96).
CobsDecodesInPlace ==
  input.for = "cobs" => Steady(input.bytes, Decoded(input.bytes))

\* Whatever lines came before, the next well-formed one is understood
\* (main.c:49-51): no byte of an older, longer line gets into it.
CommandsAreHeard ==
  \A name \in BoundedSeq(Letter, 2) \ {<<>>}, number \in BoundedSeq(Digit, 2) :
     LineIsHeard(buf, name, number)

\* Neighbouring hues give neighbouring colours, around the whole circle
\* (led_utils.c:16-60).
ColoursAreContinuous ==
  input.for = "led" => ColourIsContinuous(input.h, input.s, input.v)
=============================================================================

----------------------------- MODULE LedColour -----------------------------
(***************************************************************************)
(* led_hsv2rgb of src/modules/rts-zephyr/subsys/led_utils, in the integers *)
(* it uses.                                                                *)
(***************************************************************************)
EXTENDS Integers

Channel == 0 .. 255
Hue     == -32768 .. 32767   \* int16_t

\* hue % 360 in C has the sign of the hue; it is brought into 0 .. 359.
HueOf(h) ==
  LET c == IF h >= 0 THEN h % 360 ELSE -((-h) % 360)
  IN IF c < 0 THEN 360 + c ELSE c

Low(s, v) == ((255 - s) * v) \div 255

\* Mutant of Angle: odd sectors rise as well.
AngleRising(hue) == hue % 60

\* How far the middle channel is from the lowest one, in 60ths: it rises in
\* even sectors and falls in odd ones.
Angle(hue) == IF (hue \div 60) % 2 = 1 THEN 60 - (hue % 60) ELSE hue % 60

Middle(hue, s, v) == Low(s, v) + ((v - Low(s, v)) * Angle(hue)) \div 60

Rgb(r, g, b) == [r |-> r, g |-> g, b |-> b]

led_hsv2rgb(h, s, v) ==
  LET hue    == HueOf(h)
      low    == Low(s, v)
      middle == Middle(hue, s, v)
  IN CASE v = 0             -> Rgb(0, 0, 0)
       [] v # 0 /\ s = 0    -> Rgb(v, v, v)
       [] v # 0 /\ s # 0 /\ hue \div 60 = 0 -> Rgb(v, middle, low)
       [] v # 0 /\ s # 0 /\ hue \div 60 = 1 -> Rgb(middle, v, low)
       [] v # 0 /\ s # 0 /\ hue \div 60 = 2 -> Rgb(low, v, middle)
       [] v # 0 /\ s # 0 /\ hue \div 60 = 3 -> Rgb(low, middle, v)
       [] v # 0 /\ s # 0 /\ hue \div 60 = 4 -> Rgb(middle, low, v)
       [] v # 0 /\ s # 0 /\ hue \div 60 = 5 -> Rgb(v, low, middle)

-----------------------------------------------------------------------------
Apart(x, y, d) == x - y \in -d .. d

\* The colour wheel has no seam: one degree changes a channel by a 60th of the
\* range at most, at the borders of sectors, at 360 and below zero as well.
ColourIsContinuous(h, s, v) ==
  LET here == led_hsv2rgb(h, s, v)
      next == led_hsv2rgb(h + 1, s, v)
      step == v \div 60 + 1
  IN /\ Apart(here.r, next.r, step)
     /\ Apart(here.g, next.g, step)
     /\ Apart(here.b, next.b, step)
=============================================================================

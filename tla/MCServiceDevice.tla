-------------------------- MODULE MCServiceDevice --------------------------
(***************************************************************************)
(* Instances of ServiceDevice for TLC: what the host sends, and how often. *)
(* Frequencies are counted in units of a toy hertz: 3 make a kilohertz, a  *)
(* step of FREQ+ is 1, and the word that holds a frequency wraps at 16, so *)
(* that SET_FREQ_KHZ can overflow it as 2^32 overflows in the firmware.    *)
(***************************************************************************)
EXTENDS ServiceDevice

Line(c, a) == [cmd |-> c, arg |-> a]
Once(lines) == [l \in lines |-> 1]

Stop == Line("STOP", 0)
GetCfg == Line("GET_CFG", 0)
FreqUp == Line("FREQ+", 0)
FreqDown == Line("FREQ-", 0)
Garbage == Line("unknown", 0)

\* every command that is no measurement, arguments out of range included
TuningLines == {Stop, GetCfg, FreqUp, FreqDown, Line("SET_FREQ_KHZ", 7),
                Line("SET_SF", 11), Line("SET_SF", 3)}
TuningBudget == Once(TuningLines)

\* a measurement, asked for twice, its abort, and a command that interrupts it
MeasuringLines == {Line("PER", 2), Stop, FreqUp}
MeasuringBudget == [l \in MeasuringLines |-> IF l.cmd = "PER" THEN 2 ELSE 1]

\* a tuning command and a line that is no command
GarbageLines == {FreqUp, Garbage}
GarbageBudget == Once(GarbageLines)

\* a tuning command and the request to print what the modem is tuned to
DriftLines == {FreqUp, GetCfg}
DriftBudget == Once(DriftLines)

\* a measurement, its abort and a tuning command
LiveLines == {Line("PER", 1), Stop, FreqUp}
LiveBudget == Once(LiveLines)
=============================================================================

SPECIFICATION Spec
CONSTANTS
    Full = 3
    Letter = {"P"}
    Digit = {"1", "2"}
    Size = 6
    MaxBytes = 6
    MaxChars = 4
    MaxLines = 2
INVARIANTS CobsRoundTrip CobsFrames CobsDecodesInPlace CommandsAreHeard ColoursAreContinuous
CHECK_DEADLOCK FALSE

SPECIFICATION PulseSpec
CONSTANTS
    Channels = {ch1, ch2}
    HighMin = 1
    LowMin = 2
    Wrap = 5
    MaxPulses = 2
INVARIANTS CleanPulseCounted OncePerLowRun
PROPERTIES CountNeedsSamples
CHECK_DEADLOCK FALSE

------------------------------- MODULE Pulse -------------------------------
(***************************************************************************)
(* The pulse counter of drivers/char/hndl_char_devices/pulse_count.c: the  *)
(* 1 kHz interrupt of timer 2 samples the pulse inputs and counts a pulse  *)
(* after enough high samples followed by enough low samples.               *)
(*                                                                         *)
(* The counters are unsigned and wrap; the signal is arbitrary.  The       *)
(* observer's variables describe the signal alone: how long the present    *)
(* run of equal samples is, how long the high run before it was, and how   *)
(* many pulses were counted since the present low run began.               *)
(***************************************************************************)
EXTENDS Naturals

CONSTANTS
    Channels,  \* the pulse inputs: MAXCH of them
    HighMin,   \* 15: count_h must be greater than this
    LowMin,    \* 55: count_l must be greater than this
    Wrap,      \* 2^32: modulus of an unsigned int
    MaxPulses  \* bound: pulses counted per channel

ASSUME PulseConstants ==
    /\ HighMin \in Nat /\ LowMin \in Nat /\ MaxPulses \in Nat
    /\ Wrap \in Nat /\ Wrap > HighMin + 1 /\ Wrap > LowMin + 1

VARIABLES
    count_h, count_l, \* samples accumulated per channel
    hFlag, lFlag,     \* enough high, enough low samples seen
    pulse_count,      \* the result, per channel
    sig               \* observer: the signal of each channel

code == <<count_h, count_l, hFlag, lFlag, pulse_count>>
pvars == <<code, sig>>

HighEnough == HighMin + 2  \* the sample that finds count_h > HighMin
LowEnough  == LowMin + 1   \* the sample that makes count_l > LowMin

\* The observer's counts stop at the lengths that matter.
Upto(x, top) == IF x < top THEN x + 1 ELSE top

\* The observer: level of the last sample, length of the present low run and
\* of the last high run, high samples since the last count, low samples since
\* those became enough, counts since the present low run began.
Silent == [level |-> FALSE, low |-> 0, high |-> 0,
           highs |-> 0, lows |-> 0, counted |-> 0]

PulseInit ==
    /\ count_h = [c \in Channels |-> 0] /\ count_l = [c \in Channels |-> 0]
    /\ hFlag = [c \in Channels |-> FALSE] /\ lFlag = [c \in Channels |-> FALSE]
    /\ pulse_count = [c \in Channels |-> 0]
    /\ sig = [c \in Channels |-> Silent]

-----------------------------------------------------------------------------
(* Mutants: definitions below with a plausible bug, to show that each        *)
(* property can fail.  No specification uses them.                           *)

ArmsLate(c) == count_h[c] > HighMin + 1 /\ ~ hFlag[c]

HFlagKept(c, high) == IF high THEN hFlag[c] \/ count_h[c] > HighMin ELSE hFlag[c]

CountHKept(c, high) == IF high THEN (IF count_h[c] + 1 = Wrap THEN 0 ELSE count_h[c] + 1)
                       ELSE count_h[c]

-----------------------------------------------------------------------------
(* What one sample does to a channel. *)

\* x++ of an unsigned int
Inc(x) == IF x + 1 = Wrap THEN 0 ELSE x + 1

\* a high sample sets h1Flag and forgets the low samples before it
Arms(c) == count_h[c] > HighMin /\ ~ hFlag[c]

\* a low sample sets l1Flag
LowSeen(c) == Inc(count_l[c]) > LowMin

\* a low sample counts a pulse: both flags, the second perhaps set just now
Counts(c) == hFlag[c] /\ (lFlag[c] \/ LowSeen(c))

\* the static variables after a sample with the given levels
CountH(c, high) == IF high THEN Inc(count_h[c])
                   ELSE IF Counts(c) THEN 0 ELSE count_h[c]
CountL(c, high) == IF high THEN (IF Arms(c) THEN 0 ELSE count_l[c])
                   ELSE IF Counts(c) \/ (LowSeen(c) /\ ~ lFlag[c]) THEN 0
                   ELSE Inc(count_l[c])
HFlag(c, high) == IF high THEN hFlag[c] \/ Arms(c) ELSE hFlag[c] /\ ~ Counts(c)
LFlag(c, high) == IF high THEN lFlag[c] /\ ~ Arms(c)
                  ELSE ~ Counts(c) /\ (lFlag[c] \/ LowSeen(c))
PulseCount(c, high) == IF ~ high /\ Counts(c) THEN pulse_count[c] + 1
                       ELSE pulse_count[c]

\* the observer after a sample; n is how many pulses it counted
Observe(s, high, n) ==
    IF high
    THEN [level |-> TRUE, low |-> 0, counted |-> 0,
          high |-> IF s.level THEN Upto(s.high, HighEnough) ELSE 1,
          highs |-> Upto(s.highs, HighEnough),
          lows |-> s.lows]
    ELSE [level |-> FALSE, high |-> s.high,
          low |-> Upto(s.low, LowEnough),
          highs |-> IF n > 0 THEN 0 ELSE s.highs,
          lows |-> IF n > 0 \/ s.highs < HighEnough THEN 0
                   ELSE Upto(s.lows, LowEnough),
          counted |-> IF s.level THEN n ELSE s.counted + n]

\* The timer 2 interrupt samples every channel once.
timer1_interrupt ==
    /\ \A c \in Channels : pulse_count[c] < MaxPulses
    /\ \E high \in [Channels -> BOOLEAN] :
        /\ count_h' = [c \in Channels |-> CountH(c, high[c])]
        /\ count_l' = [c \in Channels |-> CountL(c, high[c])]
        /\ hFlag' = [c \in Channels |-> HFlag(c, high[c])]
        /\ lFlag' = [c \in Channels |-> LFlag(c, high[c])]
        /\ pulse_count' = [c \in Channels |-> PulseCount(c, high[c])]
        /\ sig' = [c \in Channels |->
                     Observe(sig[c], high[c], pulse_count'[c] - pulse_count[c])]

PulseNext == timer1_interrupt

PulseSpec == PulseInit /\ [][PulseNext]_pvars

-----------------------------------------------------------------------------
(* Properties *)

\* The static variables stay in the ranges of their types, the observer in
\* the ranges of the lengths it distinguishes.
PulseTypeOK ==
    /\ count_h \in [Channels -> 0 .. Wrap-1]
    /\ count_l \in [Channels -> 0 .. Wrap-1]
    /\ hFlag \in [Channels -> BOOLEAN] /\ lFlag \in [Channels -> BOOLEAN]
    /\ pulse_count \in [Channels -> Nat]
    /\ sig \in [Channels -> [level : BOOLEAN, low : 0 .. LowEnough,
                             high : 0 .. HighEnough, highs : 0 .. HighEnough,
                             lows : 0 .. LowEnough, counted : Nat]]

\* A clean pulse - an unbroken high run of HighEnough samples or more and,
\* right after it, a low run that has lasted LowEnough samples - is counted,
\* exactly once, however long the runs are and whatever the signal was before:
\* timer1_interrupt accumulates samples across glitches and its counters wrap.
CleanPulseCounted ==
    \A c \in Channels :
        (~ sig[c].level /\ sig[c].high = HighEnough /\ sig[c].low = LowEnough)
            => sig[c].counted = 1

\* No low run is counted twice, clean or not.
OncePerLowRun == \A c \in Channels : sig[c].counted <= 1

\* A sample counts a pulse only after HighEnough high samples since the pulse
\* before it and LowEnough low samples after those: line 189's order "first
\* high, then low" holds of the accumulated samples, not of unbroken runs (a
\* high sample does not reset count_l once h1Flag is set).
CountNeedsSamples ==
    [][\A c \in Channels : pulse_count'[c] # pulse_count[c] =>
        /\ sig[c].highs = HighEnough
        /\ Upto(sig[c].lows, LowEnough) = LowEnough]_pvars
=============================================================================

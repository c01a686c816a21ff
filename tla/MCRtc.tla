------------------------------- MODULE MCRtc --------------------------------
(* Instants and dates for model checking Rtc. *)
EXTENDS Rtc

At(y, mo, d, h, mi, s) == [year |-> y, mon |-> mo, mday |-> d, hour |-> h, min |-> mi, sec |-> s]

\* before the end of a minute, an hour, a month that a shorter one follows, a
\* leap day, 1999 and 2069
MCStarts == {At(19, 5, 9, 10, 20, 58), At(19, 5, 9, 10, 59, 58), At(21, 1, 31, 23, 59, 58),
             At(20, 2, 28, 23, 59, 58), At(99, 12, 31, 23, 59, 58), At(69, 12, 31, 23, 59, 58)}
MCSetTimes == {At(119, 11, 31, 23, 59, 59), At(169, 0, 1, 0, 0, 0), At(170, 0, 1, 0, 0, 0),
               At(119, 1, 29, 0, 0, 0)}

=============================================================================

-------------------------------- MODULE Rtc ---------------------------------
(***************************************************************************)
(* drivers/rtc/rtc-rx8025.c: the clock chip on I2C bus 0, which counts     *)
(* while its registers are read one by one, over a bus whose errors the    *)
(* driver does not look at.                                                *)
(*                                                                         *)
(* Registers hold BCD bytes.  A register is read by two transfers: its     *)
(* number, which sets the chip's pointer, and the byte the pointer is at.  *)
(* The callers of get_time and set_time hold ops_lock of the RTC core, so  *)
(* that one of these is under way at a time; the sysfs file                *)
(* clock_adjust_ppb is read and written without that lock, and moves the   *)
(* pointer too.  A write of several registers is one transfer, which the   *)
(* chip takes as a whole, or up to the byte at which it was broken off.    *)
(***************************************************************************)
EXTENDS Integers, Sequences

CONSTANTS
    Starts,    \* instants at which a behaviour begins: [year, mon, mday, hour, min, sec]
    SetTimes,  \* struct rtc_time given to set_time; year is tm_year, mon is tm_mon
    Errnos,    \* errors of the I2C driver
    Others,    \* what the registers that get_time does not use may hold
    MaxTicks,  \* bound: seconds that pass
    MaxFaults, \* bound: transfers of get_time and set_time that fail
    MaxCalls,  \* bound: calls of get_time and set_time
    MaxAdjusts \* bound: uses of clock_adjust_ppb

EINVAL == 22
\* the date registers in the order they are read; the weekday, between hour and
\* mday, is read and not used
Fields == <<"sec", "min", "hour", "wday", "mday", "mon", "year">>
Used   == <<"year", "mon", "mday", "hour", "min", "sec">>

Leap(y) == (y % 4 = 0 /\ y % 100 # 0) \/ y % 400 = 0
Days(m, leap) == IF m = 2 THEN (IF leap THEN 29 ELSE 28)
                 ELSE IF m \in {4, 6, 9, 11} THEN 30 ELSE 31

\* what the chip may hold, and what of this is in the calendar: the chip takes
\* every fourth year for a leap year
Held == [sec : 0 .. 59, min : 0 .. 59, hour : 0 .. 23, mday : 1 .. 31,
         mon : 1 .. 12, year : 0 .. 99]
LastDay(d) == Days(d.mon, d.year % 4 = 0)
Dates == {d \in Held : d.mday <= LastDay(d)}

ASSUME RtcConstants ==
    /\ {MaxTicks, MaxFaults, MaxCalls, MaxAdjusts} \subseteq Nat
    /\ Errnos \subseteq 1 .. 255 /\ Others \subseteq 0 .. 255
    /\ Starts \subseteq Dates
    /\ SetTimes \subseteq [sec : Int, min : Int, hour : Int, mday : Int, mon : Int, year : Int]

VARIABLES
    now,        \* the date in the chip
    ptr,        \* the chip's register pointer, a place in Fields or beyond
    ctrl,       \* the control registers 0x0d .. 0x0f have been written
    first_run,
    pc,         \* "idle", or where get_time is: "get" before the number of a
                \* register is sent, "read" before its byte is
    date,       \* u8 date[7] as far as it is read
    tm, ret,    \* what the last call returned, if none is under way
    adj,        \* likewise for a reader of clock_adjust_ppb: "idle", "read"
    instants,   \* the dates the chip had while the last get_time read, in order
    bad,        \* places of which a transfer failed, or clock_adjust_ppb was used
                \* between the two
    n           \* ticks, faults, calls, adjusts

vars == <<now, ptr, ctrl, first_run, pc, date, tm, ret, adj, instants, bad, n>>

\* the place in Fields that get_time reads next
Place == Len(date) + 1
\* the register of clock_adjust_ppb comes after the year, then the rest
DIGOFF == 8
Beyond == 9

-----------------------------------------------------------------------------
(* Mutants: definitions below with a plausible bug, to show that each        *)
(* property can fail.  No specification uses them.                           *)

\* every year is taken for one of this century
CenturyAlways(y) == y + 100

\* the number is sent for the first register only: the pointer goes on by itself
PointOnce ==
    /\ pc = "get" /\ Len(date) < Len(Fields)
    /\ ptr' = (IF date = <<>> THEN Place ELSE ptr) /\ pc' = "read"
    /\ UNCHANGED <<now, ctrl, first_run, date, tm, ret, adj, instants, bad, n>>

\* the month is stored as it counts in struct rtc_time
DateOfZeroBased(x) ==
    [sec |-> x.sec, min |-> x.min, hour |-> x.hour, mday |-> x.mday,
     mon |-> x.mon, year |-> x.year % 100]

-----------------------------------------------------------------------------
(* Conversions *)

bcd2bin(v) == (v % 16) + (v \div 16) * 10
bin2bcd(v) == (v \div 10) * 16 + (v % 10)

\* an error returned by i2c_smbus_read_byte, stored into a u8
AsByte(e) == (256 - e) % 256

\* the bits of a register that get_time keeps
Kept == [sec |-> 128, min |-> 128, hour |-> 64, mday |-> 64, mon |-> 32, year |-> 256]
\* RX8025_REG_SEC and so on, as places in date
REG == [sec |-> 1, min |-> 2, hour |-> 3, mday |-> 5, mon |-> 6, year |-> 7]
Decoded(byte, kept) == bcd2bin(byte % kept)
Bin(d, f) == Decoded(d[REG[f]], Kept[f])

Century(y) == IF y < 70 THEN y + 100 ELSE y

Month(m) == m - 1

\* struct rtc_time from the bytes read
Time(d) == [sec |-> Bin(d, "sec"), min |-> Bin(d, "min"), hour |-> Bin(d, "hour"),
            mday |-> Bin(d, "mday"), mon |-> Month(Bin(d, "mon")),
            year |-> Century(Bin(d, "year"))]

rtc_valid_tm(x) ==
    /\ x.year >= 70 /\ x.mon \in 0 .. 11
    /\ x.mday \in 1 .. Days(x.mon + 1, Leap(x.year + 1900))
    /\ x.hour \in 0 .. 23 /\ x.min \in 0 .. 59 /\ x.sec \in 0 .. 59

-----------------------------------------------------------------------------
(* The chip *)

\* what a byte read at place p may be
Bytes(d, p) ==
    IF p \in DOMAIN Fields /\ Fields[p] # "wday" THEN {bin2bcd(d[Fields[p]])} ELSE Others

\* the pointer goes on with every byte
Past(p) == IF p < Beyond THEN p + 1 ELSE Beyond

\* Whether the day, when it ends, ends the month.  It may if the chip was left with
\* a day the month does not have.
MonthEnds(d) ==
    IF d.mday < LastDay(d) THEN {FALSE}
    ELSE IF d.mday = LastDay(d) \/ d.mday = 31 THEN {TRUE} ELSE {TRUE, FALSE}

\* a second later
After(d, last) ==
    LET s == d.sec = 59  mi == s /\ d.min = 59  h == mi /\ d.hour = 23
        md == h /\ last  mo == md /\ d.mon = 12
    IN  [sec |-> IF s THEN 0 ELSE d.sec + 1,
         min |-> IF mi THEN 0 ELSE IF s THEN d.min + 1 ELSE d.min,
         hour |-> IF h THEN 0 ELSE IF mi THEN d.hour + 1 ELSE d.hour,
         mday |-> IF md THEN 1 ELSE IF h THEN d.mday + 1 ELSE d.mday,
         mon |-> IF mo THEN 1 ELSE IF md THEN d.mon + 1 ELSE d.mon,
         year |-> IF mo THEN (d.year + 1) % 100 ELSE d.year]

RtcInit ==
    /\ now \in Starts /\ ptr = Beyond /\ ctrl = FALSE /\ first_run = TRUE
    /\ pc = "idle" /\ date = <<>> /\ tm = <<>> /\ ret = 0 /\ adj = "idle"
    /\ instants = <<>> /\ bad = {}
    /\ n = [ticks |-> 0, faults |-> 0, calls |-> 0, adjusts |-> 0]

Tick ==
    /\ n.ticks < MaxTicks
    /\ \E last \in MonthEnds(now) : now' = After(now, last)
    /\ instants' = (IF pc = "idle" THEN instants ELSE Append(instants, now'))
    /\ n' = [n EXCEPT !.ticks = @ + 1]
    /\ UNCHANGED <<ptr, ctrl, first_run, pc, date, tm, ret, adj, bad>>

-----------------------------------------------------------------------------
(* rx8025_get_time *)

\* the three control registers are written by the first call only; the result
\* of the writes is not looked at
FirstRun(done) == first_run' = FALSE /\ ctrl' = (ctrl \/ (first_run /\ done))

\* whether the chip takes them
Configured == {TRUE} \cup (IF first_run /\ n.faults < MaxFaults THEN {FALSE} ELSE {})
Fault(done) == IF done THEN 0 ELSE 1

GetTime ==
    /\ pc = "idle" /\ n.calls < MaxCalls
    /\ pc' = "get" /\ date' = <<>> /\ instants' = <<now>> /\ bad' = {}
    /\ tm' = <<>> /\ ret' = 0
    /\ n' = [n EXCEPT !.calls = @ + 1]
    /\ UNCHANGED <<now, ptr, ctrl, first_run, adj>>

\* the number of the register is sent
Point ==
    /\ pc = "get" /\ Len(date) < Len(Fields)
    /\ ptr' = Place /\ pc' = "read"
    /\ UNCHANGED <<now, ctrl, first_run, date, tm, ret, adj, instants, bad, n>>

\* the same, with an error that is not looked at: the chip took the number or not
PointFails ==
    /\ pc = "get" /\ Len(date) < Len(Fields) /\ n.faults < MaxFaults
    /\ ptr' \in {ptr, Place} /\ pc' = "read" /\ bad' = bad \cup {Place}
    /\ n' = [n EXCEPT !.faults = @ + 1]
    /\ UNCHANGED <<now, ctrl, first_run, date, tm, ret, adj, instants>>

\* the byte at the pointer is read
ReadReg ==
    /\ pc = "read"
    /\ \E b \in Bytes(now, ptr) : date' = Append(date, b)
    /\ ptr' = Past(ptr) /\ pc' = "get"
    /\ UNCHANGED <<now, ctrl, first_run, tm, ret, adj, instants, bad, n>>

\* the read fails and its error is taken for the byte
ReadRegFails ==
    /\ pc = "read" /\ n.faults < MaxFaults
    /\ \E e \in Errnos : date' = Append(date, AsByte(e))
    /\ ptr' \in {ptr, Past(ptr)} /\ pc' = "get" /\ bad' = bad \cup {Place}
    /\ n' = [n EXCEPT !.faults = @ + 1]
    /\ UNCHANGED <<now, ctrl, first_run, tm, ret, adj, instants>>

GetEnd ==
    /\ pc = "get" /\ Len(date) = Len(Fields)
    /\ \E done \in Configured :
            FirstRun(done) /\ n' = [n EXCEPT !.faults = @ + Fault(done)]
    /\ ptr' = (IF first_run THEN Beyond ELSE ptr)
    /\ tm' = Time(date) /\ ret' = (IF rtc_valid_tm(tm') THEN 0 ELSE EINVAL)
    /\ pc' = "idle" /\ date' = <<>>
    /\ UNCHANGED <<now, adj, instants, bad>>

-----------------------------------------------------------------------------
(* rx8025_set_time, for a date rtc_set_time has found valid *)

\* a number as the chip takes it from a register
Stored(v) == bcd2bin(bin2bcd(v))

DateOf(x) ==
    [sec |-> Stored(x.sec), min |-> Stored(x.min), hour |-> Stored(x.hour),
     mday |-> Stored(x.mday), mon |-> Stored(x.mon + 1), year |-> Stored(x.year % 100)]

SetTime(x) ==
    /\ pc = "idle" /\ n.calls < MaxCalls /\ rtc_valid_tm(x)
    /\ \E done \in Configured :
            FirstRun(done) /\ n' = [n EXCEPT !.calls = @ + 1, !.faults = @ + Fault(done)]
    /\ now' = DateOf(x) /\ ptr' = DIGOFF /\ tm' = x /\ ret' = 0
    /\ instants' = <<>> /\ bad' = {}
    /\ UNCHANGED <<pc, date, adj>>

\* the first k registers of e, the others of d
Partly(d, e, k) ==
    LET F(f) == IF REG[f] <= k THEN e[f] ELSE d[f]
    IN  [sec |-> F("sec"), min |-> F("min"), hour |-> F("hour"),
         mday |-> F("mday"), mon |-> F("mon"), year |-> F("year")]

\* the block write is broken off: the chip keeps the bytes it took before, the
\* error is returned
SetTimeFails(x) ==
    /\ pc = "idle" /\ n.calls < MaxCalls /\ rtc_valid_tm(x) /\ n.faults < MaxFaults
    /\ \E done \in Configured : FirstRun(done)
    /\ \E k \in 0 .. Len(Fields) :
            now' = Partly(now, DateOf(x), k) /\ ptr' \in {ptr, k + 1, Beyond}
    /\ ret' \in Errnos /\ tm' = x /\ instants' = <<>> /\ bad' = {}
    /\ n' = [n EXCEPT !.calls = @ + 1, !.faults = @ + 1]
    /\ UNCHANGED <<pc, date, adj>>

-----------------------------------------------------------------------------
(* clock_adjust_ppb: rx8025_get_clock_adjust and rx8025_set_clock_adjust.  Their   *)
(* transfers may fail, and the value of the register is not looked at here.        *)

\* if get_time is between its two transfers, it will read another register
Overtakes == bad' = (IF pc = "read" THEN bad \cup {Place} ELSE bad)

AdjustPoint ==
    /\ adj = "idle" /\ n.adjusts < MaxAdjusts
    /\ ptr' \in {ptr, DIGOFF} /\ adj' = "read" /\ Overtakes
    /\ n' = [n EXCEPT !.adjusts = @ + 1]
    /\ UNCHANGED <<now, ctrl, first_run, pc, date, tm, ret, instants>>

AdjustRead ==
    /\ adj = "read"
    /\ ptr' \in {ptr, Past(ptr)} /\ adj' = "idle" /\ Overtakes
    /\ UNCHANGED <<now, ctrl, first_run, pc, date, tm, ret, instants, n>>

AdjustWrite ==
    /\ n.adjusts < MaxAdjusts
    /\ ptr' \in {ptr, DIGOFF, Beyond} /\ Overtakes
    /\ n' = [n EXCEPT !.adjusts = @ + 1]
    /\ UNCHANGED <<now, ctrl, first_run, pc, date, tm, ret, adj, instants>>

RtcNext ==
    \/ Tick
    \/ GetTime \/ Point \/ PointFails \/ ReadReg \/ ReadRegFails \/ GetEnd
    \/ \E x \in SetTimes : SetTime(x) \/ SetTimeFails(x)
    \/ AdjustPoint \/ AdjustRead \/ AdjustWrite

RtcSpec == RtcInit /\ [][RtcNext]_vars

-----------------------------------------------------------------------------
(* Properties *)

\* Type invariant: bytes are bytes, and every register of the date is in its
\* range, if not the date in the calendar.
RtcTypeOK ==
    /\ pc \in {"idle", "get", "read"} /\ adj \in {"idle", "read"} /\ ptr \in 1 .. Beyond
    /\ {first_run, ctrl} \subseteq BOOLEAN /\ bad \subseteq DOMAIN Fields
    /\ Len(date) <= Len(Fields) /\ \A i \in DOMAIN date : date[i] \in 0 .. 255
    /\ now \in Held

\* the date in the chip as struct rtc_time: of the years 1970 .. 2069 the one
\* with these last two digits
FullYear(y) == CHOOSE z \in 70 .. 169 : z % 100 = y
TimeOf(d) == [sec |-> d.sec, min |-> d.min, hour |-> d.hour, mday |-> d.mday,
              mon |-> d.mon - 1, year |-> FullYear(d.year)]

\* get_time has returned; it did so after reads that all succeeded, none of them
\* overtaken by a use of clock_adjust_ppb
Returned == pc = "idle" /\ instants # <<>>
GotTime == Returned /\ bad = {}
Same(f) == \A i \in DOMAIN instants : instants[i][f] = instants[1][f]

\* The error of one register stays with that register: every field of which the
\* own two transfers succeeded and were not overtaken is one the chip had
\* during the read, whatever happened to the others and to the pointer.
FieldsTrue ==
    Returned => \A f \in DOMAIN REG : REG[f] \notin bad =>
        \E i \in DOMAIN instants : tm[f] = TimeOf(instants[i])[f]

\* If no minute ended while the registers were read, get_time returns a date the
\* chip had during the read, and succeeds exactly if that is in the calendar.
WholeDate ==
    GotTime /\ Same("min") =>
        \E i \in DOMAIN instants :
            tm = TimeOf(instants[i]) /\ (ret = 0 <=> instants[i] \in Dates)

\* What get_time returns is what the chip held: as a whole if nothing came
\* between, and field by field otherwise.
GetExact == FieldsTrue /\ WholeDate

Earlier(a, b) ==
    \E i \in DOMAIN Used :
        /\ a[Used[i]] < b[Used[i]]
        /\ \A j \in 1 .. i - 1 : a[Used[j]] = b[Used[j]]

\* the end of 2069 fell into the read: the years the driver can tell apart end
Over2069 == \E i \in 2 .. Len(instants) : instants[i - 1].year = 69 /\ instants[i].year = 70

\* A date torn by the end of a minute, an hour, a day or a month between two
\* registers runs ahead, never behind: get_time returns nothing earlier than the
\* date at which it began, but for a read over the end of 2069.
GetNeverEarlier ==
    GotTime /\ ret = 0 /\ ~ Over2069 =>
        ~ Earlier(tm, TimeOf(instants[1]))

\* With a bus that works, get_time refuses the date only if the month ended
\* while it read (the old day is then no day of the new month), or if a set_time
\* broken off half way left the chip with a date that is in no calendar.
GetRefusesOnlyTorn ==
    GotTime /\ ret # 0 => ~ Same("mon") \/ \E i \in DOMAIN instants : instants[i] \notin Dates

\* A read torn by a running clock does no worse than run ahead or be refused.
TornReads == GetNeverEarlier /\ GetRefusesOnlyTorn

\* A date set without error is the date in the chip, if its year is below 2070;
\* a later one is taken for a hundred years before.
SetStored ==
    [][n'.calls > n.calls /\ pc' = "idle" /\ ret' = 0 =>
            (TimeOf(now') = tm' <=> tm'.year < 170)]_vars

\* The chip holds what it was given: every register in its range also after
\* writes broken off, and the date set without error.
ChipWritten == []RtcTypeOK /\ SetStored

=============================================================================

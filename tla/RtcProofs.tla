----------------------------- MODULE RtcProofs ------------------------------
(***************************************************************************)
(* Proofs about Rtc for every date, every number of seconds that pass      *)
(* between two transfers, any failures, any dates left by writes broken    *)
(* off and any uses of clock_adjust_ppb: GetExact, TornReads, ChipWritten. *)
(***************************************************************************)
EXTENDS Rtc, SequenceTheorems, TLAPS

Times == [sec : Int, min : Int, hour : Int, mday : Int, mon : Int, year : Int]
Octet == 0 .. 255
Tallies == [ticks : Nat, faults : Nat, calls : Nat, adjusts : Nat]

\* the register of field f of a date in the chip
Register(d, f) == bin2bcd(d[f])

RtcTypes ==
    /\ pc \in {"idle", "get", "read"} /\ adj \in {"idle", "read"} /\ ptr \in 1 .. 9
    /\ first_run \in BOOLEAN /\ ctrl \in BOOLEAN /\ bad \subseteq 1 .. 7
    /\ now \in Held /\ date \in Seq(Octet) /\ Len(date) \in 0 .. 7 /\ n \in Tallies
    /\ instants \in Seq(Held)

\* While get_time reads, the last of the instants is the present one.
LastIsNow == pc # "idle" => instants # <<>> /\ instants[Len(instants)] = now

\* Between the two transfers the pointer is where get_time set it, unless that
\* failed or clock_adjust_ppb was used since.
PtrRight == pc = "read" => Len(date) < 7 /\ (Place \notin bad => ptr = Place)

\* An instant with another hour, or a higher field, is not reached without
\* leaving the minute; likewise for the month and the year.
Carries ==
    /\ Same("min") => Same("hour") /\ Same("mday") /\ Same("mon") /\ Same("year")
    /\ Same("mon") => Same("year")

\* Every register read, but those in bd and the weekday, has the value it had at one
\* of the instants.
CameFrom(bytes, ins, bd) ==
    \A i \in 1 .. Len(bytes) : i \notin bd /\ i # 4 =>
        \E j \in DOMAIN ins : bytes[i] = Register(ins[j], Fields[i])
ReadFrom == pc # "idle" => CameFrom(date, instants, bad)

\* The registers read so far, completed by the present date: every second that
\* passes leaves this date as it is or puts it forward.
Field(bytes, d, f) == IF REG[f] <= Len(bytes) THEN Bin(bytes, f) ELSE d[f]
Mixed(bytes, d) ==
    [sec |-> Field(bytes, d, "sec"), min |-> Field(bytes, d, "min"),
     hour |-> Field(bytes, d, "hour"), mday |-> Field(bytes, d, "mday"),
     mon |-> Field(bytes, d, "mon"), year |-> Field(bytes, d, "year")]
Ahead ==
    pc # "idle" /\ bad = {} /\ ~ Over2069 =>
        ~ Earlier(TimeOf(Mixed(date, now)), TimeOf(instants[1]))

RtcInv ==
    /\ RtcTypes
    /\ LastIsNow
    /\ PtrRight
    /\ Carries
    /\ ReadFrom
    /\ Ahead
    /\ GetExact
    /\ TornReads
-----------------------------------------------------------------------------
(* Conversions *)

\* A number of two digits survives the way through a BCD register ...
LEMMA Bcd256 ==
  ASSUME NEW v \in 0 .. 99
  PROVE  bin2bcd(v) \in 0 .. 255 /\ Decoded(bin2bcd(v), 256) = v
  BY DEF bin2bcd, bcd2bin, Decoded

\* ... and the bits get_time masks out are none of it: seconds and minutes,
LEMMA Bcd128 ==
  ASSUME NEW v \in 0 .. 59
  PROVE  bin2bcd(v) \in 0 .. 255 /\ Decoded(bin2bcd(v), 128) = v
  BY DEF bin2bcd, bcd2bin, Decoded

\* hours and days,
LEMMA Bcd64 ==
  ASSUME NEW v \in 0 .. 31
  PROVE  bin2bcd(v) \in 0 .. 255 /\ Decoded(bin2bcd(v), 64) = v
  BY DEF bin2bcd, bcd2bin, Decoded

\* months.
LEMMA Bcd32 ==
  ASSUME NEW v \in 0 .. 12
  PROVE  bin2bcd(v) \in 0 .. 255 /\ Decoded(bin2bcd(v), 32) = v
  BY DEF bin2bcd, bcd2bin, Decoded

\* The chip takes from a register what was to be stored.
LEMMA StoredIs ==
  ASSUME NEW v \in 0 .. 99
  PROVE  Stored(v) = v
  BY DEF bin2bcd, bcd2bin, Stored

\* The fields of a date in the chip.
LEMMA DateFields ==
  ASSUME NEW d \in Held
  PROVE  /\ d.sec \in 0 .. 59 /\ d.min \in 0 .. 59 /\ d.hour \in 0 .. 23
         /\ d.mday \in 1 .. 31 /\ d.mon \in 1 .. 12 /\ d.year \in 0 .. 99
         /\ d.sec \in Int /\ d.min \in Int /\ d.hour \in Int
         /\ d.mday \in Int /\ d.mon \in Int /\ d.year \in Int
  BY DEF Held

\* A register of the date is a byte, and get_time finds in it the field.
LEMMA RegisterFacts ==
  ASSUME NEW d \in Held
  PROVE  /\ \A i \in 1 .. 7 : i # 4 => Register(d, Fields[i]) \in 0 .. 255
         /\ Decoded(Register(d, Fields[1]), 128) = d.sec
         /\ Decoded(Register(d, Fields[2]), 128) = d.min
         /\ Decoded(Register(d, Fields[3]), 64) = d.hour
         /\ Decoded(Register(d, Fields[5]), 64) = d.mday
         /\ Decoded(Register(d, Fields[6]), 32) = d.mon
         /\ Decoded(Register(d, Fields[7]), 256) = d.year
  <1>1. /\ d.sec \in 0 .. 59 /\ d.min \in 0 .. 59 /\ d.hour \in 0 .. 23
        /\ d.mday \in 1 .. 31 /\ d.mon \in 1 .. 12 /\ d.year \in 0 .. 99
    BY DateFields
  <1>2. /\ Register(d, Fields[1]) = bin2bcd(d.sec) /\ Register(d, Fields[2]) = bin2bcd(d.min)
        /\ Register(d, Fields[3]) = bin2bcd(d.hour)
        /\ Register(d, Fields[5]) = bin2bcd(d.mday) /\ Register(d, Fields[6]) = bin2bcd(d.mon)
        /\ Register(d, Fields[7]) = bin2bcd(d.year)
    BY DEF Register, Fields
  <1>3. bin2bcd(d.sec) \in 0 .. 255 /\ Decoded(bin2bcd(d.sec), 128) = d.sec
    <2>1. d.sec \in 0 .. 59
      BY <1>1
    <2> QED
      BY <2>1, Bcd128
  <1>4. bin2bcd(d.min) \in 0 .. 255 /\ Decoded(bin2bcd(d.min), 128) = d.min
    <2>1. d.min \in 0 .. 59
      BY <1>1
    <2> QED
      BY <2>1, Bcd128
  <1>5. bin2bcd(d.hour) \in 0 .. 255 /\ Decoded(bin2bcd(d.hour), 64) = d.hour
    <2>1. d.hour \in 0 .. 31
      BY <1>1
    <2> QED
      BY <2>1, Bcd64
  <1>6. bin2bcd(d.mday) \in 0 .. 255 /\ Decoded(bin2bcd(d.mday), 64) = d.mday
    <2>1. d.mday \in 0 .. 31
      BY <1>1
    <2> QED
      BY <2>1, Bcd64
  <1>7. bin2bcd(d.mon) \in 0 .. 255 /\ Decoded(bin2bcd(d.mon), 32) = d.mon
    <2>1. d.mon \in 0 .. 12
      BY <1>1
    <2> QED
      BY <2>1, Bcd32
  <1>8. bin2bcd(d.year) \in 0 .. 255 /\ Decoded(bin2bcd(d.year), 256) = d.year
    <2>1. d.year \in 0 .. 99
      BY <1>1
    <2> QED
      BY <2>1, Bcd256
  <1>9. \A i \in 1 .. 7 : i # 4 => Register(d, Fields[i]) \in 0 .. 255
    BY <1>2, <1>3, <1>4, <1>5, <1>6, <1>7, <1>8
  <1> QED
    BY <1>2, <1>3, <1>4, <1>5, <1>6, <1>7, <1>8, <1>9

\* tm_year < 70 tells the century.
LEMMA CenturyIs ==
  ASSUME NEW y \in 0 .. 99
  PROVE  FullYear(y) = Century(y)
  <1>1. Century(y) \in 70 .. 169 /\ Century(y) % 100 = y
    BY DEF Century
  <1>2. \A z \in 70 .. 169 : z % 100 = y => z = Century(y)
    BY DEF Century
  <1> QED
    BY <1>1, <1>2 DEF FullYear

\* The date as struct rtc_time, field by field.
LEMMA TimeOfFacts ==
  ASSUME NEW d, d.year \in 0 .. 99
  PROVE  TimeOf(d) = [sec |-> d.sec, min |-> d.min, hour |-> d.hour, mday |-> d.mday,
                      mon |-> d.mon - 1, year |-> Century(d.year)]
  <1>1. FullYear(d.year) = Century(d.year)
    BY CenturyIs
  <1> QED
    BY <1>1, Zenon DEF TimeOf
-----------------------------------------------------------------------------
(* The order of dates, and what a second does *)

\* a is b or later, field by field
AtLeast(a, b) ==
    \/ a.year > b.year
    \/ /\ a.year = b.year
       /\ \/ a.mon > b.mon
          \/ /\ a.mon = b.mon
             /\ \/ a.mday > b.mday
                \/ /\ a.mday = b.mday
                   /\ \/ a.hour > b.hour
                      \/ /\ a.hour = b.hour
                         /\ \/ a.min > b.min
                            \/ a.min = b.min /\ a.sec >= b.sec

\* This is the order the properties are stated with.
LEMMA NotEarlier ==
  ASSUME NEW a \in Times, NEW b \in Times
  PROVE  AtLeast(a, b) <=> ~ Earlier(a, b)
  <1>1. /\ a.year \in Int /\ a.mon \in Int /\ a.mday \in Int /\ a.hour \in Int
        /\ a.min \in Int /\ a.sec \in Int
        /\ b.year \in Int /\ b.mon \in Int /\ b.mday \in Int /\ b.hour \in Int
        /\ b.min \in Int /\ b.sec \in Int
    BY DEF Times
  <1>2. /\ DOMAIN Used = 1 .. 6 /\ Used[1] = "year" /\ Used[2] = "mon" /\ Used[3] = "mday"
        /\ Used[4] = "hour" /\ Used[5] = "min" /\ Used[6] = "sec"
    BY DEF Used
  <1> DEFINE Eq(i) == \A j \in 1 .. i - 1 : a[Used[j]] = b[Used[j]]
  <1>3. /\ Eq(1)
        /\ Eq(2) <=> a.year = b.year
        /\ Eq(3) <=> a.year = b.year /\ a.mon = b.mon
        /\ Eq(4) <=> a.year = b.year /\ a.mon = b.mon /\ a.mday = b.mday
        /\ Eq(5) <=> a.year = b.year /\ a.mon = b.mon /\ a.mday = b.mday /\ a.hour = b.hour
        /\ Eq(6) <=> /\ a.year = b.year /\ a.mon = b.mon /\ a.mday = b.mday /\ a.hour = b.hour
                     /\ a.min = b.min
    BY <1>2
  <1>4. Earlier(a, b) <=> \E i \in 1 .. 6 : a[Used[i]] < b[Used[i]] /\ Eq(i)
    BY <1>2 DEF Earlier
  <1> HIDE DEF Eq
  <1>5. Earlier(a, b) <=>
            \/ a.year < b.year /\ Eq(1)
            \/ a.mon < b.mon /\ Eq(2)
            \/ a.mday < b.mday /\ Eq(3)
            \/ a.hour < b.hour /\ Eq(4)
            \/ a.min < b.min /\ Eq(5)
            \/ a.sec < b.sec /\ Eq(6)
    BY <1>2, <1>4
  <1> QED
    BY <1>1, <1>3, <1>5 DEF AtLeast

\* The order is transitive.
LEMMA AtLeastTransitive ==
  ASSUME NEW a \in Times, NEW b \in Times, NEW c \in Times, AtLeast(a, b), AtLeast(b, c)
  PROVE  AtLeast(a, c)
  BY DEF AtLeast, Times

\* The last day of a month, and when the chip goes on to the next.
LEMMA MonthFacts ==
  ASSUME NEW d \in Held, NEW last \in MonthEnds(d)
  PROVE  LastDay(d) \in 28 .. 31 /\ last \in BOOLEAN /\ (last = FALSE => d.mday < 31)
  <1>1. \A m \in 1 .. 12, l \in BOOLEAN : Days(m, l) \in 28 .. 31
    BY DEF Days
  <1>2. LastDay(d) \in 28 .. 31
    BY <1>1, DateFields DEF LastDay
  <1>3. d.mday \in 1 .. 31
    BY DateFields
  <1>4. last \in BOOLEAN
    BY DEF MonthEnds
  <1>5. last = FALSE => d.mday < LastDay(d) \/ d.mday # 31
    BY DEF MonthEnds
  <1> QED
    BY <1>2, <1>3, <1>4, <1>5

\* A second later: still what the chip may hold; the minute changes with every
\* higher field, and the month with the year.
LEMMA AfterFacts ==
  ASSUME NEW d \in Held, NEW last \in MonthEnds(d)
  PROVE  /\ After(d, last) \in Held
         /\ After(d, last).min = d.min =>
                /\ After(d, last).hour = d.hour /\ After(d, last).mday = d.mday
                /\ After(d, last).mon = d.mon /\ After(d, last).year = d.year
         /\ After(d, last).mon = d.mon => After(d, last).year = d.year
  <1> DEFINE e == After(d, last)
             s == d.sec = 59
             mi == s /\ d.min = 59
             h == mi /\ d.hour = 23
             md == h /\ last
             mo == md /\ d.mon = 12
  <1>1. e = [sec |-> IF s THEN 0 ELSE d.sec + 1,
             min |-> IF mi THEN 0 ELSE IF s THEN d.min + 1 ELSE d.min,
             hour |-> IF h THEN 0 ELSE IF mi THEN d.hour + 1 ELSE d.hour,
             mday |-> IF md THEN 1 ELSE IF h THEN d.mday + 1 ELSE d.mday,
             mon |-> IF mo THEN 1 ELSE IF md THEN d.mon + 1 ELSE d.mon,
             year |-> IF mo THEN (d.year + 1) % 100 ELSE d.year]
    BY DEF After
  <1>2. /\ d.sec \in 0 .. 59 /\ d.min \in 0 .. 59 /\ d.hour \in 0 .. 23
        /\ d.mday \in 1 .. 31 /\ d.mon \in 1 .. 12 /\ d.year \in 0 .. 99
    BY DateFields
  <1>3. last = TRUE \/ (last = FALSE /\ d.mday < 31)
    BY MonthFacts
  <1>4. /\ e.sec \in 0 .. 59 /\ e.min \in 0 .. 59 /\ e.hour \in 0 .. 23
        /\ e.mon \in 1 .. 12 /\ e.year \in 0 .. 99
    BY <1>1, <1>2
  <1>5. e.mday \in 1 .. 31
    <2>1. CASE last = TRUE
      BY <1>1, <1>2, <2>1
    <2>2. CASE last = FALSE /\ d.mday < 31
      BY <1>1, <1>2, <2>2
    <2> QED
      BY <1>3, <2>1, <2>2
  <1>7. e \in Held
    BY <1>1, <1>4, <1>5 DEF Held
  <1>8. e.min = d.min => /\ e.hour = d.hour /\ e.mday = d.mday
                         /\ e.mon = d.mon /\ e.year = d.year
    BY <1>1, <1>2
  <1>9. e.mon = d.mon => e.year = d.year
    BY <1>1, <1>2
  <1> QED
    BY <1>7, <1>8, <1>9

\* The date of which the first L registers are those in b and the others are
\* those of d now, as struct rtc_time ...
Mix(L, b, d) ==
    [sec |-> IF 1 <= L THEN b.sec ELSE d.sec, min |-> IF 2 <= L THEN b.min ELSE d.min,
     hour |-> IF 3 <= L THEN b.hour ELSE d.hour, mday |-> IF 5 <= L THEN b.mday ELSE d.mday,
     mon |-> (IF 6 <= L THEN b.mon ELSE d.mon) - 1,
     year |-> Century(IF 7 <= L THEN b.year ELSE d.year)]

\* ... does not go back when a second passes, unless it ends 2069.
LEMMA MixAfter ==
  ASSUME NEW d \in Held, NEW last \in MonthEnds(d), NEW b \in Times, NEW L \in 0 .. 7,
         ~ (d.year = 69 /\ After(d, last).year = 70)
  PROVE  /\ AtLeast(Mix(L, b, After(d, last)), Mix(L, b, d))
         /\ Mix(L, b, d) \in Times /\ Mix(L, b, After(d, last)) \in Times
  <1> DEFINE e == After(d, last)
             s == d.sec = 59
             mi == s /\ d.min = 59
             h == mi /\ d.hour = 23
             md == h /\ last
             mo == md /\ d.mon = 12
  <1>1. e = [sec |-> IF s THEN 0 ELSE d.sec + 1,
             min |-> IF mi THEN 0 ELSE IF s THEN d.min + 1 ELSE d.min,
             hour |-> IF h THEN 0 ELSE IF mi THEN d.hour + 1 ELSE d.hour,
             mday |-> IF md THEN 1 ELSE IF h THEN d.mday + 1 ELSE d.mday,
             mon |-> IF mo THEN 1 ELSE IF md THEN d.mon + 1 ELSE d.mon,
             year |-> IF mo THEN (d.year + 1) % 100 ELSE d.year]
    BY DEF After
  <1>2. /\ d.sec \in 0 .. 59 /\ d.min \in 0 .. 59 /\ d.hour \in 0 .. 23
        /\ d.mday \in 1 .. 31 /\ d.mon \in 1 .. 12 /\ d.year \in 0 .. 99
    BY DateFields
  <1>3. e \in Held
    BY AfterFacts
  <1>4. /\ e.sec \in Int /\ e.min \in Int /\ e.hour \in Int
        /\ e.mday \in Int /\ e.mon \in Int /\ e.year \in Int
    BY <1>3 DEF Held
  <1>5. /\ b.sec \in Int /\ b.min \in Int /\ b.hour \in Int
        /\ b.mday \in Int /\ b.mon \in Int /\ b.year \in Int
    BY DEF Times
  <1>6. /\ Century(d.year) \in Int /\ Century(e.year) \in Int /\ Century(b.year) \in Int
        /\ mo => Century(e.year) > Century(d.year)
        /\ ~ mo => e.year = d.year
    BY <1>1, <1>2, <1>4, <1>5 DEF Century
  <1>7. /\ md => mo \/ e.mon > d.mon
        /\ ~ md => e.mon = d.mon
        /\ h => md \/ e.mday > d.mday
        /\ ~ h => e.mday = d.mday
        /\ mi => h \/ e.hour > d.hour
        /\ ~ mi => e.hour = d.hour
        /\ s => mi \/ e.min > d.min
        /\ ~ s => e.min = d.min /\ e.sec > d.sec
    BY <1>1, <1>2
  <1>8. (mo => md) /\ (md => h) /\ (h => mi) /\ (mi => s)
    OBVIOUS
  <1> DEFINE x == Mix(L, b, d)
             y == Mix(L, b, e)
  <1>9. /\ x.sec = (IF 1 <= L THEN b.sec ELSE d.sec) /\ y.sec = (IF 1 <= L THEN b.sec ELSE e.sec)
        /\ x.min = (IF 2 <= L THEN b.min ELSE d.min) /\ y.min = (IF 2 <= L THEN b.min ELSE e.min)
        /\ x.hour = (IF 3 <= L THEN b.hour ELSE d.hour) /\ y.hour = (IF 3 <= L THEN b.hour ELSE e.hour)
        /\ x.mday = (IF 5 <= L THEN b.mday ELSE d.mday) /\ y.mday = (IF 5 <= L THEN b.mday ELSE e.mday)
        /\ x.mon = (IF 6 <= L THEN b.mon ELSE d.mon) - 1 /\ y.mon = (IF 6 <= L THEN b.mon ELSE e.mon) - 1
        /\ x.year = Century(IF 7 <= L THEN b.year ELSE d.year)
        /\ y.year = Century(IF 7 <= L THEN b.year ELSE e.year)
    BY DEF Mix
  <1>10. x \in Times /\ y \in Times
    BY <1>2, <1>4, <1>5, <1>6 DEF Mix, Times
  <1> HIDE DEF e, s, mi, h, md, mo, x, y
  <1>11. AtLeast(y, x)
    BY <1>2, <1>4, <1>5, <1>6, <1>7, <1>8, <1>9 DEF AtLeast
  <1> QED
    BY <1>10, <1>11 DEF e, x, y
-----------------------------------------------------------------------------
(* What the registers read so far are *)

\* Each field of the bytes read is the field of one of the ins.
LEMMA FieldsRead ==
  ASSUME NEW bytes, Len(bytes) \in 0 .. 7, NEW ins, NEW bd, CameFrom(bytes, ins, bd),
         \A j \in DOMAIN ins : ins[j] \in Held
  PROVE  /\ 1 \notin bd /\ 1 <= Len(bytes) => \E j \in DOMAIN ins : Bin(bytes, "sec") = ins[j].sec
         /\ 2 \notin bd /\ 2 <= Len(bytes) => \E j \in DOMAIN ins : Bin(bytes, "min") = ins[j].min
         /\ 3 \notin bd /\ 3 <= Len(bytes) => \E j \in DOMAIN ins : Bin(bytes, "hour") = ins[j].hour
         /\ 5 \notin bd /\ 5 <= Len(bytes) => \E j \in DOMAIN ins : Bin(bytes, "mday") = ins[j].mday
         /\ 6 \notin bd /\ 6 <= Len(bytes) => \E j \in DOMAIN ins : Bin(bytes, "mon") = ins[j].mon
         /\ 7 \notin bd /\ 7 <= Len(bytes) => \E j \in DOMAIN ins : Bin(bytes, "year") = ins[j].year
  <1>1. \A i \in 1 .. Len(bytes) : i \notin bd /\ i # 4 =>
            \E j \in DOMAIN ins : bytes[i] = Register(ins[j], Fields[i])
    BY DEF CameFrom
  <1>2. \A j \in DOMAIN ins : ins[j] \in Held
    OBVIOUS
  <1>3. Len(bytes) \in Nat
    OBVIOUS
  <1>4. 1 \notin bd /\ 1 <= Len(bytes) => \E j \in DOMAIN ins : Bin(bytes, "sec") = ins[j].sec
    <2> SUFFICES ASSUME 1 \notin bd, 1 <= Len(bytes)
                 PROVE  \E j \in DOMAIN ins : Bin(bytes, "sec") = ins[j].sec
      OBVIOUS
    <2>1. PICK j \in DOMAIN ins : bytes[1] = Register(ins[j], Fields[1])
      BY <1>1, <1>3
    <2>2. Decoded(Register(ins[j], Fields[1]), 128) = ins[j].sec
      BY <1>2, RegisterFacts
    <2>3. Bin(bytes, "sec") = Decoded(bytes[1], 128)
      BY DEF Bin, REG, Kept
    <2> QED
      BY <2>1, <2>2, <2>3
  <1>5. 2 \notin bd /\ 2 <= Len(bytes) => \E j \in DOMAIN ins : Bin(bytes, "min") = ins[j].min
    <2> SUFFICES ASSUME 2 \notin bd, 2 <= Len(bytes)
                 PROVE  \E j \in DOMAIN ins : Bin(bytes, "min") = ins[j].min
      OBVIOUS
    <2>1. PICK j \in DOMAIN ins : bytes[2] = Register(ins[j], Fields[2])
      BY <1>1, <1>3
    <2>2. Decoded(Register(ins[j], Fields[2]), 128) = ins[j].min
      BY <1>2, RegisterFacts
    <2>3. Bin(bytes, "min") = Decoded(bytes[2], 128)
      BY DEF Bin, REG, Kept
    <2> QED
      BY <2>1, <2>2, <2>3
  <1>6. 3 \notin bd /\ 3 <= Len(bytes) => \E j \in DOMAIN ins : Bin(bytes, "hour") = ins[j].hour
    <2> SUFFICES ASSUME 3 \notin bd, 3 <= Len(bytes)
                 PROVE  \E j \in DOMAIN ins : Bin(bytes, "hour") = ins[j].hour
      OBVIOUS
    <2>1. PICK j \in DOMAIN ins : bytes[3] = Register(ins[j], Fields[3])
      BY <1>1, <1>3
    <2>2. Decoded(Register(ins[j], Fields[3]), 64) = ins[j].hour
      BY <1>2, RegisterFacts
    <2>3. Bin(bytes, "hour") = Decoded(bytes[3], 64)
      BY DEF Bin, REG, Kept
    <2> QED
      BY <2>1, <2>2, <2>3
  <1>7. 5 \notin bd /\ 5 <= Len(bytes) => \E j \in DOMAIN ins : Bin(bytes, "mday") = ins[j].mday
    <2> SUFFICES ASSUME 5 \notin bd, 5 <= Len(bytes)
                 PROVE  \E j \in DOMAIN ins : Bin(bytes, "mday") = ins[j].mday
      OBVIOUS
    <2>1. PICK j \in DOMAIN ins : bytes[5] = Register(ins[j], Fields[5])
      BY <1>1, <1>3
    <2>2. Decoded(Register(ins[j], Fields[5]), 64) = ins[j].mday
      BY <1>2, RegisterFacts
    <2>3. Bin(bytes, "mday") = Decoded(bytes[5], 64)
      BY DEF Bin, REG, Kept
    <2> QED
      BY <2>1, <2>2, <2>3
  <1>8. 6 \notin bd /\ 6 <= Len(bytes) => \E j \in DOMAIN ins : Bin(bytes, "mon") = ins[j].mon
    <2> SUFFICES ASSUME 6 \notin bd, 6 <= Len(bytes)
                 PROVE  \E j \in DOMAIN ins : Bin(bytes, "mon") = ins[j].mon
      OBVIOUS
    <2>1. PICK j \in DOMAIN ins : bytes[6] = Register(ins[j], Fields[6])
      BY <1>1, <1>3
    <2>2. Decoded(Register(ins[j], Fields[6]), 32) = ins[j].mon
      BY <1>2, RegisterFacts
    <2>3. Bin(bytes, "mon") = Decoded(bytes[6], 32)
      BY DEF Bin, REG, Kept
    <2> QED
      BY <2>1, <2>2, <2>3
  <1>9. 7 \notin bd /\ 7 <= Len(bytes) => \E j \in DOMAIN ins : Bin(bytes, "year") = ins[j].year
    <2> SUFFICES ASSUME 7 \notin bd, 7 <= Len(bytes)
                 PROVE  \E j \in DOMAIN ins : Bin(bytes, "year") = ins[j].year
      OBVIOUS
    <2>1. PICK j \in DOMAIN ins : bytes[7] = Register(ins[j], Fields[7])
      BY <1>1, <1>3
    <2>2. Decoded(Register(ins[j], Fields[7]), 256) = ins[j].year
      BY <1>2, RegisterFacts
    <2>3. Bin(bytes, "year") = Decoded(bytes[7], 256)
      BY DEF Bin, REG, Kept
    <2> QED
      BY <2>1, <2>2, <2>3
  <1> QED
    BY <1>4, <1>5, <1>6, <1>7, <1>8, <1>9

\* the fields read, zero for the others
Taken(bytes) == [sec |-> IF 1 <= Len(bytes) THEN Bin(bytes, "sec") ELSE 0,
          min |-> IF 2 <= Len(bytes) THEN Bin(bytes, "min") ELSE 0,
          hour |-> IF 3 <= Len(bytes) THEN Bin(bytes, "hour") ELSE 0,
          mday |-> IF 5 <= Len(bytes) THEN Bin(bytes, "mday") ELSE 0,
          mon |-> IF 6 <= Len(bytes) THEN Bin(bytes, "mon") ELSE 0,
          year |-> IF 7 <= Len(bytes) THEN Bin(bytes, "year") ELSE 0]

\* The bytes of Ahead in terms of Mix.
LEMMA MixedIs ==
  ASSUME NEW bytes, Len(bytes) \in 0 .. 7, NEW ins, NEW d \in Held,
         CameFrom(bytes, ins, {}), \A j \in DOMAIN ins : ins[j] \in Held
  PROVE  Taken(bytes) \in Times /\ TimeOf(Mixed(bytes, d)) = Mix(Len(bytes), Taken(bytes), d)
  <1>1. \A j \in DOMAIN ins : ins[j] \in Held
    OBVIOUS
  <1>2. Len(bytes) \in Nat
    OBVIOUS
  <1>3. 1 <= Len(bytes) => Bin(bytes, "sec") \in 0 .. 59 /\ Bin(bytes, "sec") \in Int
    <2> SUFFICES ASSUME 1 <= Len(bytes)
                 PROVE  Bin(bytes, "sec") \in 0 .. 59 /\ Bin(bytes, "sec") \in Int
      OBVIOUS
    <2>1. PICK j \in DOMAIN ins : Bin(bytes, "sec") = ins[j].sec
      BY FieldsRead
    <2>2. ins[j].sec \in 0 .. 59 /\ ins[j].sec \in Int
      BY <1>1, DateFields
    <2> QED
      BY <2>1, <2>2, Zenon
  <1>4. 2 <= Len(bytes) => Bin(bytes, "min") \in 0 .. 59 /\ Bin(bytes, "min") \in Int
    <2> SUFFICES ASSUME 2 <= Len(bytes)
                 PROVE  Bin(bytes, "min") \in 0 .. 59 /\ Bin(bytes, "min") \in Int
      OBVIOUS
    <2>1. PICK j \in DOMAIN ins : Bin(bytes, "min") = ins[j].min
      BY FieldsRead
    <2>2. ins[j].min \in 0 .. 59 /\ ins[j].min \in Int
      BY <1>1, DateFields
    <2> QED
      BY <2>1, <2>2, Zenon
  <1>5. 3 <= Len(bytes) => Bin(bytes, "hour") \in 0 .. 23 /\ Bin(bytes, "hour") \in Int
    <2> SUFFICES ASSUME 3 <= Len(bytes)
                 PROVE  Bin(bytes, "hour") \in 0 .. 23 /\ Bin(bytes, "hour") \in Int
      OBVIOUS
    <2>1. PICK j \in DOMAIN ins : Bin(bytes, "hour") = ins[j].hour
      BY FieldsRead
    <2>2. ins[j].hour \in 0 .. 23 /\ ins[j].hour \in Int
      BY <1>1, DateFields
    <2> QED
      BY <2>1, <2>2, Zenon
  <1>6. 5 <= Len(bytes) => Bin(bytes, "mday") \in 1 .. 31 /\ Bin(bytes, "mday") \in Int
    <2> SUFFICES ASSUME 5 <= Len(bytes)
                 PROVE  Bin(bytes, "mday") \in 1 .. 31 /\ Bin(bytes, "mday") \in Int
      OBVIOUS
    <2>1. PICK j \in DOMAIN ins : Bin(bytes, "mday") = ins[j].mday
      BY FieldsRead
    <2>2. ins[j].mday \in 1 .. 31 /\ ins[j].mday \in Int
      BY <1>1, DateFields
    <2> QED
      BY <2>1, <2>2, Zenon
  <1>7. 6 <= Len(bytes) => Bin(bytes, "mon") \in 1 .. 12 /\ Bin(bytes, "mon") \in Int
    <2> SUFFICES ASSUME 6 <= Len(bytes)
                 PROVE  Bin(bytes, "mon") \in 1 .. 12 /\ Bin(bytes, "mon") \in Int
      OBVIOUS
    <2>1. PICK j \in DOMAIN ins : Bin(bytes, "mon") = ins[j].mon
      BY FieldsRead
    <2>2. ins[j].mon \in 1 .. 12 /\ ins[j].mon \in Int
      BY <1>1, DateFields
    <2> QED
      BY <2>1, <2>2, Zenon
  <1>8. 7 <= Len(bytes) => Bin(bytes, "year") \in 0 .. 99 /\ Bin(bytes, "year") \in Int
    <2> SUFFICES ASSUME 7 <= Len(bytes)
                 PROVE  Bin(bytes, "year") \in 0 .. 99 /\ Bin(bytes, "year") \in Int
      OBVIOUS
    <2>1. PICK j \in DOMAIN ins : Bin(bytes, "year") = ins[j].year
      BY FieldsRead
    <2>2. ins[j].year \in 0 .. 99 /\ ins[j].year \in Int
      BY <1>1, DateFields
    <2> QED
      BY <2>1, <2>2, Zenon
  <1>9. Taken(bytes) \in Times
    BY <1>3, <1>4, <1>5, <1>6, <1>7, <1>8 DEF Taken, Times
  <1>10. d.year \in 0 .. 99
    BY <1>2, DateFields
  <1>11. Mixed(bytes, d) = [sec |-> IF 1 <= Len(bytes) THEN Bin(bytes, "sec") ELSE d.sec,
                  min |-> IF 2 <= Len(bytes) THEN Bin(bytes, "min") ELSE d.min,
                  hour |-> IF 3 <= Len(bytes) THEN Bin(bytes, "hour") ELSE d.hour,
                  mday |-> IF 5 <= Len(bytes) THEN Bin(bytes, "mday") ELSE d.mday,
                  mon |-> IF 6 <= Len(bytes) THEN Bin(bytes, "mon") ELSE d.mon,
                  year |-> IF 7 <= Len(bytes) THEN Bin(bytes, "year") ELSE d.year]
    BY DEF Mixed, Field, REG
  <1>12. Mixed(bytes, d).year \in 0 .. 99
    BY <1>8, <1>10, <1>11
  <1>13. TimeOf(Mixed(bytes, d)) = [sec |-> Mixed(bytes, d).sec, min |-> Mixed(bytes, d).min, hour |-> Mixed(bytes, d).hour,
                          mday |-> Mixed(bytes, d).mday, mon |-> Mixed(bytes, d).mon - 1,
                          year |-> Century(Mixed(bytes, d).year)]
    BY <1>12, TimeOfFacts
  <1>14. /\ Mixed(bytes, d).sec = (IF 1 <= Len(bytes) THEN Taken(bytes).sec ELSE d.sec)
         /\ Mixed(bytes, d).min = (IF 2 <= Len(bytes) THEN Taken(bytes).min ELSE d.min)
         /\ Mixed(bytes, d).hour = (IF 3 <= Len(bytes) THEN Taken(bytes).hour ELSE d.hour)
         /\ Mixed(bytes, d).mday = (IF 5 <= Len(bytes) THEN Taken(bytes).mday ELSE d.mday)
         /\ Mixed(bytes, d).mon = (IF 6 <= Len(bytes) THEN Taken(bytes).mon ELSE d.mon)
         /\ Mixed(bytes, d).year = (IF 7 <= Len(bytes) THEN Taken(bytes).year ELSE d.year)
    BY <1>11 DEF Taken
  <1> QED
    BY <1>9, <1>13, <1>14 DEF Mix

\* A date in the chip passes rtc_valid_tm exactly if it is in the calendar: in
\* 1970 .. 2069 every fourth year is a leap year.
LEMMA ValidTime ==
  ASSUME NEW x, NEW d \in Held, x.mday = d.mday, x.mon = d.mon - 1, x.year = Century(d.year),
         x.hour \in 0 .. 23, x.min \in 0 .. 59, x.sec \in 0 .. 59
  PROVE  rtc_valid_tm(x) <=> d \in Dates
  <1>1. d.mday \in 1 .. 31 /\ d.mon \in 1 .. 12 /\ d.year \in 0 .. 99
    BY DateFields
  <1>2. Century(d.year) \in 70 .. 169 /\ (Leap(Century(d.year) + 1900) <=> d.year % 4 = 0)
    <2> DEFINE y == d.year
    <2>1. y \in 0 .. 99
      BY <1>1
    <2> HIDE DEF y
    <2>2. Century(y) \in 70 .. 169 /\ (Leap(Century(y) + 1900) <=> y % 4 = 0)
      BY <2>1 DEF Century, Leap
    <2> QED
      BY <2>2 DEF y
  <1>3. Leap(x.year + 1900) = (d.year % 4 = 0)
    BY <1>2 DEF Leap
  <1>4. x.mon + 1 = d.mon /\ x.mon \in 0 .. 11
    BY <1>1
  <1>5. Days(x.mon + 1, Leap(x.year + 1900)) = LastDay(d)
    BY <1>3, <1>4 DEF LastDay
  <1>6. LastDay(d) \in 28 .. 31
    BY <1>1 DEF Days, LastDay
  <1>7. x.mday \in 1 .. Days(x.mon + 1, Leap(x.year + 1900)) <=> d.mday <= LastDay(d)
    BY <1>1, <1>5, <1>6
  <1>8. d \in Dates <=> d.mday <= LastDay(d)
    BY DEF Dates
  <1> QED
    BY <1>2, <1>4, <1>7, <1>8 DEF rtc_valid_tm
-----------------------------------------------------------------------------
(* The steps *)

\* A date of the chip is a time, and at least itself.
LEMMA TimeOfDate ==
  ASSUME NEW d \in Held
  PROVE  TimeOf(d) \in Times /\ AtLeast(TimeOf(d), TimeOf(d))
  <1>1. /\ d.sec \in 0 .. 59 /\ d.min \in 0 .. 59 /\ d.hour \in 0 .. 23
        /\ d.mday \in 1 .. 31 /\ d.mon \in 1 .. 12 /\ d.year \in 0 .. 99
    BY DateFields
  <1>2. Century(d.year) \in Int /\ d.mon - 1 \in Int
    BY <1>1 DEF Century
  <1>3. TimeOf(d) = [sec |-> d.sec, min |-> d.min, hour |-> d.hour, mday |-> d.mday,
                     mon |-> d.mon - 1, year |-> Century(d.year)]
    BY <1>1, TimeOfFacts
  <1> QED
    BY <1>1, <1>2, <1>3 DEF Times, AtLeast

\* The chip holds a date, nothing has been read.
LEMMA RtcInitInv == RtcInit => RtcInv
  <1> SUFFICES ASSUME RtcInit PROVE RtcInv
    OBVIOUS
  <1>1. RtcTypes
    <2>1. now \in Held
      BY RtcConstants DEF RtcInit, Dates
    <2>2. <<>> \in Seq(Octet) /\ <<>> \in Seq(Held) /\ Len(<<>>) \in 0 .. 7
      BY EmptySeq
    <2>3. n \in Tallies /\ ptr \in 1 .. 9
      BY DEF RtcInit, Tallies, Beyond
    <2> QED
      BY <2>1, <2>2, <2>3, Zenon DEF RtcInit, RtcTypes
  <1>2. pc = "idle" /\ instants = <<>> /\ first_run = TRUE
    BY DEF RtcInit
  <1>3. LastIsNow /\ ReadFrom /\ Ahead /\ PtrRight
    BY <1>2 DEF LastIsNow, ReadFrom, Ahead, PtrRight
  <1>4. Carries
    BY <1>2 DEF Carries, Same
  <1>5. GetExact /\ TornReads
    BY <1>2 DEF GetExact, FieldsTrue, WholeDate, TornReads, GetNeverEarlier, GetRefusesOnlyTorn,
                GotTime, Returned
  <1> QED
    BY <1>1, <1>3, <1>4, <1>5 DEF RtcInv

\* What is said of the result depends only on it, on the instants and on bad.
LEMMA SameResult ==
  ASSUME GetExact, TornReads, UNCHANGED <<pc, instants, bad, tm, ret>>
  PROVE  GetExact' /\ TornReads'
  <1>1. FieldsTrue'
    BY DEF GetExact, FieldsTrue, Returned
  <1>2. WholeDate'
    BY DEF GetExact, WholeDate, GotTime, Returned, Same
  <1>3. TornReads'
    BY DEF TornReads, GetNeverEarlier, GetRefusesOnlyTorn, GotTime, Returned, Same, Over2069
  <1> QED
    BY <1>1, <1>2, <1>3 DEF GetExact

\* Steps that send a number to the chip, or do something else on the bus: they
\* may only add to bad, and only while get_time reads.
LEMMA PointerStep ==
  ASSUME RtcInv, UNCHANGED <<now, ctrl, first_run, date, tm, ret, instants>>,
         pc' \in {"idle", "get", "read"}, pc' = "idle" <=> pc = "idle", adj' \in {"idle", "read"},
         ptr' \in 1 .. 9, n' \in Tallies, bad \subseteq bad', bad' \subseteq 1 .. 7,
         pc = "idle" => bad' = bad, PtrRight'
  PROVE  RtcInv'
  <1>1. RtcTypes'
    BY Zenon DEF RtcInv, RtcTypes
  <1>2. LastIsNow' /\ Carries'
    BY DEF RtcInv, LastIsNow, Carries, Same
  <1>3. ReadFrom'
    BY DEF RtcInv, ReadFrom, CameFrom
  <1>4. Ahead'
    BY DEF RtcInv, Ahead, Over2069
  <1>5. GetExact' /\ TornReads'
    <2>1. CASE pc = "idle"
      BY <2>1, SameResult DEF RtcInv
    <2>2. CASE pc # "idle"
      BY <2>2 DEF GetExact, FieldsTrue, WholeDate, TornReads, GetNeverEarlier,
                  GetRefusesOnlyTorn, GotTime, Returned
    <2> QED
      BY <2>1, <2>2
  <1> QED
    BY <1>1, <1>2, <1>3, <1>4, <1>5 DEF RtcInv

\* get_time sends the number of a register, with or without success.
LEMMA PointStep == RtcInv /\ (Point \/ PointFails) => RtcInv'
  <1> SUFFICES ASSUME RtcInv, Point \/ PointFails PROVE RtcInv'
    OBVIOUS
  <1>1. /\ UNCHANGED <<now, ctrl, first_run, date, tm, ret, instants, adj>>
        /\ pc = "get" /\ pc' = "read" /\ Len(date) < 7
        /\ \/ ptr' = Place /\ bad' = bad /\ n' = n
           \/ ptr' \in {ptr, Place} /\ bad' = bad \cup {Place} /\ n' = [n EXCEPT !.faults = @ + 1]
    BY DEF Point, PointFails, Fields
  <1>2. Place \in 1 .. 7 /\ Place \in 1 .. 9 /\ Place' = Place
    <2>1. Len(date) \in 0 .. 7
      BY DEF RtcInv, RtcTypes
    <2> QED
      BY <1>1, <2>1 DEF Place
  <1>3. n' \in Tallies
    BY <1>1 DEF RtcInv, RtcTypes, Tallies
  <1>4. bad \subseteq 1 .. 7 /\ ptr \in 1 .. 9 /\ adj \in {"idle", "read"}
    BY DEF RtcInv, RtcTypes
  <1>5. PtrRight'
    BY <1>1, <1>2 DEF PtrRight
  <1>6. bad \subseteq bad' /\ bad' \subseteq 1 .. 7 /\ ptr' \in 1 .. 9 /\ adj' \in {"idle", "read"}
    BY <1>1, <1>2, <1>4, Zenon
  <1> QED
    BY <1>1, <1>3, <1>5, <1>6, PointerStep

\* clock_adjust_ppb is used.
LEMMA AdjustStep == RtcInv /\ (AdjustPoint \/ AdjustRead \/ AdjustWrite) => RtcInv'
  <1> SUFFICES ASSUME RtcInv, AdjustPoint \/ AdjustRead \/ AdjustWrite PROVE RtcInv'
    OBVIOUS
  <1>1. /\ UNCHANGED <<now, ctrl, first_run, pc, date, tm, ret, instants>>
        /\ n' = n \/ n' = [n EXCEPT !.adjusts = @ + 1]
        /\ ptr' \in {ptr, 8, 9, Past(ptr)} /\ adj' \in {adj, "idle", "read"}
        /\ bad' = IF pc = "read" THEN bad \cup {Place} ELSE bad
    BY DEF AdjustPoint, AdjustRead, AdjustWrite, Overtakes, DIGOFF, Beyond
  <1>2. /\ bad \subseteq 1 .. 7 /\ ptr \in 1 .. 9 /\ adj \in {"idle", "read"}
        /\ pc \in {"idle", "get", "read"} /\ Len(date) \in 0 .. 7 /\ n \in Tallies
    BY DEF RtcInv, RtcTypes
  <1>3. ptr' \in 1 .. 9
    BY <1>1, <1>2 DEF Past, Beyond
  <1>4. n' \in Tallies
    BY <1>1, <1>2 DEF Tallies
  <1>5. pc = "read" => Len(date) < 7 /\ Place \in 1 .. 7 /\ Place' = Place
    BY <1>1, <1>2 DEF RtcInv, PtrRight, Place
  <1>6. PtrRight'
    BY <1>1, <1>5 DEF PtrRight
  <1>7. bad \subseteq bad' /\ bad' \subseteq 1 .. 7
    BY <1>1, <1>2, <1>5, Zenon
  <1>8. adj' \in {"idle", "read"} /\ (pc = "idle" => bad' = bad)
    BY <1>1, <1>2
  <1> QED
    BY <1>1, <1>2, <1>3, <1>4, <1>6, <1>7, <1>8, PointerStep

\* The clock goes on while the driver reads.
LEMMA TickReading == RtcInv /\ Tick /\ pc # "idle" => RtcInv'
  <1> SUFFICES ASSUME RtcInv, Tick, pc # "idle" PROVE RtcInv'
    OBVIOUS
  <1>0. PICK last \in MonthEnds(now) : now' = After(now, last)
    BY DEF Tick
  <1> DEFINE e == After(now, last)
             k == Len(instants)
  <1>1. /\ now' = e /\ instants' = Append(instants, e) /\ n' = [n EXCEPT !.ticks = @ + 1]
        /\ ctrl' = ctrl /\ first_run' = first_run /\ pc' = pc /\ date' = date /\ tm' = tm
        /\ ret' = ret /\ bad' = bad /\ ptr' = ptr /\ adj' = adj
    BY <1>0 DEF Tick
  <1>2. /\ now \in Held /\ instants \in Seq(Held) /\ instants # <<>>
        /\ instants[k] = now /\ k \in Nat \ {0} /\ DOMAIN instants = 1 .. k
    BY LenProperties, EmptySeq DEF RtcInv, RtcTypes, LastIsNow
  <1>3. /\ e \in Held
        /\ e.min = now.min => /\ e.hour = now.hour /\ e.mday = now.mday
                              /\ e.mon = now.mon /\ e.year = now.year
        /\ e.mon = now.mon => e.year = now.year
    BY <1>2, AfterFacts
  <1>4. /\ instants' \in Seq(Held) /\ Len(instants') = k + 1 /\ DOMAIN instants' = 1 .. k + 1
        /\ instants'[k + 1] = e /\ \A i \in 1 .. k : instants'[i] = instants[i]
    BY <1>1, <1>2, <1>3, AppendProperties, LenProperties
  <1>5. RtcTypes'
    BY SMTT(60), <1>1, <1>3, <1>4 DEF RtcInv, RtcTypes, Tallies
  <1>6. LastIsNow'
    BY <1>1, <1>2, <1>4 DEF LastIsNow
  <1>7. \A f \in {"min", "hour", "mday", "mon", "year"} :
            Same(f)' <=> Same(f) /\ e[f] = now[f]
    <2> SUFFICES ASSUME NEW f \in {"min", "hour", "mday", "mon", "year"}
                 PROVE  Same(f)' <=> Same(f) /\ e[f] = now[f]
      OBVIOUS
    <2>1. Same(f)' <=> \A i \in 1 .. k + 1 : instants'[i][f] = instants'[1][f]
      BY <1>4 DEF Same
    <2>2. Same(f) <=> \A i \in 1 .. k : instants[i][f] = instants[1][f]
      BY <1>2 DEF Same
    <2>3. instants'[1] = instants[1] /\ k \in 1 .. k /\ 1 \in 1 .. k
      BY <1>2, <1>4
    <2>4. \A i \in 1 .. k + 1 : i \in 1 .. k \/ i = k + 1
      BY <1>2
    <2> QED
      BY <1>2, <1>4, <2>1, <2>2, <2>3, <2>4
  <1>8. Carries'
    BY <1>3, <1>7 DEF RtcInv, Carries
  <1>9. ReadFrom'
    <2> SUFFICES ASSUME NEW i \in 1 .. Len(date), i \notin bad, i # 4
                 PROVE  \E j \in 1 .. k + 1 : date[i] = Register(instants'[j], Fields[i])
      BY <1>1, <1>4 DEF ReadFrom, CameFrom
    <2>1. PICK j \in 1 .. k : date[i] = Register(instants[j], Fields[i])
      BY <1>2 DEF RtcInv, ReadFrom, CameFrom
    <2> QED
      BY <1>2, <1>4, <2>1
  <1>10. Ahead'
    <2> SUFFICES ASSUME bad = {}, ~ Over2069'
                 PROVE  ~ Earlier(TimeOf(Mixed(date, e)), TimeOf(instants'[1]))
      BY <1>1 DEF Ahead
    <2>1. ~ Over2069 /\ ~ (now.year = 69 /\ e.year = 70)
      <3>1. \A i \in 2 .. k + 1 : ~ (instants'[i - 1].year = 69 /\ instants'[i].year = 70)
        BY <1>4 DEF Over2069
      <3>2. \A i \in 2 .. k : ~ (instants[i - 1].year = 69 /\ instants[i].year = 70)
        BY <1>2, <1>4, <3>1
      <3>3. k + 1 \in 2 .. k + 1 /\ (k + 1) - 1 = k /\ k \in 1 .. k
        BY <1>2
      <3>4. instants'[k] = now /\ instants'[k + 1] = e
        BY <1>2, <1>4, <3>3
      <3> QED
        BY <3>1, <3>2, <3>3, <3>4 DEF Over2069
    <2>2. ~ Earlier(TimeOf(Mixed(date, now)), TimeOf(instants[1]))
      BY <2>1 DEF RtcInv, Ahead
    <2>5. Len(date) \in 0 .. 7
      BY DEF RtcInv, RtcTypes
    <2>10. \A j \in DOMAIN instants : instants[j] \in Held
      BY <1>2, ElementOfSeq
    <2>11. CameFrom(date, instants, {})
      BY DEF RtcInv, ReadFrom
    <2>3. Taken(date) \in Times /\ TimeOf(Mixed(date, now)) = Mix(Len(date), Taken(date), now)
      BY <1>2, <2>5, <2>10, <2>11, MixedIs
    <2>4. TimeOf(Mixed(date, e)) = Mix(Len(date), Taken(date), e)
      BY <1>3, <2>5, <2>10, <2>11, MixedIs
    <2>6. /\ AtLeast(TimeOf(Mixed(date, e)), TimeOf(Mixed(date, now)))
          /\ TimeOf(Mixed(date, now)) \in Times /\ TimeOf(Mixed(date, e)) \in Times
      <3>1. /\ AtLeast(Mix(Len(date), Taken(date), e), Mix(Len(date), Taken(date), now))
            /\ Mix(Len(date), Taken(date), now) \in Times
            /\ Mix(Len(date), Taken(date), e) \in Times
        BY <1>0, <1>2, <2>1, <2>3, <2>5, MixAfter, ZenonT(60)
      <3> QED
        BY <2>3, <2>4, <3>1, Zenon
    <2>7. TimeOf(instants[1]) \in Times /\ instants'[1] = instants[1]
      BY <1>2, <1>4, TimeOfDate, ElementOfSeq
    <2>8. AtLeast(TimeOf(Mixed(date, now)), TimeOf(instants[1]))
      BY <2>2, <2>6, <2>7, NotEarlier
    <2>9. AtLeast(TimeOf(Mixed(date, e)), TimeOf(instants[1]))
      BY <2>6, <2>7, <2>8, AtLeastTransitive
    <2> QED
      BY <2>6, <2>7, <2>9, NotEarlier
  <1>11. GetExact' /\ TornReads'
    BY <1>1 DEF GetExact, FieldsTrue, WholeDate, TornReads, GetNeverEarlier,
                GetRefusesOnlyTorn, GotTime, Returned
  <1>12. PtrRight'
    BY <1>1 DEF RtcInv, PtrRight, Place
  <1> QED
    BY <1>5, <1>6, <1>8, <1>9, <1>10, <1>11, <1>12 DEF RtcInv

\* The clock goes on between calls.
LEMMA TickIdle == RtcInv /\ Tick /\ pc = "idle" => RtcInv'
  <1> SUFFICES ASSUME RtcInv, Tick, pc = "idle" PROVE RtcInv'
    OBVIOUS
  <1>0. PICK last \in MonthEnds(now) : now' = After(now, last)
    BY DEF Tick
  <1>1. /\ now' = After(now, last) /\ instants' = instants /\ n' = [n EXCEPT !.ticks = @ + 1]
        /\ ctrl' = ctrl /\ first_run' = first_run /\ pc' = "idle" /\ date' = date /\ tm' = tm
        /\ ret' = ret /\ bad' = bad /\ ptr' = ptr /\ adj' = adj
    BY <1>0 DEF Tick
  <1>2. After(now, last) \in Held
    BY AfterFacts DEF RtcInv, RtcTypes
  <1>3. RtcTypes'
    BY <1>1, <1>2 DEF RtcInv, RtcTypes, Tallies
  <1>4. LastIsNow' /\ ReadFrom' /\ Ahead' /\ PtrRight'
    BY <1>1 DEF LastIsNow, ReadFrom, Ahead, PtrRight
  <1>5. Carries'
    BY <1>1 DEF RtcInv, Carries, Same
  <1>6. GetExact' /\ TornReads'
    BY <1>1, SameResult DEF RtcInv
  <1> QED
    BY <1>3, <1>4, <1>5, <1>6 DEF RtcInv

\* Nothing read: the date of Ahead is the present one.
LEMMA NothingRead ==
  ASSUME NEW d \in Held
  PROVE  Mixed(<<>>, d) = [sec |-> d.sec, min |-> d.min, hour |-> d.hour, mday |-> d.mday,
                           mon |-> d.mon, year |-> d.year]
  <1>1. Len(<<>>) = 0
    BY EmptySeq
  <1> QED
    BY <1>1 DEF Mixed, Field, REG

\* A call of get_time begins.
LEMMA GetTimeStep == RtcInv /\ GetTime => RtcInv'
  <1> SUFFICES ASSUME RtcInv, GetTime PROVE RtcInv'
    OBVIOUS
  <1>1. /\ now' = now /\ instants' = <<now>> /\ n' = [n EXCEPT !.calls = @ + 1]
        /\ ctrl' = ctrl /\ first_run' = first_run /\ pc' = "get" /\ date' = <<>> /\ bad' = {}
        /\ ptr' = ptr /\ adj' = adj
    BY DEF GetTime
  <1>2. now \in Held
    BY DEF RtcInv, RtcTypes
  <1>3. /\ <<now>> \in Seq(Held) /\ Len(<<now>>) = 1 /\ DOMAIN <<now>> = {1} /\ <<now>>[1] = now
        /\ <<now>> # <<>>
    BY <1>2
  <1>4. <<>> \in Seq(Octet) /\ Len(<<>>) = 0
    BY EmptySeq
  <1>5. RtcTypes'
    <2>1. n' \in Tallies
      BY <1>1 DEF RtcInv, RtcTypes, Tallies
    <2>2. /\ first_run \in BOOLEAN /\ ctrl \in BOOLEAN /\ ptr \in 1 .. 9
          /\ adj \in {"idle", "read"} /\ {} \subseteq 1 .. 7
      BY DEF RtcInv, RtcTypes
    <2>3. Len(<<>>) \in 0 .. 7
      BY <1>4
    <2> QED
      BY <1>1, <1>2, <1>3, <1>4, <2>1, <2>2, <2>3, Zenon DEF RtcTypes
  <1>6. LastIsNow'
    BY <1>1, <1>3 DEF LastIsNow
  <1>7. Carries'
    BY <1>1, <1>3 DEF Carries, Same
  <1>8. ReadFrom'
    BY <1>1, <1>4 DEF ReadFrom, CameFrom
  <1>9. Ahead'
    <2>1. now.year \in 0 .. 99
      BY <1>2, DateFields
    <2> DEFINE m == Mixed(<<>>, now)
    <2>2. /\ m.sec = now.sec /\ m.min = now.min /\ m.hour = now.hour /\ m.mday = now.mday
          /\ m.mon = now.mon /\ m.year = now.year
      BY <1>2, NothingRead
    <2> HIDE DEF m
    <2>3. TimeOf(m) = TimeOf(now)
      BY <2>2 DEF TimeOf
    <2>4. ~ Earlier(TimeOf(now), TimeOf(now))
      BY <1>2, TimeOfDate, NotEarlier
    <2>5. instants'[1] = now
      BY <1>1, <1>3
    <2> QED
      BY <1>1, <2>3, <2>4, <2>5 DEF Ahead, m
  <1>10. GetExact' /\ TornReads'
    BY <1>1 DEF GetExact, FieldsTrue, WholeDate, TornReads, GetNeverEarlier,
                GetRefusesOnlyTorn, GotTime, Returned
  <1>11. PtrRight'
    BY <1>1 DEF PtrRight
  <1> QED
    BY <1>5, <1>6, <1>7, <1>8, <1>9, <1>10, <1>11 DEF RtcInv

\* The next register, read at the date of Ahead, leaves that date as it is.
LEMMA MixedRead ==
  ASSUME NEW old, NEW bytes, NEW d \in Held, Len(old) \in 0 .. 6, Len(bytes) = Len(old) + 1,
         Len(old) # 3 => bytes[Len(old) + 1] = Register(d, Fields[Len(old) + 1]),
         \A i \in 1 .. Len(old) : bytes[i] = old[i]
  PROVE  Mixed(bytes, d) = Mixed(old, d)
  <1> DEFINE k == Len(old)
  <1>1. /\ Field(bytes, d, "sec") = IF 1 <= k + 1 THEN Decoded(bytes[1], 128) ELSE d.sec
        /\ Field(bytes, d, "min") = IF 2 <= k + 1 THEN Decoded(bytes[2], 128) ELSE d.min
        /\ Field(bytes, d, "hour") = IF 3 <= k + 1 THEN Decoded(bytes[3], 64) ELSE d.hour
        /\ Field(bytes, d, "mday") = IF 5 <= k + 1 THEN Decoded(bytes[5], 64) ELSE d.mday
        /\ Field(bytes, d, "mon") = IF 6 <= k + 1 THEN Decoded(bytes[6], 32) ELSE d.mon
        /\ Field(bytes, d, "year") = IF 7 <= k + 1 THEN Decoded(bytes[7], 256) ELSE d.year
    BY DEF Field, Bin, REG, Kept
  <1>2. /\ Field(old, d, "sec") = IF 1 <= k THEN Decoded(old[1], 128) ELSE d.sec
        /\ Field(old, d, "min") = IF 2 <= k THEN Decoded(old[2], 128) ELSE d.min
        /\ Field(old, d, "hour") = IF 3 <= k THEN Decoded(old[3], 64) ELSE d.hour
        /\ Field(old, d, "mday") = IF 5 <= k THEN Decoded(old[5], 64) ELSE d.mday
        /\ Field(old, d, "mon") = IF 6 <= k THEN Decoded(old[6], 32) ELSE d.mon
        /\ Field(old, d, "year") = IF 7 <= k THEN Decoded(old[7], 256) ELSE d.year
    BY DEF Field, Bin, REG, Kept
  <1>3. /\ Decoded(Register(d, Fields[1]), 128) = d.sec
        /\ Decoded(Register(d, Fields[2]), 128) = d.min
        /\ Decoded(Register(d, Fields[3]), 64) = d.hour
        /\ Decoded(Register(d, Fields[5]), 64) = d.mday
        /\ Decoded(Register(d, Fields[6]), 32) = d.mon
        /\ Decoded(Register(d, Fields[7]), 256) = d.year
    BY RegisterFacts
  <1>4. k \in 0 .. 6 /\ (k # 3 => bytes[k + 1] = Register(d, Fields[k + 1]))
    OBVIOUS
  <1>5. \A i \in 1 .. k : bytes[i] = old[i]
    OBVIOUS
  <1> HIDE DEF k
  <1>6. /\ Field(bytes, d, "sec") = Field(old, d, "sec")
        /\ Field(bytes, d, "min") = Field(old, d, "min")
        /\ Field(bytes, d, "hour") = Field(old, d, "hour")
    BY <1>1, <1>2, <1>3, <1>4, <1>5
  <1>7. /\ Field(bytes, d, "mday") = Field(old, d, "mday")
        /\ Field(bytes, d, "mon") = Field(old, d, "mon")
        /\ Field(bytes, d, "year") = Field(old, d, "year")
    BY <1>1, <1>2, <1>3, <1>4, <1>5
  <1> QED
    BY <1>6, <1>7 DEF Mixed

\* What may be read at a place is a byte; at the place of a field it is that field.
LEMMA BytesAre ==
  ASSUME NEW d \in Held, NEW p \in 1 .. 9, NEW b \in Bytes(d, p)
  PROVE  b \in Octet /\ (p \in 1 .. 7 /\ p # 4 => b = Register(d, Fields[p]))
  <1>1. DOMAIN Fields = 1 .. 7 /\ Fields[4] = "wday"
        /\ \A i \in 1 .. 7 : i # 4 => Fields[i] # "wday"
    BY DEF Fields
  <1>2. \A i \in 1 .. 7 : i # 4 => Register(d, Fields[i]) \in 0 .. 255
    BY RegisterFacts
  <1>3. CASE p \in 1 .. 7 /\ p # 4
    <2>1. b = Register(d, Fields[p])
      BY <1>1, <1>3, Zenon DEF Bytes, Register
    <2> QED
      BY <1>2, <1>3, <2>1 DEF Octet
  <1>4. CASE ~ (p \in 1 .. 7 /\ p # 4)
    <2>1. b \in Others
      BY <1>1, <1>4, Zenon DEF Bytes
    <2> QED
      BY <1>4, <2>1, RtcConstants DEF Octet
  <1> QED
    BY <1>3, <1>4

\* A byte is added to those read; if its place is not bad it is the register's.
LEMMA ByteRead ==
  ASSUME RtcInv, pc = "read", pc' = "get", NEW b \in Octet, date' = Append(date, b),
         UNCHANGED <<now, ctrl, first_run, adj, instants>>,
         ptr' \in 1 .. 9, n' \in Tallies, bad' = bad \/ bad' = bad \cup {Place},
         Place \notin bad' /\ Place # 4 => b = Register(now, Fields[Place])
  PROVE  RtcInv'
  <1> DEFINE k == Len(date)
  <1>0. k \in 0 .. 6 /\ k + 1 \in 1 .. 7 /\ k + 1 \in 0 .. 7 /\ Place = k + 1
    <2>1. k \in 0 .. 7 /\ k < 7
      BY DEF RtcInv, RtcTypes, PtrRight
    <2> HIDE DEF k
    <2>2. k \in 0 .. 6 /\ k + 1 \in 1 .. 7 /\ k + 1 \in 0 .. 7
      BY <2>1
    <2> QED
      BY <2>2 DEF k, Place
  <1>2. /\ now \in Held /\ date \in Seq(Octet) /\ bad \subseteq 1 .. 7
        /\ instants \in Seq(Held) /\ instants # <<>> /\ instants[Len(instants)] = now
    BY DEF RtcInv, RtcTypes, LastIsNow
  <1>4. /\ date' \in Seq(Octet) /\ Len(date') = k + 1 /\ date'[k + 1] = b
        /\ \A i \in 1 .. k : date'[i] = date[i]
    BY <1>2, AppendProperties
  <1>6. RtcTypes'
    <2>1. Len(date') \in 0 .. 7
      BY <1>0, <1>4
    <2>2. bad' \subseteq 1 .. 7
      BY <1>0, <1>2
    <2> QED
      BY <1>4, <2>1, <2>2, Zenon DEF RtcInv, RtcTypes
  <1>7. LastIsNow'
    BY DEF RtcInv, LastIsNow
  <1>8. Carries'
    BY DEF RtcInv, Carries, Same
  <1>9. ReadFrom'
    <2> SUFFICES ASSUME NEW i \in 1 .. k + 1, i \notin bad', i # 4
                 PROVE  \E j \in DOMAIN instants : date'[i] = Register(instants[j], Fields[i])
      BY <1>4 DEF ReadFrom, CameFrom
    <2>1. CASE i \in 1 .. k
      <3>1. i \notin bad /\ CameFrom(date, instants, bad)
        BY DEF RtcInv, ReadFrom
      <3> QED
        BY <1>4, <2>1, <3>1 DEF CameFrom
    <2>2. CASE i = k + 1
      <3>1. Len(instants) \in DOMAIN instants
        BY <1>2, LenProperties, EmptySeq
      <3>2. date'[i] = Register(now, Fields[i])
        BY <1>0, <1>4, <2>2
      <3> QED
        BY <1>2, <3>1, <3>2
    <2> QED
      BY <1>0, <2>1, <2>2
  <1>10. Ahead'
    <2> SUFFICES ASSUME bad' = {}, ~ Over2069'
                 PROVE  ~ Earlier(TimeOf(Mixed(date', now)), TimeOf(instants[1]))
      BY DEF Ahead
    <2>1. bad = {} /\ ~ Over2069
      BY DEF Over2069
    <2>2. k # 3 => date'[k + 1] = Register(now, Fields[k + 1])
      BY <1>0, <1>4
    <2>3. Mixed(date', now) = Mixed(date, now)
      BY <1>0, <1>2, <1>4, <2>2, MixedRead
    <2> QED
      BY <2>1, <2>3 DEF RtcInv, Ahead
  <1>11. GetExact' /\ TornReads'
    BY DEF GetExact, FieldsTrue, WholeDate, TornReads, GetNeverEarlier,
           GetRefusesOnlyTorn, GotTime, Returned
  <1>12. PtrRight'
    BY DEF PtrRight
  <1> QED
    BY <1>6, <1>7, <1>8, <1>9, <1>10, <1>11, <1>12 DEF RtcInv

\* A register is read.
LEMMA ReadRegStep == RtcInv /\ ReadReg => RtcInv'
  <1> SUFFICES ASSUME RtcInv, ReadReg PROVE RtcInv'
    OBVIOUS
  <1>1. PICK b \in Bytes(now, ptr) : date' = Append(date, b)
    BY DEF ReadReg
  <1>2. /\ pc = "read" /\ pc' = "get" /\ ptr' = Past(ptr) /\ bad' = bad /\ n' = n
        /\ UNCHANGED <<now, ctrl, first_run, adj, instants>>
    BY DEF ReadReg
  <1>3. now \in Held /\ ptr \in 1 .. 9 /\ n \in Tallies /\ Len(date) \in 0 .. 7
    BY DEF RtcInv, RtcTypes
  <1>4. ptr' \in 1 .. 9
    BY <1>2, <1>3 DEF Past, Beyond
  <1>5. b \in Octet /\ (ptr \in 1 .. 7 /\ ptr # 4 => b = Register(now, Fields[ptr]))
    BY <1>3, BytesAre
  <1>6. Place \in 1 .. 7 /\ (Place \notin bad => ptr = Place)
    BY <1>2, <1>3 DEF RtcInv, PtrRight, Place
  <1>7. Place \notin bad' /\ Place # 4 => b = Register(now, Fields[Place])
    BY <1>2, <1>5, <1>6, Zenon
  <1> QED
    BY <1>1, <1>2, <1>3, <1>4, <1>5, <1>7, ByteRead

\* The read of a register fails.
LEMMA ReadRegFailsStep == RtcInv /\ ReadRegFails => RtcInv'
  <1> SUFFICES ASSUME RtcInv, ReadRegFails PROVE RtcInv'
    OBVIOUS
  <1>1. PICK e \in Errnos : date' = Append(date, AsByte(e))
    BY DEF ReadRegFails
  <1>2. /\ pc = "read" /\ pc' = "get" /\ ptr' \in {ptr, Past(ptr)} /\ bad' = bad \cup {Place}
        /\ n' = [n EXCEPT !.faults = @ + 1]
        /\ UNCHANGED <<now, ctrl, first_run, adj, instants>>
    BY DEF ReadRegFails
  <1>3. ptr \in 1 .. 9 /\ n \in Tallies
    BY DEF RtcInv, RtcTypes
  <1>4. ptr' \in 1 .. 9
    BY <1>2, <1>3 DEF Past, Beyond
  <1>5. n' \in Tallies
    BY <1>2, <1>3 DEF Tallies
  <1>6. AsByte(e) \in Octet
    BY RtcConstants DEF AsByte, Octet
  <1>7. Place \in bad'
    BY <1>2
  <1> QED
    BY <1>1, <1>2, <1>4, <1>5, <1>6, <1>7, ByteRead

\* The seven registers, each read at some instant: what get_time makes of them.
LEMMA AllRead ==
  ASSUME NEW bytes, Len(bytes) = 7, NEW ins, CameFrom(bytes, ins, {}),
         \A j \in DOMAIN ins : ins[j] \in Held, NEW d \in Held
  PROVE  /\ \E j \in DOMAIN ins : Bin(bytes, "sec") = ins[j].sec
         /\ \E j \in DOMAIN ins : Bin(bytes, "min") = ins[j].min
         /\ \E j \in DOMAIN ins : Bin(bytes, "hour") = ins[j].hour
         /\ \E j \in DOMAIN ins : Bin(bytes, "mday") = ins[j].mday
         /\ \E j \in DOMAIN ins : Bin(bytes, "mon") = ins[j].mon
         /\ \E j \in DOMAIN ins : Bin(bytes, "year") = ins[j].year
         /\ Bin(bytes, "sec") \in 0 .. 59 /\ Bin(bytes, "min") \in 0 .. 59
         /\ Bin(bytes, "hour") \in 0 .. 23 /\ Bin(bytes, "year") \in 0 .. 99
         /\ Time(bytes) = TimeOf(Mixed(bytes, d))
  <1>0. /\ Len(bytes) \in 0 .. 7 /\ 1 <= Len(bytes) /\ 2 <= Len(bytes) /\ 3 <= Len(bytes)
        /\ 5 <= Len(bytes) /\ 6 <= Len(bytes) /\ 7 <= Len(bytes)
    OBVIOUS
  <1>a. PICK bd : bd = {}
    OBVIOUS
  <1>b. /\ CameFrom(bytes, ins, bd) /\ 1 \notin bd /\ 2 \notin bd /\ 3 \notin bd
        /\ 5 \notin bd /\ 6 \notin bd /\ 7 \notin bd
    BY <1>a
  <1>1. /\ \E j \in DOMAIN ins : Bin(bytes, "sec") = ins[j].sec
        /\ \E j \in DOMAIN ins : Bin(bytes, "min") = ins[j].min
        /\ \E j \in DOMAIN ins : Bin(bytes, "hour") = ins[j].hour
        /\ \E j \in DOMAIN ins : Bin(bytes, "mday") = ins[j].mday
        /\ \E j \in DOMAIN ins : Bin(bytes, "mon") = ins[j].mon
        /\ \E j \in DOMAIN ins : Bin(bytes, "year") = ins[j].year
    <2>1. \E j \in DOMAIN ins : Bin(bytes, "sec") = ins[j].sec
      BY ZenonT(60), <1>0, <1>b, FieldsRead
    <2>2. \E j \in DOMAIN ins : Bin(bytes, "min") = ins[j].min
      BY ZenonT(60), <1>0, <1>b, FieldsRead
    <2>3. \E j \in DOMAIN ins : Bin(bytes, "hour") = ins[j].hour
      BY ZenonT(60), <1>0, <1>b, FieldsRead
    <2>4. \E j \in DOMAIN ins : Bin(bytes, "mday") = ins[j].mday
      BY ZenonT(60), <1>0, <1>b, FieldsRead
    <2>5. \E j \in DOMAIN ins : Bin(bytes, "mon") = ins[j].mon
      BY ZenonT(60), <1>0, <1>b, FieldsRead
    <2>6. \E j \in DOMAIN ins : Bin(bytes, "year") = ins[j].year
      BY ZenonT(60), <1>0, <1>b, FieldsRead
    <2> QED
      BY <2>1, <2>2, <2>3, <2>4, <2>5, <2>6, Zenon
  <1>2. Bin(bytes, "sec") \in 0 .. 59
    BY <1>1, DateFields
  <1>3. Bin(bytes, "min") \in 0 .. 59
    BY <1>1, DateFields
  <1>4. Bin(bytes, "hour") \in 0 .. 23
    BY <1>1, DateFields
  <1>5. Bin(bytes, "year") \in 0 .. 99
    BY <1>1, DateFields
  <1> DEFINE m == Mixed(bytes, d)
  <1>6. /\ m.sec = Bin(bytes, "sec") /\ m.min = Bin(bytes, "min") /\ m.hour = Bin(bytes, "hour")
        /\ m.mday = Bin(bytes, "mday") /\ m.mon = Bin(bytes, "mon") /\ m.year = Bin(bytes, "year")
    BY DEF Mixed, Field, REG
  <1> HIDE DEF m
  <1>7. TimeOf(m) = [sec |-> m.sec, min |-> m.min, hour |-> m.hour, mday |-> m.mday,
                     mon |-> m.mon - 1, year |-> Century(m.year)]
    BY <1>5, <1>6, TimeOfFacts
  <1>8. Time(bytes) = TimeOf(m)
    BY <1>6, <1>7 DEF Time, Month
  <1> QED
    BY <1>1, <1>2, <1>3, <1>4, <1>5, <1>8 DEF m

\* get_time returns what it has read.
LEMMA GetEndStep == RtcInv /\ GetEnd => RtcInv'
  <1> SUFFICES ASSUME RtcInv, GetEnd PROVE RtcInv'
    OBVIOUS
  <1>1. /\ now' = now /\ instants' = instants /\ pc' = "idle" /\ pc = "get" /\ date' = <<>>
        /\ tm' = Time(date) /\ bad' = bad /\ adj' = adj /\ Len(date) = 7 /\ first_run' = FALSE
        /\ ret' = (IF rtc_valid_tm(Time(date)) THEN 0 ELSE EINVAL)
        /\ ptr' = (IF first_run THEN Beyond ELSE ptr)
    BY DEF GetEnd, Fields, FirstRun
  <1>2. PICK done \in Configured : FirstRun(done) /\ n' = [n EXCEPT !.faults = @ + Fault(done)]
    BY DEF GetEnd
  <1>3. /\ now \in Held /\ instants # <<>> /\ instants[1] \in Held
        /\ \A j \in DOMAIN instants : instants[j] \in Held
    BY <1>1, ElementOfSeq, LenProperties, EmptySeq DEF RtcInv, RtcTypes, LastIsNow
  <1>4. n' \in Tallies /\ ctrl' \in BOOLEAN
    <2>1. n \in Tallies /\ ctrl \in BOOLEAN /\ first_run \in BOOLEAN
      BY DEF RtcInv, RtcTypes
    <2>2. Fault(done) \in Nat
      BY DEF Fault
    <2>3. n' \in Tallies
      BY <1>2, <2>1, <2>2 DEF Tallies
    <2>4. ctrl' \in BOOLEAN
      BY <1>2, <2>1 DEF FirstRun
    <2> QED
      BY <2>3, <2>4
  <1>5. RtcTypes'
    <2>1. <<>> \in Seq(Octet) /\ Len(<<>>) \in 0 .. 7
      BY EmptySeq
    <2>2. /\ now \in Held /\ instants \in Seq(Held) /\ bad \subseteq 1 .. 7 /\ ptr \in 1 .. 9
          /\ adj \in {"idle", "read"} /\ Beyond \in 1 .. 9
      BY DEF RtcInv, RtcTypes, Beyond
    <2>3. ptr' \in 1 .. 9
      BY <1>1, <2>2, Zenon
    <2> QED
      BY <1>1, <1>4, <2>1, <2>2, <2>3, Zenon DEF RtcTypes
  <1>6. LastIsNow' /\ ReadFrom' /\ Ahead' /\ PtrRight'
    BY <1>1 DEF LastIsNow, ReadFrom, Ahead, PtrRight
  <1>7. Carries'
    BY <1>1 DEF RtcInv, Carries, Same
  <1>8. FieldsTrue'
    <2>1. CameFrom(date, instants, bad) /\ Len(date) \in 0 .. 7
      BY <1>1 DEF RtcInv, ReadFrom
    <2>2. /\ 1 <= Len(date) /\ 2 <= Len(date) /\ 3 <= Len(date) /\ 5 <= Len(date)
          /\ 6 <= Len(date) /\ 7 <= Len(date)
      BY <1>1
    <2>3. \A j \in DOMAIN instants :
              /\ TimeOf(instants[j]).sec = instants[j].sec
              /\ TimeOf(instants[j]).min = instants[j].min
              /\ TimeOf(instants[j]).hour = instants[j].hour
              /\ TimeOf(instants[j]).mday = instants[j].mday
              /\ TimeOf(instants[j]).mon = Month(instants[j].mon)
              /\ TimeOf(instants[j]).year = Century(instants[j].year)
      <3> SUFFICES ASSUME NEW j \in DOMAIN instants
                   PROVE  /\ TimeOf(instants[j]).sec = instants[j].sec
                          /\ TimeOf(instants[j]).min = instants[j].min
                          /\ TimeOf(instants[j]).hour = instants[j].hour
                          /\ TimeOf(instants[j]).mday = instants[j].mday
                          /\ TimeOf(instants[j]).mon = Month(instants[j].mon)
                          /\ TimeOf(instants[j]).year = Century(instants[j].year)
        OBVIOUS
      <3> DEFINE d == instants[j]
      <3>1. d.year \in 0 .. 99
        BY <1>3, DateFields
      <3> HIDE DEF d
      <3>2. TimeOf(d) = [sec |-> d.sec, min |-> d.min, hour |-> d.hour, mday |-> d.mday,
                         mon |-> d.mon - 1, year |-> Century(d.year)]
        BY <3>1, TimeOfFacts
      <3>3. /\ TimeOf(d).sec = d.sec /\ TimeOf(d).min = d.min /\ TimeOf(d).hour = d.hour
            /\ TimeOf(d).mday = d.mday /\ TimeOf(d).mon = d.mon - 1
            /\ TimeOf(d).year = Century(d.year)
        BY <3>2
      <3> QED
        BY <3>3, Zenon DEF d, Month
    <2>4. /\ Time(date).sec = Bin(date, "sec") /\ Time(date).min = Bin(date, "min")
          /\ Time(date).hour = Bin(date, "hour") /\ Time(date).mday = Bin(date, "mday")
          /\ Time(date).mon = Month(Bin(date, "mon"))
          /\ Time(date).year = Century(Bin(date, "year"))
      BY Zenon DEF Time
    <2>5. /\ 1 \notin bad => \E j \in DOMAIN instants : Time(date).sec = TimeOf(instants[j]).sec
          /\ 2 \notin bad => \E j \in DOMAIN instants : Time(date).min = TimeOf(instants[j]).min
          /\ 3 \notin bad => \E j \in DOMAIN instants : Time(date).hour = TimeOf(instants[j]).hour
          /\ 5 \notin bad => \E j \in DOMAIN instants : Time(date).mday = TimeOf(instants[j]).mday
          /\ 6 \notin bad => \E j \in DOMAIN instants : Time(date).mon = TimeOf(instants[j]).mon
          /\ 7 \notin bad => \E j \in DOMAIN instants : Time(date).year = TimeOf(instants[j]).year
      <3>1. /\ 1 \notin bad => \E j \in DOMAIN instants : Bin(date, "sec") = instants[j].sec
            /\ 2 \notin bad => \E j \in DOMAIN instants : Bin(date, "min") = instants[j].min
            /\ 3 \notin bad => \E j \in DOMAIN instants : Bin(date, "hour") = instants[j].hour
        BY <1>3, <2>1, <2>2, FieldsRead, ZenonT(60)
      <3>2. /\ 5 \notin bad => \E j \in DOMAIN instants : Bin(date, "mday") = instants[j].mday
            /\ 6 \notin bad => \E j \in DOMAIN instants : Bin(date, "mon") = instants[j].mon
            /\ 7 \notin bad => \E j \in DOMAIN instants : Bin(date, "year") = instants[j].year
        BY <1>3, <2>1, <2>2, FieldsRead, ZenonT(60)
      <3>3. /\ 1 \notin bad => \E j \in DOMAIN instants : Time(date).sec = TimeOf(instants[j]).sec
            /\ 2 \notin bad => \E j \in DOMAIN instants : Time(date).min = TimeOf(instants[j]).min
            /\ 3 \notin bad => \E j \in DOMAIN instants : Time(date).hour = TimeOf(instants[j]).hour
        BY <2>3, <2>4, <3>1, ZenonT(60)
      <3>4. /\ 5 \notin bad => \E j \in DOMAIN instants : Time(date).mday = TimeOf(instants[j]).mday
            /\ 6 \notin bad => \E j \in DOMAIN instants : Time(date).mon = TimeOf(instants[j]).mon
            /\ 7 \notin bad => \E j \in DOMAIN instants : Time(date).year = TimeOf(instants[j]).year
        BY <2>3, <2>4, <3>2, ZenonT(60)
      <3> QED
        BY <3>3, <3>4, Zenon
    <2> SUFFICES ASSUME NEW f \in DOMAIN REG, REG[f] \notin bad
                 PROVE  \E j \in DOMAIN instants : Time(date)[f] = TimeOf(instants[j])[f]
      BY <1>1, Zenon DEF FieldsTrue
    <2>6. /\ REG["sec"] = 1 /\ REG["min"] = 2 /\ REG["hour"] = 3
          /\ REG["mday"] = 5 /\ REG["mon"] = 6 /\ REG["year"] = 7
          /\ f \in {"sec", "min", "hour", "mday", "mon", "year"}
      BY DEF REG
    <2> QED
      BY <2>5, <2>6, ZenonT(60)
  <1>9. SUFFICES ASSUME bad = {} PROVE WholeDate' /\ TornReads'
    <2>1. bad # {} => WholeDate' /\ TornReads'
      BY <1>1 DEF WholeDate, TornReads, GetNeverEarlier, GetRefusesOnlyTorn, GotTime
    <2> QED
      BY <1>5, <1>6, <1>7, <1>8, <1>9, <2>1 DEF RtcInv, GetExact
  <1>10. CameFrom(date, instants, {})
    BY <1>1, <1>9 DEF RtcInv, ReadFrom
  <1>11. /\ Bin(date, "sec") \in 0 .. 59 /\ Bin(date, "min") \in 0 .. 59
         /\ Bin(date, "hour") \in 0 .. 23 /\ Bin(date, "year") \in 0 .. 99
         /\ Time(date) = TimeOf(Mixed(date, now))
    BY <1>1, <1>3, <1>10, AllRead
  <1>12. /\ \E j \in DOMAIN instants : Bin(date, "sec") = instants[j].sec
         /\ \E j \in DOMAIN instants : Bin(date, "min") = instants[j].min
         /\ \E j \in DOMAIN instants : Bin(date, "hour") = instants[j].hour
         /\ \E j \in DOMAIN instants : Bin(date, "mday") = instants[j].mday
         /\ \E j \in DOMAIN instants : Bin(date, "mon") = instants[j].mon
         /\ \E j \in DOMAIN instants : Bin(date, "year") = instants[j].year
    BY <1>1, <1>3, <1>10, AllRead
  <1>13. /\ Same("min") => \A j \in DOMAIN instants :
                /\ instants[j].min = instants[1].min /\ instants[j].hour = instants[1].hour
                /\ instants[j].mday = instants[1].mday /\ instants[j].mon = instants[1].mon
                /\ instants[j].year = instants[1].year
         /\ Same("mon") => \A j \in DOMAIN instants :
                instants[j].mon = instants[1].mon /\ instants[j].year = instants[1].year
    BY DEF RtcInv, Carries, Same
  <1>14. \A d \in Held : /\ Bin(date, "mday") = d.mday /\ Bin(date, "mon") = d.mon
                         /\ Bin(date, "year") = d.year
                         => (rtc_valid_tm(Time(date)) <=> d \in Dates)
    <2> SUFFICES ASSUME NEW d \in Held, Bin(date, "mday") = d.mday, Bin(date, "mon") = d.mon,
                        Bin(date, "year") = d.year
                 PROVE  rtc_valid_tm(Time(date)) <=> d \in Dates
      OBVIOUS
    <2> DEFINE x == Time(date)
    <2>1. /\ x.mday = d.mday /\ x.mon = d.mon - 1 /\ x.year = Century(d.year)
          /\ x.hour = Bin(date, "hour") /\ x.min = Bin(date, "min") /\ x.sec = Bin(date, "sec")
      BY DEF Time, Month
    <2> HIDE DEF x
    <2>2. x.hour \in 0 .. 23 /\ x.min \in 0 .. 59 /\ x.sec \in 0 .. 59
      BY <1>11, <2>1
    <2>3. rtc_valid_tm(x) <=> d \in Dates
      BY <2>1, <2>2, ValidTime
    <2> QED
      BY <2>3 DEF x
  <1>15. WholeDate'
    <2> SUFFICES ASSUME Same("min")
                 PROVE  \E i \in DOMAIN instants :
                            Time(date) = TimeOf(instants[i]) /\ (ret' = 0 <=> instants[i] \in Dates)
      BY <1>1 DEF WholeDate, Same
    <2>1. PICK j \in DOMAIN instants : Bin(date, "sec") = instants[j].sec
      BY <1>12
    <2>2. /\ Bin(date, "min") = instants[j].min /\ Bin(date, "hour") = instants[j].hour
          /\ Bin(date, "mday") = instants[j].mday /\ Bin(date, "mon") = instants[j].mon
          /\ Bin(date, "year") = instants[j].year
      BY <1>12, <1>13
    <2>3. ret' = 0 <=> instants[j] \in Dates
      BY <1>1, <1>3, <1>14, <2>2 DEF EINVAL
    <2> DEFINE d == instants[j]
    <2>4. d.year \in 0 .. 99
      BY <1>11, <2>2
    <2>5. TimeOf(d) = [sec |-> d.sec, min |-> d.min, hour |-> d.hour, mday |-> d.mday,
                       mon |-> d.mon - 1, year |-> Century(d.year)]
      BY <2>4, TimeOfFacts
    <2>6. Time(date) = TimeOf(d)
      BY <2>1, <2>2, <2>5 DEF Time, Month
    <2> QED
      BY <2>3, <2>6
  <1>16. GetRefusesOnlyTorn'
    <2> SUFFICES ASSUME Same("mon"), \A i \in DOMAIN instants : instants[i] \in Dates
                 PROVE  ret' = 0
      BY <1>1 DEF GetRefusesOnlyTorn, Same
    <2>1. PICK j \in DOMAIN instants : Bin(date, "mday") = instants[j].mday
      BY <1>12
    <2>2. Bin(date, "mon") = instants[j].mon /\ Bin(date, "year") = instants[j].year
      BY <1>12, <1>13
    <2>3. rtc_valid_tm(Time(date))
      BY <1>3, <1>14, <2>1, <2>2
    <2> QED
      BY <1>1, <2>3
  <1>17. GetNeverEarlier'
    <2> SUFFICES ASSUME ~ Over2069 PROVE ~ Earlier(Time(date), TimeOf(instants[1]))
      BY <1>1 DEF GetNeverEarlier, Over2069
    <2> QED
      BY <1>1, <1>9, <1>11 DEF RtcInv, Ahead
  <1> QED
    BY <1>15, <1>16, <1>17 DEF TornReads

\* A valid struct rtc_time makes a date of the chip, the BCD registers and back.
LEMMA DateOfValid ==
  ASSUME NEW x \in Times, rtc_valid_tm(x)
  PROVE  DateOf(x) \in Held /\ (TimeOf(DateOf(x)) = x <=> x.year < 170)
  <1>1. /\ x.year \in Int /\ x.mon \in 0 .. 11 /\ x.mday \in Int /\ x.year >= 70
        /\ x.hour \in 0 .. 23 /\ x.min \in 0 .. 59 /\ x.sec \in 0 .. 59
        /\ 1 <= x.mday /\ x.mday <= Days(x.mon + 1, Leap(x.year + 1900))
    BY DEF rtc_valid_tm, Times, Days
  <1>2. x.mday \in 1 .. 31
    BY <1>1 DEF Days
  <1> DEFINE d == DateOf(x)
  <1>3. x.year % 100 \in 0 .. 99 /\ x.mon + 1 \in 1 .. 12
    BY <1>1
  <1>4. d = [sec |-> x.sec, min |-> x.min, hour |-> x.hour, mday |-> x.mday,
             mon |-> x.mon + 1, year |-> x.year % 100]
    <2>1. /\ x.sec \in 0 .. 99 /\ x.min \in 0 .. 99 /\ x.hour \in 0 .. 99 /\ x.mday \in 0 .. 99
          /\ x.mon + 1 \in 0 .. 99 /\ x.year % 100 \in 0 .. 99
      BY <1>1, <1>2, <1>3
    <2>2. /\ Stored(x.sec) = x.sec /\ Stored(x.min) = x.min /\ Stored(x.hour) = x.hour
          /\ Stored(x.mday) = x.mday /\ Stored(x.mon + 1) = x.mon + 1
          /\ Stored(x.year % 100) = x.year % 100
      BY <2>1, StoredIs, Zenon
    <2> QED
      BY <2>2, Zenon DEF DateOf
  <1> HIDE DEF d
  <1>6. d \in Held
    BY <1>1, <1>2, <1>3, <1>4 DEF Held
  <1>7. TimeOf(d) = [sec |-> x.sec, min |-> x.min, hour |-> x.hour, mday |-> x.mday,
                     mon |-> x.mon, year |-> Century(x.year % 100)]
    <2>1. TimeOf(d) = [sec |-> d.sec, min |-> d.min, hour |-> d.hour, mday |-> d.mday,
                       mon |-> d.mon - 1, year |-> Century(d.year)]
      BY <1>3, <1>4, TimeOfFacts
    <2> QED
      BY <1>1, <1>4, <2>1
  <1>8. Century(x.year % 100) = x.year <=> x.year < 170
    BY <1>1 DEF Century
  <1>9. TimeOf(d) = x <=> Century(x.year % 100) = x.year
    BY <1>7 DEF Times
  <1> QED
    BY <1>6, <1>8, <1>9 DEF d

\* A write broken off leaves every register in its range.
LEMMA PartlyHeld ==
  ASSUME NEW d \in Held, NEW e \in Held, NEW k
  PROVE  Partly(d, e, k) \in Held
  BY DEF Partly, Held

\* set_time stores a date, or as many registers of it as the chip took.
LEMMA SetStep ==
  ASSUME RtcInv, NEW x \in SetTimes, SetTime(x) \/ SetTimeFails(x)
  PROVE  RtcInv'
  <1>1. /\ pc' = "idle" /\ date' = date /\ instants' = <<>> /\ first_run' = FALSE
        /\ bad' = {} /\ adj' = adj
    BY DEF SetTime, SetTimeFails, FirstRun
  <1>2. x \in Times /\ rtc_valid_tm(x)
    BY RtcConstants DEF SetTime, SetTimeFails, Times
  <1>3. now' \in Held /\ ptr' \in 1 .. 9
    <2>1. DateOf(x) \in Held /\ now \in Held /\ ptr \in 1 .. 9
      BY <1>2, DateOfValid DEF RtcInv, RtcTypes
    <2>2. CASE SetTime(x)
      <3>1. now' = DateOf(x) /\ ptr' = DIGOFF
        BY <2>2, Zenon DEF SetTime
      <3>2. DIGOFF \in 1 .. 9
        BY DEF DIGOFF
      <3> QED
        BY <2>1, <3>1, <3>2, Zenon
    <2>3. CASE SetTimeFails(x)
      <3>1. PICK k \in 0 .. 7 : now' = Partly(now, DateOf(x), k) /\ ptr' \in {ptr, k + 1, 9}
        BY <2>3 DEF SetTimeFails, Fields, Beyond
      <3>2. now' \in Held
        BY <2>1, <3>1, PartlyHeld
      <3>3. ptr' \in 1 .. 9
        BY <2>1, <3>1
      <3> QED
        BY <3>2, <3>3
    <2> QED
      BY <2>2, <2>3
  <1>4. n' \in Tallies /\ ctrl' \in BOOLEAN
    <2>1. n \in Tallies /\ ctrl \in BOOLEAN /\ first_run \in BOOLEAN
      BY DEF RtcInv, RtcTypes
    <2>2. PICK done : FirstRun(done)
      BY DEF SetTime, SetTimeFails
    <2>3. ctrl' \in BOOLEAN
      BY <2>1, <2>2 DEF FirstRun
    <2>4. \E i \in Nat : n' = [n EXCEPT !.calls = @ + 1, !.faults = @ + i]
      <3>1. \A d : Fault(d) \in Nat
        BY DEF Fault
      <3> QED
        BY <3>1 DEF SetTime, SetTimeFails
    <2>5. n' \in Tallies
      <3>1. PICK i \in Nat : n' = [n EXCEPT !.calls = @ + 1, !.faults = @ + i]
        BY <2>4
      <3>2. n.ticks \in Nat /\ n.faults \in Nat /\ n.calls \in Nat /\ n.adjusts \in Nat
        BY <2>1 DEF Tallies
      <3>3. n' = [ticks |-> n.ticks, faults |-> n.faults + i, calls |-> n.calls + 1,
                  adjusts |-> n.adjusts]
        BY <2>1, <3>1 DEF Tallies
      <3>4. n.faults + i \in Nat /\ n.calls + 1 \in Nat
        BY <3>2
      <3> QED
        BY <3>2, <3>3, <3>4 DEF Tallies
    <2> QED
      BY <2>3, <2>5
  <1>5. RtcTypes'
    <2>1. <<>> \in Seq(Held)
      BY EmptySeq
    <2>2. date \in Seq(Octet) /\ Len(date) \in 0 .. 7 /\ adj \in {"idle", "read"} /\ {} \subseteq 1 .. 7
      BY DEF RtcInv, RtcTypes
    <2> QED
      BY <1>1, <1>3, <1>4, <2>1, <2>2, Zenon DEF RtcTypes
  <1>6. LastIsNow' /\ ReadFrom' /\ Ahead' /\ PtrRight'
    BY <1>1 DEF LastIsNow, ReadFrom, Ahead, PtrRight
  <1>7. Carries'
    BY <1>1 DEF Carries, Same
  <1>8. GetExact' /\ TornReads'
    BY <1>1 DEF GetExact, FieldsTrue, WholeDate, TornReads, GetNeverEarlier,
                GetRefusesOnlyTorn, GotTime, Returned
  <1> QED
    BY <1>5, <1>6, <1>7, <1>8 DEF RtcInv

\* Every step keeps the invariant.
LEMMA RtcNextInv == RtcInv /\ [RtcNext]_vars => RtcInv'
  <1> SUFFICES ASSUME RtcInv, [RtcNext]_vars PROVE RtcInv'
    OBVIOUS
  <1>1. CASE Tick
    BY <1>1, TickIdle, TickReading
  <1>2. CASE GetTime
    BY <1>2, GetTimeStep
  <1>3. CASE ReadReg
    BY <1>3, ReadRegStep
  <1>4. CASE ReadRegFails
    BY <1>4, ReadRegFailsStep
  <1>5. CASE GetEnd
    BY <1>5, GetEndStep
  <1>6. CASE \E x \in SetTimes : SetTime(x) \/ SetTimeFails(x)
    BY <1>6, SetStep
  <1>7. CASE UNCHANGED vars
    BY <1>7, PointerStep DEF vars, RtcInv, RtcTypes, PtrRight, Place
  <1>8. CASE Point \/ PointFails
    BY <1>8, PointStep
  <1>9. CASE AdjustPoint \/ AdjustRead \/ AdjustWrite
    BY <1>9, AdjustStep
  <1> QED
    BY <1>1, <1>2, <1>3, <1>4, <1>5, <1>6, <1>7, <1>8, <1>9 DEF RtcNext
-----------------------------------------------------------------------------
(* The theorems *)

\* The inductive invariant: while get_time reads, the registers it has, completed
\* by the present date, are a date not before the one it began at.
THEOREM RtcInvariant == RtcSpec => []RtcInv
  <1> QED
    BY RtcInitInv, RtcNextInv, PTL DEF RtcSpec

\* Every field rx8025_get_time returns is one the chip had during the read, if the
\* field's own two transfers succeeded and clock_adjust_ppb did not come between
\* them; with all of them so, and no minute ending, the date is one the chip had,
\* and is refused exactly if it is in no calendar.
THEOREM RtcGetExact == RtcSpec => []GetExact
  <1>1. RtcInv => GetExact
    BY DEF RtcInv
  <1> QED
    BY <1>1, RtcInvariant, PTL

\* Torn by the carries of a running clock, rx8025_get_time returns no date before
\* the one at which it began (but over the end of 2069), and refuses only a date
\* read over the end of a month or one that a broken write left in no calendar;
\* for reads that did not fail and were not overtaken by clock_adjust_ppb.
THEOREM RtcTornReads == RtcSpec => []TornReads
  <1>1. RtcInv => TornReads
    BY DEF RtcInv
  <1> QED
    BY <1>1, RtcInvariant, PTL

\* A set_time that returns without error has stored its date, and get_time will
\* read that date back exactly if the year is below 2070.
LEMMA SetStoredStep ==
  ASSUME RtcInv, [RtcNext]_vars, n'.calls > n.calls, pc' = "idle", ret' = 0
  PROVE  TimeOf(now') = tm' <=> tm'.year < 170
  <1>1. n.calls \in Nat /\ n.faults \in Nat /\ n.ticks \in Nat /\ n.adjusts \in Nat /\ n \in Tallies
    BY DEF RtcInv, RtcTypes, Tallies
  <1>2. ~ Tick /\ ~ UNCHANGED vars /\ ~ ReadReg /\ ~ ReadRegFails /\ ~ GetEnd
    BY <1>1 DEF Tick, vars, ReadReg, ReadRegFails, GetEnd, Tallies
  <1>3. ~ Point /\ ~ PointFails /\ ~ AdjustPoint /\ ~ AdjustRead /\ ~ AdjustWrite
    BY <1>1 DEF Point, PointFails, AdjustPoint, AdjustRead, AdjustWrite, Tallies
  <1>4. ~ GetTime
    BY DEF GetTime
  <1>5. PICK x \in SetTimes : SetTime(x) \/ SetTimeFails(x)
    BY <1>2, <1>3, <1>4 DEF RtcNext
  <1>6. SetTime(x)
    <2>1. \A e \in Errnos : e # 0
      BY RtcConstants
    <2>2. SetTimeFails(x) => ret' \in Errnos
      BY DEF SetTimeFails
    <2> QED
      BY <1>5, <2>1, <2>2
  <1>7. x \in Times /\ rtc_valid_tm(x) /\ now' = DateOf(x) /\ tm' = x
    BY <1>6, RtcConstants DEF SetTime, Times
  <1> QED
    BY <1>7, DateOfValid

\* Every register of the chip's date stays in its range, also after writes broken
\* off, and what set_time stores without error is what it was given, up to 2069.
THEOREM RtcChipWritten == RtcSpec => ChipWritten
  <1>1. RtcInv => RtcTypeOK
    <2> SUFFICES ASSUME RtcInv PROVE RtcTypeOK
      OBVIOUS
    <2>1. \A i \in DOMAIN date : date[i] \in 0 .. 255
      BY ElementOfSeq, LenProperties, ZenonT(60) DEF RtcInv, RtcTypes, Octet
    <2>2. Len(date) <= Len(Fields) /\ DOMAIN Fields = 1 .. 7
      <3>1. Len(date) \in 0 .. 7
        BY DEF RtcInv, RtcTypes
      <3>2. \A m \in 0 .. 7 : m <= 7
        OBVIOUS
      <3>3. Len(Fields) = 7 /\ DOMAIN Fields = 1 .. 7
        BY DEF Fields
      <3> QED
        BY <3>1, <3>2, <3>3, Zenon
    <2> QED
      BY <2>1, <2>2, Zenon DEF RtcInv, RtcTypes, RtcTypeOK, Beyond
  <1>2. RtcInv /\ [RtcNext]_vars =>
            [n'.calls > n.calls /\ pc' = "idle" /\ ret' = 0 =>
                (TimeOf(now') = tm' <=> tm'.year < 170)]_vars
    BY SetStoredStep
  <1> QED
    BY <1>1, <1>2, RtcInvariant, PTL DEF RtcSpec, ChipWritten, SetStored
=============================================================================

-------------------------------- MODULE Esam --------------------------------
(***************************************************************************)
(* The secure element on GPIO port I (hnos_esam_intf.c), which shares the  *)
(* port's data register with the infrared sender (irSev_hz.c).             *)
(*                                                                         *)
(* Every pin is set by reading the register and writing it back, in two    *)
(* statements; the interrupt of the infrared timer may come between them   *)
(* and sets its own pin the same way.  A call of the driver is a list of   *)
(* pin settings and samples that ends in a decision, the next list, or the *)
(* return.  Bytes have Bits bits, the first one sent first.                *)
(*                                                                         *)
(* No lock is taken: a second process that shares the open file may call   *)
(* while a call is under way.  The call under way is parked, with its own  *)
(* copy of the register, and goes on when its process runs again; from     *)
(* then on the settings of the two are mixed (lost = "mixed") and the      *)
(* chip hears neither.  A length the code does not compare with its own    *)
(* buffer may make it store past the end of that (lost = "overrun"), over  *)
(* is_open and what follows.  What is sent and received after either is    *)
(* not told apart by any property.                                         *)
(*                                                                         *)
(* The chip (external) hears MOSI at rising edges of CLK and moves MISO at *)
(* falling ones while it is selected; a frame with the right checksum is a *)
(* command, and its answer is clocked out, to a reader that holds MOSI     *)
(* high, after any number of bytes that say it is not ready.  An answer    *)
(* broken off by deselecting is dropped or offered again from its start.   *)
(* A byte of an answer may be disturbed, those of its length too.          *)
(***************************************************************************)
EXTENDS Integers, Sequences, FiniteSets

CONSTANTS
    Bits,      \* bits of a byte
    Commands,  \* what is written: sequences of bytes
    Answers,   \* what the chip answers: sequences of bytes, status and length included
    Counts,    \* counts given to read
    Polls,     \* 3200*1000/50 polls for the 0x55
    BufSize,   \* ESAM_BUF_SIZE
    MaxEvents, \* bound: calls of read and write, switches, openings and closings of the infrared
    MixWithin  \* bound: of these, how many before a call preempts another

EIO == -5
Byte == [1 .. Bits -> {0, 1}]

VARIABLES
    port,      \* REG_GPIOI_DATAOUT: ir, clk, cs, mosi
    t,         \* the register as the process read it, <<>> outside the two statements
    prog,      \* pin settings and samples still to do
    then,      \* what follows them
    arg,       \* the argument of the call: the bytes copied from the caller, or a count
    in, got,   \* bits sampled; the bytes received before
    polls,     \* timeout
    CMD_SENT, is_open,
    ret, buf,  \* result of the last call; the caller's buffer
    fault,     \* a copy from or to the caller's buffer broke off in this call
    parked,    \* the locals of a call that was preempted by another one, or <<>>
    lost,      \* "mixed", "overrun" as described above; "no" before
    flag, level, timer,  \* infrared: flag, the level it last set, timer 2 runs
    heard, miso, out, answer,  \* chip: bits heard, MISO, bits to send, answer to give
    cmd, due,  \* chip: the last command, and its undisturbed answer
    last, hit, \* the last command written; a tick fell between the two statements
    n          \* of the events MaxEvents counts, so far

lines == <<port, t>>
call  == <<prog, then, arg, in, got, polls, CMD_SENT, is_open, ret, buf, fault, n, last>>
other == <<parked, lost>>
ir    == <<flag, level, timer, hit>>
chip  == <<heard, miso, out, answer, cmd, due>>
vars  == <<lines, call, other, ir, chip>>

-----------------------------------------------------------------------------
(* Bytes *)

Zero == [i \in 1 .. Bits |-> 0]
HEAD == [i \in 1 .. Bits |-> (i + 1) % 2]     \* 0x55
Xor(a, b) == [i \in 1 .. Bits |-> (a[i] + b[i]) % 2]
Not(a) == [i \in 1 .. Bits |-> 1 - a[i]]
\* the number with the bits of b, the first one the highest
Number(b) ==
    LET value[i \in 0 .. Bits] == IF i = 0 THEN 0 ELSE 2 * value[i - 1] + b[i]
    IN  value[Bits]
\* bytes as the bits on the line, and back
BitsOf(s) == [k \in 1 .. Len(s) * Bits |-> s[(k - 1) \div Bits + 1][((k - 1) % Bits) + 1]]
BytesOf(s) == [i \in 1 .. Len(s) \div Bits |-> [j \in 1 .. Bits |-> s[(i - 1) * Bits + j]]]

\* exclusive or of all bytes: each bit is the parity of that bit in s
Places(s, j) == {i \in 1 .. Len(s) : s[i][j] = 1}
XorAll(s) == [j \in 1 .. Bits |-> Cardinality(Places(s, j)) % 2]

\* a mutant of cal_lrc: the checksum is not complemented
lrc_plain(s) == IF s = <<>> THEN Zero ELSE XorAll(s)

cal_lrc(s) == IF s = <<>> THEN Zero ELSE Not(XorAll(s))

\* the length in bytes 2 and 3 of an answer
DataLen(a) == Number(a[3]) * 2 ^ Bits + Number(a[4])

\* An answer is as long as its length field says.
ASSUME EsamConstants ==
    /\ {Bits, Polls, BufSize, MaxEvents} \subseteq Nat \ {0} /\ Counts \cup {MixWithin} \subseteq Nat
    /\ Bits > 1 /\ BufSize > 5
    /\ \A c \in Commands : c \in Seq(Byte)
    /\ \A a \in Answers : a \in Seq(Byte) /\ Len(a) >= 4 /\ DataLen(a) = Len(a) - 4

-----------------------------------------------------------------------------
(* Lists of pin settings *)

Pin(p, v) == << <<p, v>> >>
Sample == << <<"sample", 0>> >>

Op == Head(prog)

BitOut(b) == Pin("clk", 0) \o Pin("mosi", b) \o Pin("clk", 1)
BitsOut(s) == [k \in 1 .. 3 * Len(s) |-> BitOut(s[(k - 1) \div 3 + 1])[((k - 1) % 3) + 1]]
BitIn == Pin("clk", 0) \o Sample \o Pin("clk", 1)
\* ESAM_ReceiveByte, c times
ReceiveBytes(c) == [k \in 1 .. 3 * (c * Bits) |-> BitIn[((k - 1) % 3) + 1]]

Frame(d) == <<HEAD>> \o d \o <<cal_lrc(d)>>
WriteStart == Pin("mosi", 0) \o Pin("clk", 0) \o Pin("clk", 1) \o Pin("cs", 1)
WriteFrame(d) == Pin("cs", 0) \o BitsOut(BitsOf(Frame(d))) \o Pin("cs", 1)

EsamInit ==
    /\ port = [ir |-> 0, clk |-> 1, cs |-> 1, mosi |-> 1] /\ t = <<>>
    /\ prog = <<>> /\ then = "idle" /\ arg = 0 /\ in = <<>> /\ got = <<>> /\ polls = 0
    /\ CMD_SENT = FALSE /\ is_open = FALSE /\ ret = 0 /\ buf = <<>> /\ n = 0 /\ last = <<>>
    /\ fault = FALSE /\ parked = <<>> /\ lost = "no"
    /\ flag = 0 /\ level = 0 /\ timer = FALSE /\ hit = FALSE
    /\ heard = <<>> /\ miso = 0 /\ out = <<>> /\ answer = <<>> /\ cmd = <<>> /\ due = <<>>

-----------------------------------------------------------------------------
(* Mutants: definitions below with a plausible bug, to show that each        *)
(* property can fail.  No specification uses them.                           *)

\* the register is written from a copy of the driver's own
WrittenShadow == [t[1] EXCEPT ![Op[1]] = Op[2], !.ir = 0]

\* a read without a command waits for one
ReadCheckWaits ==
    /\ then = "check" /\ prog = <<>> /\ CMD_SENT
    /\ prog' = Pin("cs", 0) \o ReceiveBytes(1) /\ then' = "poll"
    /\ UNCHANGED <<lines, arg, in, got, polls, CMD_SENT, is_open, ret, buf, fault, n, last,
                   other, ir, chip>>

\* the checksum is not compared
ReadDataUnchecked ==
    LET b == BytesOf(in)
        data == got \o SubSeq(b, 1, Len(b) - 1)
    IN  /\ then = "data" /\ prog = <<>>
        /\ buf' = data /\ CMD_SENT' = FALSE
        /\ then' = "idle" /\ ret' = Len(data)
        /\ UNCHANGED <<prog, lines, arg, in, got, polls, is_open, fault, n, last, other, ir, chip>>

-----------------------------------------------------------------------------
(* The chip *)

Selected(p) == p.cs = 0

\* a frame: 0x55, at least one byte, and a checksum that makes the exclusive or
\* of all that follows the 0x55 all ones
IsCommand(s) ==
    LET b == BytesOf(s)
    IN  /\ Len(s) % Bits = 0 /\ Len(b) >= 3 /\ b[1] = HEAD
        /\ XorAll(Tail(b)) = Not(Zero)

\* An answer as it is sent: right, or with a byte of it disturbed.
Sent(a) ==
    LET f == <<HEAD>> \o a \o <<Not(XorAll(a))>>
    IN  {f} \cup {[f EXCEPT ![i] = Xor(@, HEAD)] : i \in DOMAIN f \ {1}}

\* what the chip does when the pins change from p to q
ChipSees(p, q) ==
    CASE Selected(p) /\ ~ Selected(q) /\ IsCommand(heard) ->
            \E a \in Answers : \E f \in Sent(a) :
                /\ cmd' = SubSeq(BytesOf(heard), 2, Len(BytesOf(heard)) - 1)
                /\ due' = a /\ answer' = BitsOf(f)
                /\ heard' = <<>> /\ out' = <<>> /\ UNCHANGED miso
      [] Selected(p) /\ ~ Selected(q) /\ ~ IsCommand(heard) ->
            /\ answer' \in {answer, <<>>}
            /\ heard' = <<>> /\ out' = <<>> /\ UNCHANGED <<miso, cmd, due>>
      [] Selected(q) /\ p.clk = 1 /\ q.clk = 0 ->
            /\ \E o \in IF out # <<>> THEN {out}
                       ELSE IF q.mosi = 0 THEN {BitsOf(<<Zero>>)}
                       ELSE {BitsOf(<<Zero>>), answer} \ {<<>>} :
                    miso' = Head(o) /\ out' = Tail(o)
            /\ UNCHANGED <<heard, answer, cmd, due>>
      [] Selected(q) /\ p.clk = 0 /\ q.clk = 1 ->
            /\ heard' = IF Len(heard) < Bits * BufSize THEN Append(heard, q.mosi) ELSE heard
            /\ UNCHANGED <<miso, out, answer, cmd, due>>
      [] OTHER -> UNCHANGED chip

-----------------------------------------------------------------------------
(* The register: two statements of the process, and the interrupt *)

PinRead ==
    /\ prog # <<>> /\ Op[1] # "sample" /\ t = <<>>
    /\ t' = <<port>>
    /\ UNCHANGED <<port, call, other, ir, chip>>

\* the register as the process writes it
Written == [t[1] EXCEPT ![Op[1]] = Op[2]]

PinWrite ==
    /\ t # <<>>
    /\ port' = Written /\ t' = <<>> /\ prog' = Tail(prog)
    /\ ChipSees(port, Written)
    /\ UNCHANGED <<then, arg, in, got, polls, CMD_SENT, is_open, ret, buf, fault, n, last,
                   other, ir>>

SampleMiso ==
    /\ prog # <<>> /\ Op[1] = "sample"
    /\ in' = Append(in, miso) /\ prog' = Tail(prog)
    /\ UNCHANGED <<lines, then, arg, got, polls, CMD_SENT, is_open, ret, buf, fault, n, last,
                   other, ir, chip>>

\* a process is between its two statements
Between == t # <<>> \/ (parked # <<>> /\ parked[1].t # <<>>)

\* timer1_interrupt of irSev_hz.c; its two statements are not interrupted
IrTick ==
    /\ timer
    /\ port' = [port EXCEPT !.ir = flag] /\ level' = flag /\ flag' = 1 - flag
    /\ hit' = Between
    /\ UNCHANGED <<t, call, other, timer, chip>>

\* opening the proc file starts the timer, closing it stops it; the pin stays
IrOpen ==
    /\ ~ timer /\ n < MaxEvents
    /\ timer' = TRUE /\ n' = n + 1
    /\ UNCHANGED <<lines, prog, then, arg, in, got, polls, CMD_SENT, is_open, ret, buf, fault, last,
                   other, flag, level, hit, chip>>

IrClose ==
    /\ timer /\ n < MaxEvents
    /\ timer' = FALSE /\ n' = n + 1
    /\ UNCHANGED <<lines, prog, then, arg, in, got, polls, CMD_SENT, is_open, ret, buf, fault, last,
                   other, flag, level, hit, chip>>

-----------------------------------------------------------------------------
(* Calls of the driver *)

Idle == then = "idle" /\ prog = <<>>
At(l) == then = l /\ prog = <<>>

\* go on with a list of settings, and then with what l names
Do(list, l) == prog' = list /\ then' = l

\* the locals end with the call
Return(r) ==
    /\ Do(<<>>, "idle") /\ ret' = r
    /\ arg' = 0 /\ in' = <<>> /\ got' = <<>> /\ polls' = 0

Open ==
    /\ Idle /\ parked = <<>> /\ ~ is_open /\ is_open' = TRUE
    /\ UNCHANGED <<lines, prog, then, arg, in, got, polls, CMD_SENT, ret, buf, fault, n, last,
                   other, ir, chip>>

\* the last process that shares the file has closed it: no call is under way
Release ==
    /\ Idle /\ parked = <<>> /\ is_open /\ is_open' = FALSE
    /\ UNCHANGED <<lines, prog, then, arg, in, got, polls, CMD_SENT, ret, buf, fault, n, last,
                   other, ir, chip>>

Locals == [t |-> t, prog |-> prog, then |-> then, arg |-> arg, in |-> in, got |-> got,
           polls |-> polls, ret |-> ret, buf |-> buf, fault |-> fault]

\* A call begins, also while another one is under way, which is then preempted.
\* (Bound: only one call preempts another, and it is the last one to begin.)
Begin ==
    /\ is_open /\ n < MaxEvents /\ lost # "mixed"
    /\ \/ Idle /\ UNCHANGED other
       \/ ~ Idle /\ n <= MixWithin /\ parked' = <<Locals>> /\ lost' = "mixed"
    /\ n' = n + 1 /\ t' = <<>>
    /\ in' = <<>> /\ got' = <<>> /\ polls' = 0 /\ ret' = 0 /\ buf' = <<>>

\* the parked call goes on
GoOn(l) ==
    /\ t' = l.t /\ prog' = l.prog /\ then' = l.then /\ arg' = l.arg /\ in' = l.in
    /\ got' = l.got /\ polls' = l.polls /\ ret' = l.ret /\ buf' = l.buf /\ fault' = l.fault

\* ... when the other one has returned, or before
Resume ==
    /\ parked # <<>> /\ Idle
    /\ GoOn(parked[1]) /\ parked' = <<>>
    /\ UNCHANGED <<port, CMD_SENT, is_open, n, last, lost, ir, chip>>

Preempt ==
    /\ parked # <<>> /\ ~ Idle /\ n < MaxEvents
    /\ GoOn(parked[1]) /\ parked' = <<Locals>> /\ n' = n + 1
    /\ UNCHANGED <<port, CMD_SENT, is_open, last, lost, ir, chip>>

\* what copy_from_user leaves in tx_buf if it stops after j bytes of d
CopiedFrom(d, j) == [i \in 1 .. Len(d) |-> IF i <= j THEN d[i] ELSE Zero]

\* esam_write: the pins are set before the pointer and the length are looked at;
\* the result of copy_from_user is not looked at.
Write(d) ==
    /\ Begin
    /\ \/ Do(WriteStart, "refused") /\ arg' = <<>> /\ fault' = FALSE
       \/ /\ Len(d) + 2 <= BufSize
          /\ \E j \in 0 .. Len(d) : arg' = CopiedFrom(d, j) /\ fault' = (j < Len(d))
          /\ Do(WriteStart \o WriteFrame(arg'), "written")
    /\ UNCHANGED <<port, CMD_SENT, is_open, last, ir, chip>>

\* the chip knows no empty command: then the last one stays that
EndWrite ==
    /\ At("written")
    /\ CMD_SENT' = TRUE /\ Return(Len(arg)) /\ last' = (IF arg = <<>> THEN last ELSE arg)
    /\ UNCHANGED <<lines, is_open, buf, fault, n, other, ir, chip>>

\* the error returns of esam_spi_write and esam_spi_read: CMD_SENT is left alone
Failed ==
    /\ At("failed") \/ At("refused")
    /\ Return(EIO)
    /\ UNCHANGED <<lines, CMD_SENT, is_open, buf, fault, n, last, other, ir, chip>>

\* esam_read
Read(c) ==
    /\ Begin
    /\ arg' = c /\ fault' = FALSE
    /\ Do(Pin("mosi", 1), "check")
    /\ UNCHANGED <<port, CMD_SENT, is_open, last, ir, chip>>

\* copy_to_user, the result of which is not looked at
CopyTo(s) == (buf' = s /\ UNCHANGED fault) \/ (buf' = <<>> /\ fault' = TRUE)

\* what esam_read computes from bytes 2 and 3 of a buffer that holds the caller's own
OwnBytes == {4, 4 + Number(HEAD)}

\* A NULL pointer is refused.  Without a command up to five zeros are the answer,
\* and the result is computed from the caller's buffer: its own bytes if count is
\* below four or the copy failed.
ReadCheck ==
    /\ At("check")
    /\ \/ Return(EIO) /\ UNCHANGED <<buf, fault>>
       \/ /\ CMD_SENT /\ Do(Pin("cs", 0) \o ReceiveBytes(1), "poll")
          /\ UNCHANGED <<ret, buf, fault, arg, in, got, polls>>
       \/ /\ ~ CMD_SENT
          /\ CopyTo([i \in 1 .. (IF arg > 5 THEN 5 ELSE arg) |-> Zero])
          /\ \E r \in (IF arg >= 4 /\ ~ fault' THEN {4} ELSE OwnBytes) : Return(r)
    /\ UNCHANGED <<lines, CMD_SENT, is_open, n, last, other, ir, chip>>

\* a byte of the wait for 0x55
ReadPoll ==
    /\ At("poll")
    /\ IF BytesOf(in)[1] = HEAD THEN Do(ReceiveBytes(4), "header") /\ UNCHANGED polls
       ELSE /\ polls' = polls + 1
            /\ IF polls' >= Polls THEN Do(Pin("cs", 1), "failed")
                                  ELSE Do(ReceiveBytes(1), "poll")
    /\ in' = <<>>
    /\ UNCHANGED <<lines, arg, got, CMD_SENT, is_open, ret, buf, fault, n, last, other, ir, chip>>

\* The header, which the caller gets in any case.  The length is compared with
\* the caller's count, not with the size of rx_buf.
ReadHeader ==
    /\ At("header")
    /\ got' = BytesOf(in) /\ CopyTo(BytesOf(in)) /\ in' = <<>>
    /\ IF DataLen(got') \notin 0 .. arg - 4
       THEN Do(Pin("cs", 1), "failed") /\ UNCHANGED lost
       ELSE /\ Do(ReceiveBytes(DataLen(got') + 1) \o Pin("cs", 1), "data")
            /\ lost' = (IF DataLen(got') + 5 > BufSize THEN "overrun" ELSE lost)
    /\ UNCHANGED <<lines, arg, polls, CMD_SENT, is_open, ret, n, last, parked, ir, chip>>

\* the data, the checksum, and the end: CMD_SENT = 0 before the checksum is compared;
\* is_open lies behind rx_buf
ReadData ==
    LET b == BytesOf(in)
        data == got \o SubSeq(b, 1, Len(b) - 1)
    IN  /\ At("data")
        /\ CopyTo(data) /\ CMD_SENT' = FALSE
        /\ \E r \in (IF b[Len(b)] # cal_lrc(data) THEN {EIO}
                     ELSE IF fault' THEN OwnBytes ELSE {Len(data)}) : Return(r)
        /\ is_open' \in (IF lost = "overrun" THEN BOOLEAN ELSE {is_open})
        /\ UNCHANGED <<lines, n, last, other, ir, chip>>

Process ==
    \/ PinRead \/ PinWrite \/ SampleMiso
    \/ EndWrite \/ Failed \/ ReadCheck \/ ReadPoll \/ ReadHeader \/ ReadData

EsamNext ==
    \/ Open \/ Release
    \/ \E d \in Commands : Write(d)
    \/ \E c \in Counts : Read(c)
    \/ Process
    \/ Resume \/ Preempt
    \/ IrOpen \/ IrClose \/ IrTick

EsamSpec == EsamInit /\ [][EsamNext]_vars

\* A call that began goes on, whatever interrupts it, and so does one that was
\* preempted.
EsamFairSpec == EsamSpec /\ WF_vars(Process) /\ WF_vars(Resume)

-----------------------------------------------------------------------------
(* Properties *)

\* Type invariant: pins, position of the call, and what it holds; rx_buf and the
\* caller's buffer are not overrun.
EsamTypeOK ==
    /\ port \in [ir : {0, 1}, clk : {0, 1}, cs : {0, 1}, mosi : {0, 1}]
    /\ then \in {"idle", "written", "refused", "failed", "check", "poll", "header", "data"}
    /\ polls \in 0 .. Polls /\ Len(in) <= Bits * BufSize /\ Len(buf) < BufSize
    /\ {CMD_SENT, is_open, timer, hit, fault} \subseteq BOOLEAN
    /\ flag \in {0, 1} /\ level \in {0, 1}

\* A write that returns its count has given the chip exactly the caller's bytes
\* as a command it accepts, at whatever statements the infrared interrupt came.
\* The exceptions: the copy from the caller broke off (the count is returned all
\* the same, and zeros are sent), there were no bytes, two calls were mixed, or
\* rx_buf was overrun.
CommandDelivered ==
    [][then = "written" /\ then' = "idle" /\ ~ fault /\ arg # <<>> /\ lost = "no"
            => cmd' = arg]_vars

\* A read that succeeds after a command returns the whole undisturbed answer to
\* the last command written, also when reads before it failed and left CMD_SENT
\* set; a disturbed answer is refused.  The exceptions: the length of the answer
\* was disturbed, so that some other byte is taken for the checksum and chance
\* decides; the copy to the caller failed; calls were mixed or rx_buf overrun.
AnswerExact ==
    [][then = "data" /\ then' = "idle" /\ ret' # EIO /\ ~ fault' /\ lost = "no"
            /\ DataLen(got) = DataLen(due)
            => buf' = due /\ ret' = Len(due) /\ cmd = last]_vars

\* Every return of the driver, the error returns too, leaves the chip deselected.
DeselectedWhenIdle == Idle => port.cs = 1

\* The infrared pin has the level its interrupt set last, unless that interrupt
\* came between the two statements of a setting of this driver: then the
\* setting takes the level back until the next tick.
IrWrongOnlyByOverlap == port.ir # level => hit

\* The drivers leave GPIOI as they should: the infrared pin where its interrupt
\* set it (but for the overlap above), the chip deselected after every call, unless
\* calls were mixed (a register written back by one selects the chip for the
\* other) or rx_buf was overrun.
PortLeft == IrWrongOnlyByOverlap /\ (lost = "no" => EsamTypeOK /\ DeselectedWhenIdle)

\* Every call returns, also if the chip never answers and if it was preempted.
CallReturns == then # "idle" \/ parked # <<>> ~> then = "idle" /\ parked = <<>>

\* What the comment on CMD_SENT = 0 in esam_spi_read says: whether or not the read
\* succeeds, the driver is back in its initial state.
ReadEndsCommand ==
    [][then' = "idle" /\ (then \in {"failed", "data"}) /\ lost = "no" => ~ CMD_SENT']_vars

=============================================================================

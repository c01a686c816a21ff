----------------------------- MODULE I2cMaster -----------------------------
(***************************************************************************)
(* The I2C master of drivers/i2c/busses/i2c-nuc970-p0.c: the caller's side *)
(* (nuc970_i2c0_xfer, nuc970_i2c0_doxfer), the interrupt's state machine   *)
(* (nuc970_i2c_irq, i2c_nuc970_irq_nextbyte) and the controller, which     *)
(* performs one command at a time and raises its flag when it is done.     *)
(*                                                                         *)
(* One CPU: a raised interrupt runs before the caller's next step.  The    *)
(* adapter lock of the I2C core admits one transfer at a time.             *)
(***************************************************************************)
EXTENDS Integers, Sequences, Totals

CONSTANTS
    Transfers, \* the transfers callers make: sequences of messages
    MaxXfers,  \* bound: transfers
    Retries,   \* adap.retries
    Faults,    \* what the bus does: "arblost" another master wins, "slowstop" a
               \* STOP takes more than 1 ms, "hang" a command more than 5 s
    MaxArb     \* bound: arbitration losses

Message == [rd : BOOLEAN, len : Nat, nostart : BOOLEAN, ignore_nak : BOOLEAN]

ASSUME I2cConstants ==
    /\ \A t \in Transfers : /\ t \in Seq(Message) /\ Len(t) > 0
                            /\ ~ t[1].nostart
    /\ MaxXfers \in Nat /\ Retries \in Nat \ {0} /\ MaxArb \in Nat
    /\ Faults \subseteq {"arblost", "slowstop", "hang"}

EAGAIN == -11
ENXIO == -6
EINVAL == -22
ECONNREFUSED == -111
EREMOTEIO == -121

VARIABLES
    i2c,    \* struct nuc970_i2c: state, msg (0 for NULL, else an index into the
            \* messages of), msg_num, msg_idx, msg_ptr, arblost
    irqen,  \* IRQEN of CSR
    ctl,    \* controller: the command it performs, with message and byte
    flag,   \* IRQFLAG
    stat,   \* SLAVE_ACK (nack), ARBIT_LOST (arb) and I2CBUSY (busy)
    ipc,    \* "retry": the handler is at retry_write
    cpc,    \* where the caller is
    msgs,   \* the transfer under way
    ret, retry, \* locals of doxfer and xfer
    wire,   \* what happened on the bus since the transfer (attempt) began
    nacked, \* the reason of the first NACK seen in this attempt, 0 if none
    done,   \* transfers made
    arbs,   \* arbitration losses so far
    lost,   \* a command was given while another was being performed
    oops,   \* a NULL message was dereferenced
    quiet   \* no arbitration was lost and nothing took longer than the caller waits

drv == <<i2c, irqen, ipc>>
hw  == <<ctl, flag, stat, wire, nacked, arbs>>
thr == <<cpc, msgs, ret, retry, done>>
i2cvars == <<drv, hw, thr, lost, oops, quiet>>

NoCmd == [op |-> "NONE", m |-> 0, b |-> 0]

I2cInit ==
    /\ i2c = [state |-> "IDLE", msg |-> 0, msg_num |-> 0, msg_idx |-> 0,
              msg_ptr |-> 0, arblost |-> FALSE, of |-> <<>>]
    /\ irqen = FALSE /\ ctl = NoCmd /\ flag = FALSE
    /\ stat = [nack |-> FALSE, arb |-> FALSE, busy |-> FALSE]
    /\ ipc = "none" /\ cpc = "idle" /\ msgs = <<>>
    /\ ret = 0 /\ retry = 0 /\ wire = <<>> /\ nacked = 0 /\ done = 0 /\ arbs = 0
    /\ lost = FALSE /\ oops = FALSE /\ quiet = TRUE

\* the caller runs: no interrupt is raised or being handled
CpuInCaller == ~ (flag /\ irqen) /\ ipc = "none" /\ ~ oops

-----------------------------------------------------------------------------
(* Mutants: definitions below with a plausible bug, to show that each        *)
(* property can fail.  No specification uses them.                           *)

NextMsgKeepsPtr(c) == [c EXCEPT !.msg_idx = @ + 1, !.msg = @ + 1]

WaitDoneAtOnce ==
    /\ CpuInCaller /\ cpc = "wait"
    /\ ret' = i2c.msg_idx /\ cpc' = "busidle"
    /\ UNCHANGED <<drv, hw, msgs, retry, done, lost, oops, quiet>>

BusIdleWaitSkipped ==
    /\ CpuInCaller /\ cpc = "busidle"
    /\ cpc' = "arb"
    /\ UNCHANGED <<drv, hw, msgs, ret, retry, done, lost, oops, quiet>>

WaitDoneSuccessOnly ==
    /\ CpuInCaller /\ cpc = "wait" /\ i2c.msg_num = 0
    /\ i2c.msg_idx = Len(msgs)
    /\ ret' = i2c.msg_idx /\ cpc' = "busidle"
    /\ UNCHANGED <<drv, hw, msgs, retry, done, lost, oops, quiet>>

-----------------------------------------------------------------------------
(* Helpers of the driver. *)

\* writel(op, CMDR): the controller performs one command at a time
Command(op, m, b) ==
    /\ ctl' = [op |-> op, m |-> m, b |-> b]
    /\ lost' = (lost \/ ctl.op # "NONE")

\* nuc970_i2c0_master_complete and the fields nuc970_i2c0_stop sets
Stopped(c, code) ==
    [c EXCEPT !.state = "STOP", !.msg_ptr = 0, !.msg = 0, !.msg_num = 0,
              !.msg_idx = IF code # 0 THEN code ELSE @ + 1]

stop(code) == i2c' = Stopped(i2c, code) /\ Command("STOP", 0, 0)

Msg == i2c.of[i2c.msg]

\* msg_num - 1 is unsigned: with msg_num = 0 no message is the last one
is_lastmsg == i2c.msg_num # 0 /\ i2c.msg_idx >= i2c.msg_num - 1
is_msglast(ptr) == ptr = Msg.len - 1
is_msgend(ptr) == ptr >= Msg.len

NextMsg(c) == [c EXCEPT !.msg_ptr = 0, !.msg_idx = @ + 1, !.msg = @ + 1]

-----------------------------------------------------------------------------
(* The controller and the slave (hardware). *)

Performs(op) == ctl.op = op /\ ~ flag

Raise(nack, busy, event) ==
    /\ flag' = TRUE /\ ctl' = NoCmd
    /\ stat' = [nack |-> nack, arb |-> FALSE, busy |-> busy]
    /\ wire' = Append(wire, event)
    /\ UNCHANGED <<drv, thr, lost, oops, quiet, arbs>>

BusStart(nack) ==
    /\ Performs("START")
    /\ Raise(nack, TRUE, <<"start", ctl.m>>)
    /\ nacked' = IF nack /\ nacked = 0 /\ ~ i2c.of[ctl.m].ignore_nak
                 THEN ENXIO ELSE nacked

BusWrite(nack) ==
    /\ Performs("WRITE")
    /\ Raise(nack, TRUE, <<"write", ctl.m, ctl.b>>)
    /\ nacked' = IF nack /\ nacked = 0 /\ ~ i2c.of[ctl.m].ignore_nak
                 THEN ECONNREFUSED ELSE nacked

\* the master acknowledges the byte, except with READ | NACK
BusRead ==
    /\ \/ Performs("READ") /\ Raise(FALSE, TRUE, <<"read", "ack">>)
       \/ Performs("READ_NACK") /\ Raise(FALSE, TRUE, <<"read", "nack">>)
    /\ UNCHANGED nacked

BusStop == Performs("STOP") /\ Raise(FALSE, FALSE, <<"stop">>) /\ UNCHANGED nacked

\* another master wins while we drive the bus
BusArbLost ==
    /\ "arblost" \in Faults /\ arbs < MaxArb
    /\ ctl.op \in {"START", "WRITE"} /\ ~ flag
    /\ arbs' = arbs + 1
    /\ flag' = TRUE /\ ctl' = NoCmd
    /\ stat' = [nack |-> FALSE, arb |-> TRUE, busy |-> FALSE]
    /\ quiet' = FALSE
    /\ UNCHANGED <<wire, nacked, drv, thr, lost, oops>>

Bus == (\E nack \in BOOLEAN : BusStart(nack) \/ BusWrite(nack))
       \/ BusRead \/ BusStop \/ BusArbLost

-----------------------------------------------------------------------------
(* nuc970_i2c_irq, i2c_nuc970_irq_nextbyte *)

Raised == flag /\ irqen /\ ipc = "none" /\ ~ oops

TakeIrq == Raised /\ flag' = FALSE /\ UNCHANGED <<stat, wire, nacked, arbs, thr, quiet>>

IrqArbLost ==
    /\ TakeIrq /\ stat.arb
    /\ i2c' = [i2c EXCEPT !.arblost = TRUE]
    /\ UNCHANGED <<irqen, ipc, ctl, lost, oops>>

\* the STOP is through: interrupts off; in STATE_IDLE there is nothing to do
IrqStop ==
    /\ TakeIrq /\ ~ stat.arb /\ i2c.state \in {"STOP", "IDLE"}
    /\ i2c' = [i2c EXCEPT !.state = "IDLE"]
    /\ irqen' = (irqen /\ i2c.state = "IDLE")
    /\ UNCHANGED <<ipc, ctl, lost, oops>>

Nacked == stat.nack /\ ~ Msg.ignore_nak

IrqNack ==
    /\ TakeIrq /\ ~ stat.arb /\ i2c.state \in {"START", "WRITE"} /\ Nacked
    /\ stop(IF i2c.state = "START" THEN ENXIO ELSE ECONNREFUSED)
    /\ UNCHANGED <<irqen, ipc, oops>>

\* a probe: nothing to send in the last message
IrqProbe ==
    /\ TakeIrq /\ ~ stat.arb /\ i2c.state = "START" /\ ~ Nacked
    /\ is_lastmsg /\ Msg.len = 0
    /\ stop(0)
    /\ UNCHANGED <<irqen, ipc, oops>>

\* START of a write, or a byte of it was sent: go to retry_write
IrqWrite ==
    /\ TakeIrq /\ ~ stat.arb /\ i2c.state \in {"START", "WRITE"} /\ ~ Nacked
    /\ i2c.state = "START" => ~ Msg.rd /\ ~ (is_lastmsg /\ Msg.len = 0)
    /\ i2c' = [i2c EXCEPT !.state = "WRITE"]
    /\ ipc' = "retry"
    /\ UNCHANGED <<irqen, ctl, lost, oops>>

SendByte ==
    /\ ~ is_msgend(i2c.msg_ptr)
    /\ i2c' = [i2c EXCEPT !.msg_ptr = @ + 1]
    /\ Command("WRITE", i2c.msg, i2c.msg_ptr)
    /\ ipc' = "none"

\* the next message: with a START, or stopped with EINVAL (but the loop not left)
\* if it is a read without START, or continued at retry_write
NextMessage ==
    /\ is_msgend(i2c.msg_ptr) /\ ~ is_lastmsg
    /\ LET c == NextMsg(i2c)
           m == i2c.of[c.msg]
       IN  \/ /\ ~ m.nostart
              /\ i2c' = [c EXCEPT !.state = "START"]
              /\ Command("START", c.msg, 0)
              /\ ipc' = "none"
           \/ /\ m.nostart /\ m.rd
              /\ i2c' = Stopped(c, EINVAL)
              /\ Command("STOP", 0, 0)
              /\ UNCHANGED ipc
           \/ m.nostart /\ ~ m.rd /\ i2c' = c /\ UNCHANGED <<ctl, lost, ipc>>

\* a mutant of SendStop: the loop of retry_write is not left
SendStopGoesOn ==
    /\ is_msgend(i2c.msg_ptr) /\ is_lastmsg
    /\ stop(0) /\ UNCHANGED ipc

SendStop ==
    /\ is_msgend(i2c.msg_ptr) /\ is_lastmsg
    /\ stop(0) /\ ipc' = "none"

\* nuc970_i2c0_stop set msg to NULL, then is_msgend reads msg->len
NullMessage ==
    /\ i2c.msg = 0
    /\ oops' = TRUE /\ ipc' = "none"
    /\ UNCHANGED <<i2c, ctl, lost>>

\* retry_write, entered with interrupts off; the loop runs once per message
\* that has no bytes left and is followed by an I2C_M_NOSTART one
RetryWrite ==
    /\ ipc = "retry"
    /\ \/ NullMessage
       \/ i2c.msg # 0 /\ (SendByte \/ NextMessage \/ SendStop) /\ UNCHANGED oops
    /\ UNCHANGED <<irqen, flag, stat, wire, nacked, arbs, thr, quiet>>

\* START of a read goes to prepare_read; a byte that was read is stored first
IrqRead ==
    /\ TakeIrq /\ ~ stat.arb
    /\ \/ i2c.state = "READ"
       \/ /\ i2c.state = "START" /\ ~ Nacked /\ Msg.rd
          /\ ~ (is_lastmsg /\ Msg.len = 0)
    /\ LET p == IF i2c.state = "READ" THEN i2c.msg_ptr + 1 ELSE i2c.msg_ptr
           c == [i2c EXCEPT !.state = "READ", !.msg_ptr = p]
       IN  \/ /\ is_msglast(p) /\ is_lastmsg
              /\ i2c' = c /\ Command("READ_NACK", 0, 0)
           \/ /\ is_msglast(p) /\ ~ is_lastmsg
              /\ i2c' = c /\ UNCHANGED <<ctl, lost>>
           \/ /\ is_msgend(p) /\ is_lastmsg
              /\ i2c' = Stopped(c, 0) /\ Command("STOP", 0, 0)
           \/ /\ is_msgend(p) /\ ~ is_lastmsg
              /\ i2c' = NextMsg(c) /\ Command("READ", 0, 0)
           \/ /\ ~ is_msglast(p) /\ ~ is_msgend(p)
              /\ i2c' = c /\ Command("READ", 0, 0)
    /\ UNCHANGED <<irqen, ipc, oops>>

I2cIrq == IrqArbLost \/ IrqStop \/ IrqNack \/ IrqProbe \/ IrqWrite \/ IrqRead
          \/ RetryWrite

-----------------------------------------------------------------------------
(* The caller: nuc970_i2c0_xfer and nuc970_i2c0_doxfer. *)

\* enable_irq and disable_irq write back what they read of CSR, and a 1 written
\* to IRQFLAG clears it: a flag that was pending goes unanswered
SetIrq(enable) == irqen' = enable /\ flag' = FALSE

XferBegin(t) ==
    /\ CpuInCaller /\ cpc = "idle" /\ done < MaxXfers
    /\ msgs' = t /\ retry' = 0 /\ cpc' = "master" /\ SetIrq(TRUE)
    /\ UNCHANGED <<i2c, ipc, ctl, stat, wire, nacked, arbs, ret, done, lost, oops,
                   quiet>>

\* set_master finds the bus free; the first START is sent under the lock
DoxferStart ==
    /\ CpuInCaller /\ cpc = "master" /\ ~ stat.busy
    /\ i2c' = [i2c EXCEPT !.msg = 1, !.msg_num = Len(msgs), !.msg_ptr = 0,
                          !.msg_idx = 0, !.state = "START", !.of = msgs]
    /\ Command("START", 1, 0)
    /\ wire' = <<>> /\ nacked' = 0
    /\ cpc' = "wait"
    /\ UNCHANGED <<irqen, ipc, flag, stat, arbs, msgs, ret, retry, done, oops, quiet>>

\* wait_event_timeout ends with msg_num = 0
WaitDone ==
    /\ CpuInCaller /\ cpc = "wait" /\ i2c.msg_num = 0
    /\ ret' = i2c.msg_idx /\ cpc' = "busidle"
    /\ UNCHANGED <<drv, hw, msgs, retry, done, lost, oops, quiet>>

\* five seconds pass: only when the bus does nothing more by itself, or when
\* it hangs that long
WaitTimeout ==
    /\ CpuInCaller /\ cpc = "wait" /\ i2c.msg_num # 0
    /\ ctl.op = "NONE" \/ "hang" \in Faults
    /\ ret' = i2c.msg_idx /\ cpc' = "busidle"
    /\ quiet' = FALSE
    /\ UNCHANGED <<drv, hw, msgs, retry, done, lost, oops>>

\* 20 reads and a sleep of 1 ms: the STOP is through, unless it is
\* slow or none was sent
BusIdleWait ==
    /\ CpuInCaller /\ cpc = "busidle"
    /\ ~ stat.busy \/ ctl.op = "NONE" \/ "slowstop" \in Faults
    /\ cpc' = "arb"
    /\ quiet' = (quiet /\ (~ stat.busy \/ ctl.op = "NONE"))
    /\ UNCHANGED <<drv, hw, msgs, ret, retry, done, lost, oops>>

NoArbLoss ==
    /\ CpuInCaller /\ cpc = "arb" /\ ~ i2c.arblost
    /\ cpc' = "return"
    /\ UNCHANGED <<drv, hw, msgs, ret, retry, done, lost, oops, quiet>>

ArbStop ==
    /\ CpuInCaller /\ cpc = "arb" /\ i2c.arblost
    /\ i2c' = [Stopped(i2c, 0) EXCEPT !.arblost = FALSE]
    /\ Command("STOP", 0, 0)
    /\ cpc' = "hangup"
    /\ UNCHANGED <<irqen, ipc, flag, stat, wire, nacked, arbs, msgs, ret, retry,
                   done, oops, quiet>>

\* after the sleep of 1 ms
ArbHangup ==
    /\ CpuInCaller /\ cpc = "hangup"
    /\ ctl.op = "NONE" \/ "slowstop" \in Faults
    /\ SetIrq(FALSE) /\ ret' = EAGAIN /\ cpc' = "return"
    /\ quiet' = FALSE
    /\ UNCHANGED <<i2c, ipc, ctl, stat, wire, nacked, arbs, msgs, retry, done, lost,
                   oops>>

\* set_master gives up after 400 ms of a busy bus
MasterTimeout ==
    /\ CpuInCaller /\ cpc = "master" /\ stat.busy
    /\ ctl.op = "NONE" \/ "hang" \in Faults
    /\ ret' = EAGAIN /\ cpc' = "return"
    /\ quiet' = FALSE
    /\ UNCHANGED <<drv, hw, msgs, retry, done, lost, oops>>

\* anything but EAGAIN is returned; EAGAIN is retried
XferReturn ==
    /\ CpuInCaller /\ cpc = "return"
    /\ IF ret = EAGAIN /\ retry + 1 < Retries
       THEN retry' = retry + 1 /\ cpc' = "master" /\ UNCHANGED <<ret, done>>
       ELSE /\ ret' = IF ret = EAGAIN THEN EREMOTEIO ELSE ret
            /\ cpc' = "idle" /\ done' = done + 1 /\ UNCHANGED retry
    /\ UNCHANGED <<drv, hw, msgs, lost, oops, quiet>>

Caller == (\E t \in Transfers : XferBegin(t)) \/ DoxferStart \/ WaitDone
          \/ WaitTimeout \/ BusIdleWait \/ NoArbLoss \/ ArbStop \/ ArbHangup
          \/ MasterTimeout \/ XferReturn

I2cNext == Bus \/ I2cIrq \/ Caller

I2cSpec == I2cInit /\ [][I2cNext]_i2cvars

\* The controller ends its command, interrupts are taken, the caller runs on.
I2cFairSpec == I2cSpec /\ WF_i2cvars(Bus) /\ WF_i2cvars(I2cIrq)
                       /\ WF_i2cvars(Caller /\ cpc # "idle")

-----------------------------------------------------------------------------
(* Properties *)

\* What message k of transfer t puts on the bus: a START unless it continues
\* the message before, then its bytes; only the last byte read is refused.
Starts(t, k) == IF t[k].nostart THEN 0 ELSE 1
BusCount(t) == [k \in DOMAIN t |-> Starts(t, k) + t[k].len]

OnBus(t, k) ==
    [i \in 1 .. Starts(t, k) + t[k].len |->
        IF i <= Starts(t, k) THEN <<"start", k>>
        ELSE IF ~ t[k].rd THEN <<"write", k, i - Starts(t, k) - 1>>
        ELSE IF k = Len(t) /\ i = Starts(t, k) + t[k].len THEN <<"read", "nack">>
        ELSE <<"read", "ack">>]

\* where that begins, and the first l events of w being those of t
Before(t, k) == Total(BusCount(t), k - 1)
InOrder(w, t, l) ==
    \A k \in DOMAIN t : \A i \in 1 .. Starts(t, k) + t[k].len :
        Before(t, k) + i <= l => w[Before(t, k) + i] = OnBus(t, k)[i]

\* A read of no bytes is followed by another message: prepare_read then goes on
\* with READ instead of the START of that message.
EmptyReadGoesOn(t) == \E k \in 1 .. Len(t) - 1 : t[k].rd /\ t[k].len = 0

\* Type invariant: the fields of struct nuc970_i2c and the positions of the
\* handler and the caller.
I2cTypeOK ==
    /\ i2c.state \in {"IDLE", "START", "READ", "WRITE", "STOP"}
    /\ i2c.msg \in 0 .. Len(i2c.of) /\ i2c.msg_num \in 0 .. Len(i2c.of)
    /\ i2c.msg # 0 => i2c.msg_ptr \in 0 .. Msg.len
    /\ ipc \in {"none", "retry"} /\ done \in 0 .. MaxXfers
    /\ cpc \in {"idle", "master", "wait", "busidle", "arb", "hangup", "return"}

\* A caller that waits is waiting for something: the controller performs a
\* command or its interrupt is pending, and interrupts are enabled.  It waits in
\* vain, until the timeout of five seconds, in three cases: the arbitration was
\* lost; the interrupts were turned off by the loss it is a retry of, or by the
\* late STOP of the transfer before; or a message is read that is not the last
\* one, whose last byte is never fetched.
WaitIsCovered ==
    cpc = "wait" /\ i2c.msg_num # 0 /\ ipc = "none" /\ ~ oops =>
        \/ irqen /\ (ctl.op # "NONE" \/ flag)
        \/ i2c.arblost
        \/ ~ irqen /\ ~ quiet
        \/ i2c.state = "READ" /\ ~ is_lastmsg

\* The state machine never gives the controller a command while it performs
\* another one: doxfer, the interrupt and the stop of the last transfer are
\* kept apart, as long as nothing takes longer than the caller waits.
OneCommandAtATime == quiet => ~ lost

\* Caller, interrupt and controller take turns: a waiting caller has exactly one
\* command under way on its behalf, but for the cases named above.
CommandsCovered == I2cTypeOK /\ WaitIsCovered /\ OneCommandAtATime

\* When xfer returns, the bus has seen what its result says: all messages, in
\* order and in full, and a STOP if it reports Len(msgs); a part of them, then
\* a STOP, and the error that fits the byte that was refused, if it fails.
\* A transfer with a read that changes direction without START has no result:
\* the driver stops it with EINVAL and reads the NULL message (see below).  Only
\* a message after a read of no bytes may not be what was asked for.
ResultMatchesBus ==
    cpc = "return" /\ quiet /\ ~ oops /\ ~ EmptyReadGoesOn(msgs) =>
        LET sent == Len(wire) - 1
            all  == Total(BusCount(msgs), Len(msgs))
        IN  /\ sent >= 0 /\ wire[Len(wire)] = <<"stop">> /\ InOrder(wire, msgs, sent)
            /\ nacked = 0 => ret = Len(msgs) /\ sent = all
            /\ nacked # 0 => ret = nacked /\ sent <= all

\* "ensure the stop has been through the bus": when xfer has returned and
\* nothing took longer than it waits, the controller is idle, the STOP interrupt
\* has been taken, interrupts are off and nothing points to the caller's messages.
BusIdleAfterXfer ==
    cpc = "idle" /\ quiet => ctl.op = "NONE" /\ ~ stat.busy /\ ~ flag
                             /\ i2c.state = "IDLE" /\ i2c.msg = 0 /\ ~ irqen

\* A result that reports success is never wrong, not even after arbitration
\* losses and timeouts: every message was on the bus in full and not refused
\* (but one after a read of no bytes).
SuccessIsReal ==
    cpc = "return" /\ ret = Len(msgs) /\ ~ EmptyReadGoesOn(msgs) =>
        LET all == Total(BusCount(msgs), Len(msgs))
        IN  nacked = 0 /\ Len(wire) >= all /\ InOrder(wire, msgs, all)

\* What xfer reports is what happened on the bus.
ResultIsTrue == ResultMatchesBus /\ SuccessIsReal

\* Every call of xfer returns, whatever the bus does, unless the handler read
\* the NULL message.
XferReturns == cpc # "idle" ~> (cpc = "idle" \/ oops)

\* The handler reads no message after it stopped the transfer, except for a read
\* without START: retry_write calls nuc970_i2c0_stop with EINVAL and, instead of
\* returning, goes on with the NULL message.
NullMessageOnlyRefused ==
    oops => \E k \in DOMAIN i2c.of : i2c.of[k].nostart /\ i2c.of[k].rd
=============================================================================

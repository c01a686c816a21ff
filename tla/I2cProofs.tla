----------------------------- MODULE I2cProofs -----------------------------
(***************************************************************************)
(* Proofs about I2cMaster for every set of transfers, every number of them *)
(* and of retries, and every behaviour of the bus: CommandsCovered,        *)
(* BusIdleAfterXfer, NullMessageOnlyRefused and ResultIsTrue.              *)
(***************************************************************************)
EXTENDS I2cMaster, TotalsProofs, SequenceTheorems, TLAPS

Active == {"START", "READ", "WRITE"}

Structs == [state : Active \cup {"IDLE", "STOP"}, msg : Nat, msg_num : Nat, msg_idx : Int,
            msg_ptr : Nat, arblost : BOOLEAN, of : Seq(Message)]

I2cTypes ==
    /\ i2c \in Structs
    /\ irqen \in BOOLEAN /\ flag \in BOOLEAN /\ lost \in BOOLEAN /\ oops \in BOOLEAN
    /\ quiet \in BOOLEAN /\ stat \in [nack : BOOLEAN, arb : BOOLEAN, busy : BOOLEAN]
    /\ ipc \in {"none", "retry"} /\ done \in 0 .. MaxXfers
    /\ cpc \in {"idle", "master", "wait", "busidle", "arb", "hangup", "return"}
    /\ cpc # "idle" => msgs \in Transfers /\ done < MaxXfers

\* While a transfer is active the handler is in one of its messages; the moment
\* it stops, none is left and none is to come.
MessageKnows ==
    /\ i2c.state \in Active =>
          /\ i2c.msg \in 1 .. Len(i2c.of) /\ i2c.msg_idx = i2c.msg - 1
          /\ i2c.msg_num = Len(i2c.of) /\ i2c.msg_ptr \in 0 .. Msg.len
    /\ i2c.state \notin Active => i2c.msg = 0 /\ i2c.msg_num = 0

\* retry_write goes on after a stop only if it refused a read without START.
Refused == \E j \in DOMAIN i2c.of : i2c.of[j].nostart /\ i2c.of[j].rd
RetryKnows ==
    /\ ipc = "retry" /\ i2c.state \notin Active => Refused
    /\ oops => Refused

\* Interrupts are enabled where a quiet transfer begins; its wait is covered.
WaitKnows ==
    cpc = "wait" /\ i2c.state \in Active =>
        \/ ctl.op # "NONE" \/ flag \/ ipc = "retry" \/ i2c.arblost \/ ~ irqen
        \/ i2c.state = "READ" /\ ~ is_lastmsg

\* the controller, the interrupt and the handler are at rest
AtRest ==
    /\ ctl.op = "NONE" /\ ~ stat.busy /\ ~ flag
    /\ i2c.state = "IDLE" /\ ipc = "none"

\* Nothing took longer than the caller waits: one command, its flag and the
\* handler follow each other, and the STOP is through before xfer goes on.
QuietStates ==
    \/ /\ cpc = "wait" /\ i2c.state \in Active /\ irqen /\ ctl.op # "STOP"
       /\ flag => ctl.op = "NONE" /\ stat.busy /\ ipc = "none"
       /\ ipc = "retry" => ctl.op = "NONE" /\ ~ flag /\ stat.busy
    \/ /\ cpc \in {"wait", "busidle"} /\ i2c.state = "STOP" /\ irqen
       /\ \/ ctl.op = "STOP" /\ ~ flag /\ stat.busy
          \/ ctl.op = "NONE" /\ flag /\ ~ stat.busy
    \/ cpc \in {"wait", "busidle", "arb", "return", "idle"} /\ AtRest /\ ~ irqen
    \/ cpc = "master" /\ AtRest /\ irqen

QuietKnows ==
    quiet =>
        /\ ~ lost /\ ~ stat.arb /\ ~ i2c.arblost
        /\ QuietStates
        /\ cpc \in {"wait", "busidle"} /\ i2c.state \notin Active => i2c.msg_idx # EAGAIN
        /\ cpc \in {"busidle", "arb", "return"} => ret # EAGAIN

I2cInv ==
    /\ I2cTypes
    /\ MessageKnows
    /\ RetryKnows
    /\ WaitKnows
    /\ QuietKnows
-----------------------------------------------------------------------------
(* struct nuc970_i2c *)

\* The fields after nuc970_i2c0_stop.
LEMMA StoppedFacts ==
  ASSUME NEW c \in Structs, NEW code \in Int
  PROVE  /\ Stopped(c, code) \in Structs /\ Stopped(c, code).state = "STOP"
         /\ Stopped(c, code).msg = 0 /\ Stopped(c, code).msg_num = 0
         /\ Stopped(c, code).arblost = c.arblost /\ Stopped(c, code).of = c.of
         /\ Stopped(c, code).msg_idx = IF code # 0 THEN code ELSE c.msg_idx + 1
  <1> DEFINE d == Stopped(c, code)
  <1>1. /\ c.msg_idx \in Int /\ c.arblost \in BOOLEAN /\ c.of \in Seq(Message)
    BY DEF Structs
  <1>2. /\ d.state = "STOP" /\ d.msg = 0 /\ d.msg_num = 0 /\ d.msg_ptr = 0
        /\ d.arblost = c.arblost /\ d.of = c.of
        /\ d.msg_idx = IF code # 0 THEN code ELSE c.msg_idx + 1
    BY DEF Stopped, Structs
  <1>3. (IF code # 0 THEN code ELSE c.msg_idx + 1) \in Int
    BY <1>1
  <1>4. d \in Structs
    BY <1>3 DEF Stopped, Structs
  <1> QED
    BY <1>2, <1>4

\* The fields after the step to the next message.
LEMMA NextMsgFacts ==
  ASSUME NEW c \in Structs
  PROVE  /\ NextMsg(c) \in Structs /\ NextMsg(c).state = c.state
         /\ NextMsg(c).msg = c.msg + 1 /\ NextMsg(c).msg_num = c.msg_num
         /\ NextMsg(c).arblost = c.arblost /\ NextMsg(c).of = c.of
         /\ NextMsg(c).msg_idx = c.msg_idx + 1 /\ NextMsg(c).msg_ptr = 0
  <1> DEFINE d == NextMsg(c)
  <1>1. c.msg_idx + 1 \in Int /\ c.msg + 1 \in Nat
    BY DEF Structs
  <1>2. /\ d.state = c.state /\ d.msg = c.msg + 1 /\ d.msg_num = c.msg_num
        /\ d.arblost = c.arblost /\ d.of = c.of /\ d.msg_idx = c.msg_idx + 1 /\ d.msg_ptr = 0
    BY DEF NextMsg, Structs
  <1>3. d \in Structs
    BY <1>1 DEF NextMsg, Structs
  <1> QED
    BY <1>2, <1>3

\* What MessageKnows gives in an active transfer; if the message is not the last
\* one there is a next one.
LEMMA ActiveFacts ==
  ASSUME I2cTypes, MessageKnows, i2c.state \in Active
  PROVE  /\ i2c.of \in Seq(Message) /\ Len(i2c.of) \in Nat
         /\ i2c.msg \in 1 .. Len(i2c.of) /\ i2c.msg \in Nat /\ i2c.msg # 0
         /\ i2c.msg_idx = i2c.msg - 1 /\ i2c.msg_idx \in Nat
         /\ i2c.msg_num = Len(i2c.of) /\ i2c.msg_num # 0
         /\ Msg.len \in Nat /\ i2c.msg_ptr \in 0 .. Msg.len
         /\ ~ is_lastmsg => /\ i2c.msg + 1 \in 1 .. Len(i2c.of)
                            /\ i2c.of[i2c.msg + 1].len \in Nat
  <1>1. i2c.of \in Seq(Message) /\ Len(i2c.of) \in Nat
    BY DEF I2cTypes, Structs
  <1>2. /\ i2c.msg \in 1 .. Len(i2c.of) /\ i2c.msg_idx = i2c.msg - 1
        /\ i2c.msg_num = Len(i2c.of) /\ i2c.msg_ptr \in 0 .. Msg.len
    BY DEF MessageKnows
  <1>3. \A j \in 1 .. Len(i2c.of) : i2c.of[j].len \in Nat
    <2>1. \A j \in 1 .. Len(i2c.of) : i2c.of[j] \in Message
      BY <1>1, ElementOfSeq
    <2> QED
      BY <2>1 DEF Message
  <1>4. /\ i2c.msg \in Nat /\ i2c.msg # 0 /\ i2c.msg_idx \in Nat /\ i2c.msg_num # 0
    BY <1>1, <1>2
  <1>5. ~ is_lastmsg => i2c.msg + 1 \in 1 .. Len(i2c.of)
    BY <1>1, <1>2, <1>4 DEF is_lastmsg
  <1> QED
    BY <1>1, <1>2, <1>3, <1>4, <1>5 DEF Msg
-----------------------------------------------------------------------------
(* Steps of the handler *)

\* The handler goes on with the transfer: it gives a command, enters retry_write,
\* or leaves a read of a message that is not the last one alone.
GoesOn ==
    /\ i2c.state \in Active /\ i2c' \in Structs /\ i2c'.state \in Active
    /\ i2c'.of = i2c.of /\ i2c'.arblost = i2c.arblost /\ i2c'.msg_num = i2c.msg_num
    /\ i2c'.msg \in 1 .. Len(i2c.of) /\ i2c'.msg_idx = i2c'.msg - 1
    /\ i2c'.msg_ptr \in 0 .. i2c.of[i2c'.msg].len
    /\ flag \/ ipc = "retry"
    /\ flag' = FALSE \/ (flag' = flag /\ ipc = "retry")
    /\ \/ ctl'.op \notin {"NONE", "STOP"} /\ lost' = (lost \/ ctl.op # "NONE") /\ ipc' = "none"
       \/ ctl' = ctl /\ lost' = lost /\ ipc' = "retry"
       \/ ctl' = ctl /\ lost' = lost /\ ipc' = "none" /\ i2c'.state = "READ" /\ ~ is_lastmsg'

\* The handler stops the transfer.
Stops ==
    /\ i2c.state \in Active /\ i2c' \in Structs /\ i2c'.state = "STOP"
    /\ i2c'.of = i2c.of /\ i2c'.arblost = i2c.arblost /\ i2c'.msg_num = 0 /\ i2c'.msg = 0
    /\ i2c'.msg_idx # EAGAIN
    /\ flag \/ ipc = "retry"
    /\ flag' = FALSE \/ (flag' = flag /\ ipc = "retry")
    /\ ctl'.op = "STOP" /\ lost' = (lost \/ ctl.op # "NONE")
    /\ ipc' = "none" \/ (ipc' = "retry" /\ Refused)

\* In a quiet transfer the controller has no command when the handler runs.
LEMMA HandlerFacts ==
  ASSUME I2cInv, quiet, i2c.state \in Active, flag \/ ipc = "retry"
  PROVE  /\ cpc = "wait" /\ irqen /\ ctl.op = "NONE" /\ stat.busy /\ ~ lost /\ ~ stat.arb
         /\ ~ i2c.arblost /\ (ipc = "retry" => ~ flag)
  BY DEF I2cInv, QuietKnows, QuietStates, AtRest, Active

\* Both keep the invariant.
LEMMA HandlerKeeps ==
  ASSUME I2cInv, GoesOn \/ Stops, UNCHANGED <<irqen, stat, thr, oops, quiet>>
  PROVE  I2cInv'
  <1>1. /\ irqen' = irqen /\ stat' = stat /\ oops' = oops /\ quiet' = quiet /\ cpc' = cpc
        /\ msgs' = msgs /\ ret' = ret /\ done' = done
    BY DEF thr
  <1>2. I2cTypes /\ MessageKnows /\ RetryKnows /\ WaitKnows /\ QuietKnows
    BY DEF I2cInv
  <1>3. i2c'.of = i2c.of /\ (flag \/ ipc = "retry") /\ i2c.state \in Active
    BY DEF GoesOn, Stops
  <1>4. I2cTypes'
    <2>1. i2c' \in Structs /\ flag' \in BOOLEAN /\ lost' \in BOOLEAN /\ ipc' \in {"none", "retry"}
      BY <1>2 DEF GoesOn, Stops, I2cTypes
    <2> QED
      BY <1>1, <1>2, <2>1 DEF I2cTypes
  <1>5. Refused' = Refused
    BY <1>3 DEF Refused
  <1>6. quiet => /\ cpc = "wait" /\ irqen /\ ctl.op = "NONE" /\ stat.busy /\ ~ lost /\ ~ stat.arb
                 /\ ~ i2c.arblost /\ flag' = FALSE
    <2>1. quiet => /\ cpc = "wait" /\ irqen /\ ctl.op = "NONE" /\ stat.busy /\ ~ lost
                   /\ ~ stat.arb /\ ~ i2c.arblost /\ (ipc = "retry" => ~ flag)
      BY <1>3, HandlerFacts
    <2> QED
      BY <1>2, <2>1 DEF GoesOn, Stops, I2cTypes
  <1>7. CASE GoesOn
    <2>1. i2c'.state \in Active
      BY <1>7 DEF GoesOn
    <2>2. MessageKnows'
      <3>1. Msg' = i2c.of[i2c'.msg] /\ i2c.msg_num = Len(i2c.of)
        BY <1>2, <1>3 DEF Msg, MessageKnows
      <3> QED
        BY <1>7, <3>1 DEF MessageKnows, GoesOn
    <2>3. RetryKnows'
      BY <1>1, <1>2, <1>5, <2>1 DEF RetryKnows
    <2>4. WaitKnows'
      BY <1>7 DEF WaitKnows, GoesOn
    <2>5. QuietKnows'
      <3> SUFFICES ASSUME quiet' PROVE QuietKnows'
        BY DEF QuietKnows
      <3>1. quiet
        BY <1>1
      <3>2. ~ lost' /\ ctl'.op # "STOP"
        <4>1. ctl.op = "NONE" /\ ~ lost
          BY <1>6, <3>1
        <4>2. ~ lost'
          BY <1>7, <4>1 DEF GoesOn
        <4>3. ctl'.op # "STOP"
          BY <1>7, <4>1 DEF GoesOn
        <4> QED
          BY <4>2, <4>3
      <3>3. ipc' = "retry" => ctl'.op = "NONE"
        BY <1>6, <1>7, <3>1 DEF GoesOn
      <3>4. QuietStates'
        BY <1>1, <1>6, <2>1, <3>1, <3>2, <3>3 DEF QuietStates
      <3>5. i2c'.arblost = i2c.arblost
        BY <1>7 DEF GoesOn
      <3> QED
        BY <1>1, <1>6, <2>1, <3>1, <3>2, <3>4, <3>5 DEF QuietKnows
    <2> QED
      BY <1>4, <2>2, <2>3, <2>4, <2>5 DEF I2cInv
  <1>8. CASE Stops
    <2>1. i2c'.state = "STOP" /\ i2c'.state \notin Active
      BY <1>8 DEF Stops, Active
    <2>2. MessageKnows' /\ WaitKnows'
      BY <1>8, <2>1 DEF MessageKnows, WaitKnows, Stops
    <2>3. RetryKnows'
      BY <1>1, <1>2, <1>5, <1>8 DEF RetryKnows, Stops
    <2>4. QuietKnows'
      <3> SUFFICES ASSUME quiet' PROVE QuietKnows'
        BY DEF QuietKnows
      <3>1. quiet
        BY <1>1
      <3>2. /\ ~ lost' /\ ctl'.op = "STOP" /\ i2c'.arblost = i2c.arblost /\ i2c'.msg_idx # EAGAIN
        BY <1>6, <1>8, <3>1 DEF Stops
      <3>3. QuietStates'
        BY <1>1, <1>6, <2>1, <3>1, <3>2 DEF QuietStates
      <3> QED
        BY <1>1, <1>6, <3>1, <3>2, <3>3 DEF QuietKnows
    <2> QED
      BY <1>4, <2>2, <2>3, <2>4 DEF I2cInv
  <1> QED
    BY <1>7, <1>8

\* A command of the controller is done and raises its flag.
LEMMA RaiseKeeps ==
  ASSUME I2cInv, ~ flag, ctl.op # "NONE", NEW nack \in BOOLEAN, NEW event,
         Raise(nack, ctl.op # "STOP", event)
  PROVE  I2cInv'
  <1>1. /\ flag' = TRUE /\ ctl' = NoCmd
        /\ stat' = [nack |-> nack, arb |-> FALSE, busy |-> (ctl.op # "STOP")]
        /\ i2c' = i2c /\ irqen' = irqen /\ ipc' = ipc /\ cpc' = cpc /\ msgs' = msgs
        /\ ret' = ret /\ done' = done /\ lost' = lost /\ oops' = oops /\ quiet' = quiet
    BY DEF Raise, drv, thr
  <1>2. I2cTypes /\ MessageKnows /\ RetryKnows /\ WaitKnows /\ QuietKnows
    BY DEF I2cInv
  <1>3. ctl'.op = "NONE" /\ stat'.arb = FALSE /\ stat'.busy = (ctl.op # "STOP")
    BY <1>1 DEF NoCmd
  <1>4. stat' \in [nack : BOOLEAN, arb : BOOLEAN, busy : BOOLEAN]
    BY <1>1
  <1>5. I2cTypes'
    BY <1>1, <1>2, <1>4 DEF I2cTypes
  <1>6. MessageKnows' /\ RetryKnows'
    BY <1>1, <1>2 DEF MessageKnows, RetryKnows, Refused, Msg
  <1>7. WaitKnows'
    BY <1>1 DEF WaitKnows
  <1>8. QuietKnows'
    <2> SUFFICES ASSUME quiet PROVE QuietKnows'
      BY <1>1 DEF QuietKnows
    <2>1. /\ ~ lost /\ ~ i2c.arblost /\ QuietStates
      BY <1>2 DEF QuietKnows
    <2>2. QuietStates'
      <3>1. ipc \in {"none", "retry"}
        BY <1>2 DEF I2cTypes
      <3> QED
        BY <1>1, <1>3, <2>1, <3>1 DEF QuietStates, AtRest
    <2> QED
      BY <1>1, <1>2, <1>3, <2>1, <2>2 DEF QuietKnows
  <1> QED
    BY <1>5, <1>6, <1>7, <1>8 DEF I2cInv

\* The caller goes on without touching the driver's state.
LEMMA CallerMoves ==
  ASSUME I2cInv, UNCHANGED <<drv, hw, msgs, done, lost, oops>>, cpc # "idle",
         cpc' \in {"master", "busidle", "arb", "return"}, quiet' \in BOOLEAN
  PROVE  I2cTypes' /\ MessageKnows' /\ RetryKnows' /\ WaitKnows'
  <1>1. /\ i2c' = i2c /\ irqen' = irqen /\ ipc' = ipc /\ ctl' = ctl /\ flag' = flag /\ stat' = stat
    BY DEF drv, hw
  <1>2. I2cTypes /\ MessageKnows /\ RetryKnows
    BY DEF I2cInv
  <1>3. I2cTypes'
    BY <1>1, <1>2 DEF I2cTypes
  <1> QED
    BY <1>1, <1>2, <1>3 DEF MessageKnows, RetryKnows, Refused, WaitKnows, Msg
-----------------------------------------------------------------------------
(* The invariant *)

\* It holds when the driver is probed.
LEMMA I2cInitInv == I2cInit => I2cInv
  <1> SUFFICES ASSUME I2cInit PROVE I2cInv
    OBVIOUS
  <1>1. /\ i2c.state = "IDLE" /\ i2c.msg = 0 /\ i2c.msg_num = 0 /\ i2c.arblost = FALSE
        /\ stat.busy = FALSE /\ stat.arb = FALSE /\ ctl.op = "NONE"
    BY DEF I2cInit, NoCmd
  <1>2. I2cTypes
    <2>1. i2c \in Structs
      BY DEF I2cInit, Structs
    <2>2. stat \in [nack : BOOLEAN, arb : BOOLEAN, busy : BOOLEAN] /\ done \in 0 .. MaxXfers
      BY I2cConstants DEF I2cInit
    <2> QED
      BY <2>1, <2>2 DEF I2cInit, I2cTypes
  <1>3. "IDLE" \notin Active
    BY DEF Active
  <1> QED
    BY <1>1, <1>2, <1>3
       DEF I2cInit, I2cInv, MessageKnows, RetryKnows, WaitKnows, QuietKnows, QuietStates, AtRest

\* Every step of the controller and of the handler keeps it ...
LEMMA I2cIrqStepInv == I2cInv /\ (Bus \/ I2cIrq) => I2cInv'
  <1> SUFFICES ASSUME I2cInv, Bus \/ I2cIrq PROVE I2cInv'
    OBVIOUS
  <1>1. I2cTypes /\ MessageKnows /\ RetryKnows /\ WaitKnows /\ QuietKnows /\ i2c \in Structs
    BY DEF I2cInv, I2cTypes
  <1>2. ASSUME NEW nack \in BOOLEAN, BusStart(nack) \/ BusWrite(nack) PROVE I2cInv'
    <2>1. ~ flag /\ ctl.op \in {"START", "WRITE"} /\ \E event : Raise(nack, TRUE, event)
      BY <1>2 DEF BusStart, BusWrite, Performs
    <2>2. (ctl.op # "STOP") = TRUE /\ ctl.op # "NONE"
      BY <2>1
    <2> QED
      BY <2>1, <2>2, RaiseKeeps
  <1>3. CASE BusRead
    <2>1. ~ flag /\ ctl.op \in {"READ", "READ_NACK"} /\ \E event : Raise(FALSE, TRUE, event)
      BY <1>3 DEF BusRead, Performs
    <2>2. (ctl.op # "STOP") = TRUE /\ ctl.op # "NONE"
      BY <2>1
    <2> QED
      BY <2>1, <2>2, RaiseKeeps
  <1>4. CASE BusStop
    <2>1. ~ flag /\ ctl.op = "STOP" /\ Raise(FALSE, FALSE, <<"stop">>)
      BY <1>4 DEF BusStop, Performs
    <2>2. (ctl.op # "STOP") = FALSE /\ ctl.op # "NONE"
      BY <2>1
    <2> QED
      BY <2>1, <2>2, RaiseKeeps
  <1>5. CASE BusArbLost
    <2>1. /\ flag' = TRUE /\ stat' = [nack |-> FALSE, arb |-> TRUE, busy |-> FALSE]
          /\ quiet' = FALSE
          /\ i2c' = i2c /\ irqen' = irqen /\ ipc' = ipc /\ cpc' = cpc /\ msgs' = msgs
          /\ done' = done /\ lost' = lost /\ oops' = oops
      BY <1>5 DEF BusArbLost, drv, thr
    <2>2. I2cTypes'
      <3>1. stat' \in [nack : BOOLEAN, arb : BOOLEAN, busy : BOOLEAN]
        BY <2>1
      <3> QED
        BY <1>1, <2>1, <3>1 DEF I2cTypes
    <2>3. MessageKnows' /\ RetryKnows' /\ WaitKnows' /\ QuietKnows'
      BY <1>1, <2>1 DEF MessageKnows, RetryKnows, Refused, WaitKnows, QuietKnows, Msg
    <2> QED
      BY <2>2, <2>3 DEF I2cInv
  <1>6. CASE IrqArbLost
    <2>1. /\ stat.arb /\ flag' = FALSE /\ i2c' = [i2c EXCEPT !.arblost = TRUE]
          /\ irqen' = irqen /\ ipc' = ipc /\ ctl' = ctl /\ lost' = lost /\ oops' = oops
          /\ stat' = stat /\ quiet' = quiet /\ cpc' = cpc /\ msgs' = msgs /\ done' = done
      BY <1>6 DEF IrqArbLost, TakeIrq, thr
    <2>2. /\ i2c' \in Structs /\ i2c'.state = i2c.state /\ i2c'.msg = i2c.msg
          /\ i2c'.msg_num = i2c.msg_num /\ i2c'.msg_idx = i2c.msg_idx
          /\ i2c'.msg_ptr = i2c.msg_ptr /\ i2c'.of = i2c.of /\ i2c'.arblost = TRUE
      BY <1>1, <2>1 DEF Structs
    <2>3. ~ quiet'
      BY <1>1, <2>1 DEF QuietKnows
    <2>4. I2cTypes'
      BY <1>1, <2>1, <2>2 DEF I2cTypes
    <2>5. MessageKnows' /\ RetryKnows'
      BY <1>1, <2>1, <2>2 DEF MessageKnows, RetryKnows, Refused, Msg
    <2>6. WaitKnows' /\ QuietKnows'
      BY <2>2, <2>3 DEF WaitKnows, QuietKnows
    <2> QED
      BY <2>4, <2>5, <2>6 DEF I2cInv
  <1>7. CASE IrqStop
    <2>1. /\ flag /\ irqen /\ ipc = "none" /\ flag' = FALSE /\ i2c.state \in {"STOP", "IDLE"}
          /\ i2c' = [i2c EXCEPT !.state = "IDLE"] /\ irqen' = (irqen /\ i2c.state = "IDLE")
          /\ ipc' = ipc /\ ctl' = ctl /\ lost' = lost /\ oops' = oops
          /\ stat' = stat /\ quiet' = quiet /\ cpc' = cpc /\ msgs' = msgs /\ done' = done
          /\ ret' = ret
      BY <1>7 DEF IrqStop, TakeIrq, Raised, thr
    <2>2. /\ i2c' \in Structs /\ i2c'.state = "IDLE" /\ i2c'.msg = i2c.msg
          /\ i2c'.msg_num = i2c.msg_num /\ i2c'.msg_idx = i2c.msg_idx /\ i2c'.of = i2c.of
          /\ i2c'.arblost = i2c.arblost
      BY <1>1, <2>1 DEF Structs
    <2>3. "IDLE" \notin Active /\ "STOP" \notin Active /\ i2c.state \notin Active
      BY <2>1 DEF Active
    <2>4. I2cTypes'
      BY <1>1, <2>1, <2>2 DEF I2cTypes
    <2>5. MessageKnows' /\ RetryKnows' /\ WaitKnows'
      BY <1>1, <2>1, <2>2, <2>3 DEF MessageKnows, RetryKnows, Refused, WaitKnows
    <2>6. QuietKnows'
      <3> SUFFICES ASSUME quiet PROVE QuietKnows'
        BY <2>1 DEF QuietKnows
      <3>1. QuietStates
        BY <1>1 DEF QuietKnows
      <3>2. cpc \in {"wait", "busidle"} /\ i2c.state = "STOP" /\ ctl.op = "NONE" /\ ~ stat.busy
        BY <2>1, <2>3, <3>1 DEF QuietStates, AtRest
      <3>3. QuietStates'
        BY <2>1, <2>2, <3>2 DEF QuietStates, AtRest
      <3> QED
        BY <1>1, <2>1, <2>2, <2>3, <3>3 DEF QuietKnows
    <2> QED
      BY <2>4, <2>5, <2>6 DEF I2cInv
  <1>8. CASE IrqNack \/ IrqProbe
    <2>1. PICK code \in {0, ENXIO, ECONNREFUSED} :
             /\ flag /\ flag' = FALSE /\ i2c.state \in {"START", "WRITE"} /\ stop(code)
             /\ ipc = "none" /\ ipc' = ipc
             /\ UNCHANGED <<irqen, stat, thr, oops, quiet>>
      BY <1>8 DEF IrqNack, IrqProbe, TakeIrq, Raised
    <2>2. i2c.state \in Active
      BY <2>1 DEF Active
    <2>3. i2c.msg_idx \in Nat
      BY <1>1, <2>2, ActiveFacts
    <2>4. code \in Int /\ code # EAGAIN
      BY <2>1 DEF ENXIO, ECONNREFUSED, EAGAIN
    <2>5. /\ i2c' = Stopped(i2c, code) /\ ctl' = [op |-> "STOP", m |-> 0, b |-> 0]
          /\ lost' = (lost \/ ctl.op # "NONE")
      BY <2>1 DEF stop, Command
    <2>6. /\ i2c' \in Structs /\ i2c'.state = "STOP" /\ i2c'.msg = 0 /\ i2c'.msg_num = 0
          /\ i2c'.arblost = i2c.arblost /\ i2c'.of = i2c.of
          /\ i2c'.msg_idx = IF code # 0 THEN code ELSE i2c.msg_idx + 1
      BY <1>1, <2>4, <2>5, StoppedFacts
    <2>7. i2c'.msg_idx # EAGAIN
      BY <2>3, <2>4, <2>6 DEF EAGAIN
    <2>8. Stops
      BY <2>1, <2>2, <2>5, <2>6, <2>7 DEF Stops
    <2> QED
      BY <2>1, <2>8, HandlerKeeps
  <1>9. CASE IrqWrite
    <2>1. /\ flag /\ flag' = FALSE /\ i2c.state \in {"START", "WRITE"}
          /\ i2c' = [i2c EXCEPT !.state = "WRITE"] /\ ipc' = "retry" /\ ctl' = ctl /\ lost' = lost
          /\ UNCHANGED <<irqen, stat, thr, oops, quiet>>
      BY <1>9 DEF IrqWrite, TakeIrq, Raised
    <2>2. i2c.state \in Active /\ "WRITE" \in Active
      BY <2>1 DEF Active
    <2>3. /\ i2c' \in Structs /\ i2c'.state = "WRITE" /\ i2c'.msg = i2c.msg
          /\ i2c'.msg_num = i2c.msg_num /\ i2c'.msg_idx = i2c.msg_idx /\ i2c'.of = i2c.of
          /\ i2c'.arblost = i2c.arblost /\ i2c'.msg_ptr = i2c.msg_ptr
      BY <1>1, <2>1, <2>2 DEF Structs
    <2>4. GoesOn
      BY <1>1, <2>1, <2>2, <2>3, ActiveFacts DEF GoesOn, Msg
    <2> QED
      BY <2>1, <2>4, HandlerKeeps
  <1>10. CASE IrqRead
    <2> DEFINE q == IF i2c.state = "READ" THEN i2c.msg_ptr + 1 ELSE i2c.msg_ptr
               c == [i2c EXCEPT !.state = "READ", !.msg_ptr = q]
    <2>1. /\ flag /\ flag' = FALSE /\ ipc = "none" /\ ipc' = ipc /\ i2c.state \in {"READ", "START"}
          /\ UNCHANGED <<irqen, stat, thr, oops, quiet>>
          /\ \/ i2c' = c /\ ctl' = [op |-> "READ_NACK", m |-> 0, b |-> 0]
                /\ lost' = (lost \/ ctl.op # "NONE") /\ is_msglast(q)
             \/ i2c' = c /\ ctl' = ctl /\ lost' = lost /\ is_msglast(q) /\ ~ is_lastmsg
             \/ i2c' = Stopped(c, 0) /\ ctl' = [op |-> "STOP", m |-> 0, b |-> 0]
                /\ lost' = (lost \/ ctl.op # "NONE")
             \/ i2c' = NextMsg(c) /\ ctl' = [op |-> "READ", m |-> 0, b |-> 0]
                /\ lost' = (lost \/ ctl.op # "NONE") /\ ~ is_lastmsg
             \/ i2c' = c /\ ctl' = [op |-> "READ", m |-> 0, b |-> 0]
                /\ lost' = (lost \/ ctl.op # "NONE") /\ ~ is_msgend(q)
      BY <1>10 DEF IrqRead, TakeIrq, Raised, Command
    <2>2. i2c.state \in Active /\ "READ" \in Active
      BY <2>1 DEF Active
    <2>3. /\ i2c.of \in Seq(Message) /\ Len(i2c.of) \in Nat
          /\ i2c.msg \in 1 .. Len(i2c.of) /\ i2c.msg \in Nat
          /\ i2c.msg_idx = i2c.msg - 1 /\ i2c.msg_idx \in Nat
          /\ Msg.len \in Nat /\ i2c.msg_ptr \in 0 .. Msg.len
          /\ ~ is_lastmsg => /\ i2c.msg + 1 \in 1 .. Len(i2c.of)
                             /\ i2c.of[i2c.msg + 1].len \in Nat
      BY <1>1, <2>2, ActiveFacts
    <2>4. q \in Nat
      BY <2>3
    <2> HIDE DEF q
    <2>5. /\ c \in Structs /\ c.state = "READ" /\ c.msg = i2c.msg
          /\ c.msg_num = i2c.msg_num /\ c.msg_idx = i2c.msg_idx /\ c.of = i2c.of
          /\ c.arblost = i2c.arblost /\ c.msg_ptr = q
      BY <1>1, <2>2, <2>4 DEF Structs
    <2> HIDE DEF c
    <2>6. ASSUME i2c' = c, is_msglast(q) \/ ~ is_msgend(q),
                 \/ /\ ctl'.op \notin {"NONE", "STOP"} /\ lost' = (lost \/ ctl.op # "NONE")
                 \/ ctl' = ctl /\ lost' = lost /\ ~ is_lastmsg
          PROVE  GoesOn
      <3>1. q \in 0 .. Msg.len
        BY <2>3, <2>4, <2>6 DEF is_msglast, is_msgend
      <3>2. i2c'.msg_ptr \in 0 .. i2c.of[i2c'.msg].len
        BY <2>5, <2>6, <3>1 DEF Msg
      <3>3. ~ is_lastmsg => ~ is_lastmsg'
        BY <2>5, <2>6 DEF is_lastmsg
      <3> QED
        BY <2>1, <2>2, <2>3, <2>5, <2>6, <3>2, <3>3 DEF GoesOn
    <2>7. CASE /\ i2c' = Stopped(c, 0) /\ ctl' = [op |-> "STOP", m |-> 0, b |-> 0]
               /\ lost' = (lost \/ ctl.op # "NONE")
      <3>1. /\ i2c' \in Structs /\ i2c'.state = "STOP" /\ i2c'.msg = 0 /\ i2c'.msg_num = 0
            /\ i2c'.arblost = i2c.arblost /\ i2c'.of = i2c.of
            /\ i2c'.msg_idx = i2c.msg_idx + 1
        BY <2>5, <2>7, StoppedFacts
      <3>2. i2c'.msg_idx # EAGAIN
        BY <2>3, <3>1 DEF EAGAIN
      <3>3. Stops
        BY <2>1, <2>2, <2>7, <3>1, <3>2 DEF Stops
      <3> QED
        BY <2>1, <3>3, HandlerKeeps
    <2>8. CASE /\ i2c' = NextMsg(c) /\ ctl' = [op |-> "READ", m |-> 0, b |-> 0]
               /\ lost' = (lost \/ ctl.op # "NONE") /\ ~ is_lastmsg
      <3>1. /\ i2c' \in Structs /\ i2c'.state = "READ" /\ i2c'.msg = i2c.msg + 1
            /\ i2c'.msg_num = i2c.msg_num /\ i2c'.arblost = i2c.arblost /\ i2c'.of = i2c.of
            /\ i2c'.msg_idx = i2c.msg_idx + 1 /\ i2c'.msg_ptr = 0
        BY <2>5, <2>8, NextMsgFacts
      <3>2. i2c'.msg_idx = i2c'.msg - 1 /\ 0 \in 0 .. i2c.of[i2c.msg + 1].len
        BY <2>3, <2>8, <3>1
      <3>3. GoesOn
        BY <2>1, <2>2, <2>3, <2>8, <3>1, <3>2 DEF GoesOn
      <3> QED
        BY <2>1, <3>3, HandlerKeeps
    <2> QED
      BY <2>1, <2>6, <2>7, <2>8, HandlerKeeps
  <1>11. CASE RetryWrite
    <2>1. /\ ipc = "retry" /\ flag' = flag
          /\ UNCHANGED <<irqen, stat, thr, quiet>>
          /\ NullMessage \/ (i2c.msg # 0 /\ (SendByte \/ NextMessage \/ SendStop) /\ oops' = oops)
      BY <1>11 DEF RetryWrite
    <2>2. CASE NullMessage
      <3>1. /\ i2c.msg = 0 /\ oops' = TRUE /\ ipc' = "none" /\ i2c' = i2c /\ ctl' = ctl
            /\ lost' = lost /\ irqen' = irqen /\ stat' = stat /\ quiet' = quiet /\ cpc' = cpc
            /\ msgs' = msgs /\ ret' = ret /\ done' = done
        BY <2>1, <2>2 DEF NullMessage, thr
      <3>2. i2c.state \notin Active
        BY <1>1, <3>1, ActiveFacts
      <3>3. Refused
        BY <1>1, <2>1, <3>2 DEF RetryKnows
      <3>4. I2cTypes'
        BY <1>1, <2>1, <3>1 DEF I2cTypes
      <3>5. MessageKnows' /\ RetryKnows' /\ WaitKnows'
        BY <1>1, <3>1, <3>2, <3>3 DEF MessageKnows, RetryKnows, Refused, WaitKnows, Msg
      <3>6. QuietKnows'
        <4> SUFFICES ASSUME quiet PROVE QuietKnows'
          BY <3>1 DEF QuietKnows
        <4>1. QuietStates
          BY <1>1 DEF QuietKnows
        <4>2. QuietStates'
          BY <2>1, <3>1, <3>2, <4>1 DEF QuietStates, AtRest
        <4> QED
          BY <1>1, <3>1, <4>2 DEF QuietKnows
      <3> QED
        BY <3>4, <3>5, <3>6 DEF I2cInv
    <2>3. CASE i2c.msg # 0 /\ (SendByte \/ NextMessage \/ SendStop) /\ oops' = oops
      <3>1. i2c.state \in Active
        BY <1>1, <2>3 DEF MessageKnows
      <3>2. /\ i2c.of \in Seq(Message) /\ Len(i2c.of) \in Nat /\ DOMAIN i2c.of = 1 .. Len(i2c.of)
            /\ i2c.msg \in 1 .. Len(i2c.of) /\ i2c.msg \in Nat
            /\ i2c.msg_idx = i2c.msg - 1 /\ i2c.msg_idx \in Nat
            /\ Msg.len \in Nat /\ i2c.msg_ptr \in 0 .. Msg.len
            /\ ~ is_lastmsg => /\ i2c.msg + 1 \in 1 .. Len(i2c.of)
                               /\ i2c.of[i2c.msg + 1].len \in Nat
        BY <1>1, <3>1, ActiveFacts, LenProperties
      <3>3. UNCHANGED <<irqen, stat, thr, oops, quiet>>
        BY <2>1, <2>3
      <3>4. CASE SendByte
        <4>1. /\ ~ is_msgend(i2c.msg_ptr) /\ i2c' = [i2c EXCEPT !.msg_ptr = @ + 1]
              /\ ctl' = [op |-> "WRITE", m |-> i2c.msg, b |-> i2c.msg_ptr]
              /\ lost' = (lost \/ ctl.op # "NONE") /\ ipc' = "none"
          BY <3>4 DEF SendByte, Command
        <4>2. /\ i2c' \in Structs /\ i2c'.state = i2c.state /\ i2c'.msg = i2c.msg
              /\ i2c'.msg_num = i2c.msg_num /\ i2c'.msg_idx = i2c.msg_idx /\ i2c'.of = i2c.of
              /\ i2c'.arblost = i2c.arblost /\ i2c'.msg_ptr = i2c.msg_ptr + 1
          BY <1>1, <4>1 DEF Structs
        <4>3. i2c.msg_ptr + 1 \in 0 .. Msg.len
          BY <3>2, <4>1 DEF is_msgend
        <4>4. GoesOn
          BY <2>1, <3>1, <3>2, <4>1, <4>2, <4>3 DEF GoesOn, Msg
        <4> QED
          BY <3>3, <4>4, HandlerKeeps
      <3>5. CASE SendStop
        <4>1. /\ i2c' = Stopped(i2c, 0) /\ ctl' = [op |-> "STOP", m |-> 0, b |-> 0]
              /\ lost' = (lost \/ ctl.op # "NONE") /\ ipc' = "none"
          BY <3>5 DEF SendStop, stop, Command
        <4>2. /\ i2c' \in Structs /\ i2c'.state = "STOP" /\ i2c'.msg = 0 /\ i2c'.msg_num = 0
              /\ i2c'.arblost = i2c.arblost /\ i2c'.of = i2c.of
              /\ i2c'.msg_idx = i2c.msg_idx + 1
          BY <1>1, <4>1, StoppedFacts
        <4>3. i2c'.msg_idx # EAGAIN
          BY <3>2, <4>2 DEF EAGAIN
        <4>4. Stops
          BY <2>1, <3>1, <4>1, <4>2, <4>3 DEF Stops
        <4> QED
          BY <3>3, <4>4, HandlerKeeps
      <3>6. CASE NextMessage
        <4> DEFINE c == NextMsg(i2c)
        <4>1. /\ c \in Structs /\ c.state = i2c.state /\ c.msg = i2c.msg + 1
              /\ c.msg_num = i2c.msg_num /\ c.arblost = i2c.arblost /\ c.of = i2c.of
              /\ c.msg_idx = i2c.msg_idx + 1 /\ c.msg_ptr = 0
          BY <1>1, NextMsgFacts
        <4>2. /\ ~ is_lastmsg
              /\ \/ /\ i2c' = [c EXCEPT !.state = "START"]
                    /\ ctl' = [op |-> "START", m |-> c.msg, b |-> 0]
                    /\ lost' = (lost \/ ctl.op # "NONE") /\ ipc' = "none"
                 \/ /\ i2c.of[c.msg].nostart /\ i2c.of[c.msg].rd
                    /\ i2c' = Stopped(c, EINVAL) /\ ctl' = [op |-> "STOP", m |-> 0, b |-> 0]
                    /\ lost' = (lost \/ ctl.op # "NONE") /\ ipc' = ipc
                 \/ i2c' = c /\ ctl' = ctl /\ lost' = lost /\ ipc' = ipc
          BY <3>6 DEF NextMessage, Command
        <4> HIDE DEF c
        <4>3. /\ c.msg \in 1 .. Len(i2c.of) /\ c.msg_idx = c.msg - 1
              /\ c.msg_ptr \in 0 .. i2c.of[c.msg].len
          BY <3>2, <4>1, <4>2
        <4>4. CASE /\ i2c' = [c EXCEPT !.state = "START"]
                   /\ ctl' = [op |-> "START", m |-> c.msg, b |-> 0]
                   /\ lost' = (lost \/ ctl.op # "NONE") /\ ipc' = "none"
          <5>1. /\ i2c' \in Structs /\ i2c'.state = "START" /\ i2c'.msg = c.msg
                /\ i2c'.msg_num = c.msg_num /\ i2c'.msg_idx = c.msg_idx /\ i2c'.of = c.of
                /\ i2c'.arblost = c.arblost /\ i2c'.msg_ptr = c.msg_ptr /\ "START" \in Active
            BY <4>1, <4>4 DEF Structs, Active
          <5>2. GoesOn
            BY <2>1, <3>1, <4>1, <4>3, <4>4, <5>1 DEF GoesOn
          <5> QED
            BY <3>3, <5>2, HandlerKeeps
        <4>5. CASE /\ i2c.of[c.msg].nostart /\ i2c.of[c.msg].rd
                   /\ i2c' = Stopped(c, EINVAL) /\ ctl' = [op |-> "STOP", m |-> 0, b |-> 0]
                   /\ lost' = (lost \/ ctl.op # "NONE") /\ ipc' = ipc
          <5>1. /\ i2c' \in Structs /\ i2c'.state = "STOP" /\ i2c'.msg = 0 /\ i2c'.msg_num = 0
                /\ i2c'.arblost = c.arblost /\ i2c'.of = c.of
                /\ i2c'.msg_idx = EINVAL /\ EINVAL # EAGAIN
            <6>1. EINVAL \in Int /\ EINVAL # 0 /\ EINVAL # EAGAIN
              BY DEF EINVAL, EAGAIN
            <6>2. c \in Structs /\ i2c' = Stopped(c, EINVAL)
              BY <4>1, <4>5
            <6> QED
              BY <6>1, <6>2, StoppedFacts
          <5>2. Refused
            BY <3>2, <4>3, <4>5 DEF Refused
          <5>3. Stops
            BY <2>1, <3>1, <4>1, <4>5, <5>1, <5>2 DEF Stops
          <5> QED
            BY <3>3, <5>3, HandlerKeeps
        <4>6. CASE i2c' = c /\ ctl' = ctl /\ lost' = lost /\ ipc' = ipc
          <5>1. GoesOn
            BY <2>1, <3>1, <4>1, <4>3, <4>6 DEF GoesOn
          <5> QED
            BY <3>3, <5>1, HandlerKeeps
        <4> QED
          BY <4>2, <4>4, <4>5, <4>6
      <3> QED
        BY <2>3, <3>4, <3>5, <3>6
    <2> QED
      BY <2>1, <2>2, <2>3
  <1> QED
    BY <1>2, <1>3, <1>4, <1>5, <1>6, <1>7, <1>8, <1>9, <1>10, <1>11 DEF Bus, I2cIrq

\* ... and so does every step of the caller.
LEMMA I2cCallerStepInv == I2cInv /\ Caller => I2cInv'
  <1> SUFFICES ASSUME I2cInv, Caller PROVE I2cInv'
    OBVIOUS
  <1>1. I2cTypes /\ MessageKnows /\ RetryKnows /\ WaitKnows /\ QuietKnows /\ i2c \in Structs
    BY DEF I2cInv, I2cTypes
  <1>2. /\ quiet \in BOOLEAN /\ done \in 0 .. MaxXfers /\ MaxXfers \in Nat /\ i2c.msg_idx \in Int
    BY <1>1, I2cConstants DEF I2cTypes, Structs
  <1>3. quiet => QuietStates /\ ~ lost /\ ~ stat.arb /\ ~ i2c.arblost
    BY <1>1 DEF QuietKnows
  <1>4. ASSUME NEW t \in Transfers, XferBegin(t) PROVE I2cInv'
    <2>1. /\ cpc = "idle" /\ done < MaxXfers /\ msgs' = t /\ cpc' = "master" /\ irqen' = TRUE
          /\ i2c' = i2c /\ ipc' = ipc /\ ctl' = ctl /\ flag' = FALSE /\ stat' = stat
          /\ ret' = ret /\ done' = done /\ lost' = lost /\ oops' = oops /\ quiet' = quiet
      BY <1>4 DEF XferBegin, SetIrq
    <2>2. I2cTypes'
      BY <1>1, <2>1 DEF I2cTypes
    <2>3. MessageKnows' /\ RetryKnows' /\ WaitKnows'
      BY <1>1, <2>1 DEF MessageKnows, RetryKnows, Refused, WaitKnows, Msg
    <2>4. QuietKnows'
      <3>1. quiet => QuietStates'
        BY <1>3, <2>1 DEF QuietStates, AtRest
      <3> QED
        BY <1>3, <2>1, <3>1 DEF QuietKnows
    <2> QED
      BY <2>2, <2>3, <2>4 DEF I2cInv
  <1>5. CASE DoxferStart
    <2>1. /\ CpuInCaller /\ cpc = "master" /\ cpc' = "wait"
          /\ i2c' = [i2c EXCEPT !.msg = 1, !.msg_num = Len(msgs), !.msg_ptr = 0,
                                !.msg_idx = 0, !.state = "START", !.of = msgs]
          /\ ctl' = [op |-> "START", m |-> 1, b |-> 0] /\ lost' = (lost \/ ctl.op # "NONE")
          /\ irqen' = irqen /\ ipc' = ipc /\ flag' = flag /\ stat' = stat /\ msgs' = msgs
          /\ ret' = ret /\ done' = done /\ oops' = oops /\ quiet' = quiet
      BY <1>5 DEF DoxferStart, Command
    <2>2. /\ msgs \in Transfers /\ msgs \in Seq(Message) /\ Len(msgs) \in Nat /\ Len(msgs) > 0
          /\ 1 \in 1 .. Len(msgs) /\ msgs[1].len \in Nat
      <3>1. msgs \in Transfers
        BY <1>1, <2>1 DEF I2cTypes
      <3>2. msgs \in Seq(Message) /\ Len(msgs) > 0
        BY <3>1, I2cConstants
      <3>3. Len(msgs) \in Nat /\ 1 \in 1 .. Len(msgs)
        BY <3>2
      <3>4. msgs[1] \in Message
        BY <3>2, <3>3, ElementOfSeq
      <3>5. msgs[1].len \in Nat
        BY <3>4 DEF Message
      <3> QED
        BY <3>1, <3>2, <3>3, <3>5
    <2>3. /\ i2c'.state = "START" /\ i2c'.msg = 1 /\ i2c'.msg_num = Len(msgs)
          /\ i2c'.msg_idx = 0 /\ i2c'.msg_ptr = 0 /\ i2c'.of = msgs /\ i2c'.arblost = i2c.arblost
      BY <1>1, <2>1 DEF Structs
    <2>4. i2c' \in Structs /\ "START" \in Active
      <3>1. i2c \in Structs
        BY <1>1 DEF I2cTypes
      <3>2. "START" \in Active /\ "START" \in Active \cup {"IDLE", "STOP"}
        BY DEF Active
      <3>3. i2c' = [i2c EXCEPT !.msg = 1, !.msg_num = Len(msgs), !.msg_ptr = 0,
                               !.msg_idx = 0, !.state = "START", !.of = msgs]
        BY <2>1
      <3>4. msgs \in Seq(Message) /\ Len(msgs) \in Nat
        BY <2>2
      <3>5. i2c' = [state |-> "START", msg |-> 1, msg_num |-> Len(msgs), msg_idx |-> 0,
                    msg_ptr |-> 0, arblost |-> i2c.arblost, of |-> msgs]
        BY <3>1, <3>3 DEF Structs
      <3>6. i2c.arblost \in BOOLEAN
        BY <3>1 DEF Structs
      <3>7. i2c' \in Structs
        BY <3>2, <3>4, <3>5, <3>6 DEF Structs
      <3> QED
        BY <3>2, <3>7
    <2>5. I2cTypes'
      <3>1. lost' \in BOOLEAN
        BY <1>1, <2>1 DEF I2cTypes
      <3> QED
        BY <1>1, <2>1, <2>4, <3>1 DEF I2cTypes
    <2>6. MessageKnows'
      <3>1. 0 \in 0 .. msgs[1].len /\ 0 = 1 - 1
        BY <2>2
      <3> QED
        BY <2>2, <2>3, <2>4, <3>1 DEF MessageKnows, Msg
    <2>7. RetryKnows' /\ WaitKnows'
      BY <2>1, <2>3, <2>4 DEF RetryKnows, WaitKnows, CpuInCaller
    <2>8. QuietKnows'
      <3>1. quiet => QuietStates' /\ ~ lost'
        BY <1>3, <2>1, <2>3, <2>4 DEF QuietStates, AtRest
      <3> QED
        BY <1>3, <2>1, <2>3, <2>4, <3>1 DEF QuietKnows
    <2> QED
      BY <2>5, <2>6, <2>7, <2>8 DEF I2cInv
  <1>6. CASE WaitDone
    <2>1. /\ cpc = "wait" /\ i2c.msg_num = 0 /\ ret' = i2c.msg_idx /\ cpc' = "busidle"
          /\ UNCHANGED <<drv, hw, msgs, done, lost, oops, quiet>>
      BY <1>6 DEF WaitDone
    <2>2. /\ i2c' = i2c /\ irqen' = irqen /\ ipc' = ipc /\ ctl' = ctl /\ flag' = flag
          /\ stat' = stat
      BY <2>1 DEF drv, hw
    <2>3. i2c.state \notin Active
      BY <1>1, <2>1, ActiveFacts
    <2>4. I2cTypes' /\ MessageKnows' /\ RetryKnows' /\ WaitKnows'
      BY <1>2, <2>1, CallerMoves
    <2>5. QuietKnows'
      <3>1. quiet => QuietStates'
        BY <1>3, <2>1, <2>2, <2>3 DEF QuietStates, AtRest
      <3> QED
        BY <1>1, <1>3, <2>1, <2>2, <2>3, <3>1 DEF QuietKnows
    <2> QED
      BY <2>4, <2>5 DEF I2cInv
  <1>7. CASE WaitTimeout
    <2>1. /\ cpc = "wait" /\ cpc' = "busidle" /\ quiet' = FALSE
          /\ UNCHANGED <<drv, hw, msgs, done, lost, oops>>
      BY <1>7 DEF WaitTimeout
    <2>2. I2cTypes' /\ MessageKnows' /\ RetryKnows' /\ WaitKnows'
      BY <2>1, CallerMoves
    <2> QED
      BY <2>1, <2>2 DEF I2cInv, QuietKnows
  <1>8. CASE BusIdleWait
    <2>1. /\ ~ (flag /\ irqen) /\ cpc = "busidle" /\ cpc' = "arb" /\ ret' = ret
          /\ quiet' = (quiet /\ (~ stat.busy \/ ctl.op = "NONE"))
          /\ UNCHANGED <<drv, hw, msgs, done, lost, oops>>
      BY <1>8 DEF BusIdleWait, CpuInCaller
    <2>2. /\ i2c' = i2c /\ irqen' = irqen /\ ipc' = ipc /\ ctl' = ctl /\ flag' = flag
          /\ stat' = stat
      BY <2>1 DEF drv, hw
    <2>3. I2cTypes' /\ MessageKnows' /\ RetryKnows' /\ WaitKnows'
      BY <1>2, <2>1, CallerMoves
    <2>4. QuietKnows'
      <3> SUFFICES ASSUME quiet' PROVE QuietKnows'
        BY DEF QuietKnows
      <3>1. quiet /\ (~ stat.busy \/ ctl.op = "NONE")
        BY <2>1
      <3>2. AtRest /\ ~ irqen
        BY <1>3, <2>1, <3>1 DEF QuietStates
      <3>3. QuietStates'
        BY <2>1, <2>2, <3>2 DEF QuietStates, AtRest
      <3> QED
        BY <1>1, <1>3, <2>1, <2>2, <3>1, <3>3 DEF QuietKnows
    <2> QED
      BY <2>3, <2>4 DEF I2cInv
  <1>9. CASE NoArbLoss
    <2>1. /\ cpc = "arb" /\ cpc' = "return" /\ ret' = ret
          /\ UNCHANGED <<drv, hw, msgs, done, lost, oops, quiet>>
      BY <1>9 DEF NoArbLoss
    <2>2. /\ i2c' = i2c /\ irqen' = irqen /\ ipc' = ipc /\ ctl' = ctl /\ flag' = flag
          /\ stat' = stat
      BY <2>1 DEF drv, hw
    <2>3. I2cTypes' /\ MessageKnows' /\ RetryKnows' /\ WaitKnows'
      BY <1>2, <2>1, CallerMoves
    <2>4. QuietKnows'
      <3>1. quiet => QuietStates'
        BY <1>3, <2>1, <2>2 DEF QuietStates, AtRest
      <3> QED
        BY <1>1, <1>3, <2>1, <2>2, <3>1 DEF QuietKnows
    <2> QED
      BY <2>3, <2>4 DEF I2cInv
  <1>10. CASE ArbStop
    <2>1. /\ CpuInCaller /\ cpc = "arb" /\ i2c.arblost /\ cpc' = "hangup"
          /\ i2c' = [Stopped(i2c, 0) EXCEPT !.arblost = FALSE]
          /\ lost' = (lost \/ ctl.op # "NONE")
          /\ irqen' = irqen /\ ipc' = ipc /\ flag' = flag /\ stat' = stat /\ msgs' = msgs
          /\ done' = done /\ oops' = oops /\ quiet' = quiet
      BY <1>10 DEF ArbStop, Command
    <2>2. /\ Stopped(i2c, 0) \in Structs /\ Stopped(i2c, 0).state = "STOP"
          /\ Stopped(i2c, 0).msg = 0 /\ Stopped(i2c, 0).msg_num = 0
      BY <1>1, StoppedFacts
    <2>3. /\ i2c' \in Structs /\ i2c'.state = "STOP" /\ i2c'.msg = 0 /\ i2c'.msg_num = 0
          /\ "STOP" \notin Active
      BY <2>1, <2>2 DEF Structs, Active
    <2>4. I2cTypes'
      <3>1. lost' \in BOOLEAN
        BY <1>1, <2>1 DEF I2cTypes
      <3> QED
        BY <1>1, <2>1, <2>3, <3>1 DEF I2cTypes
    <2>5. MessageKnows' /\ RetryKnows' /\ WaitKnows'
      BY <2>1, <2>3 DEF MessageKnows, RetryKnows, WaitKnows, CpuInCaller
    <2>6. QuietKnows'
      BY <1>3, <2>1 DEF QuietKnows
    <2> QED
      BY <2>4, <2>5, <2>6 DEF I2cInv
  <1>11. CASE ArbHangup
    <2>1. /\ cpc = "hangup" /\ cpc' = "return" /\ quiet' = FALSE /\ irqen' = FALSE
          /\ i2c' = i2c /\ ipc' = ipc /\ ctl' = ctl /\ flag' = FALSE /\ stat' = stat
          /\ msgs' = msgs /\ done' = done /\ lost' = lost /\ oops' = oops
      BY <1>11 DEF ArbHangup, SetIrq
    <2>2. I2cTypes'
      BY <1>1, <2>1 DEF I2cTypes
    <2>3. MessageKnows' /\ RetryKnows' /\ WaitKnows' /\ QuietKnows'
      BY <1>1, <2>1 DEF MessageKnows, RetryKnows, Refused, WaitKnows, QuietKnows, Msg
    <2> QED
      BY <2>2, <2>3 DEF I2cInv
  <1>12. CASE MasterTimeout
    <2>1. /\ cpc = "master" /\ cpc' = "return" /\ quiet' = FALSE
          /\ UNCHANGED <<drv, hw, msgs, done, lost, oops>>
      BY <1>12 DEF MasterTimeout
    <2>2. I2cTypes' /\ MessageKnows' /\ RetryKnows' /\ WaitKnows'
      BY <2>1, CallerMoves
    <2> QED
      BY <2>1, <2>2 DEF I2cInv, QuietKnows
  <1>13. CASE XferReturn
    <2>1. cpc = "return" /\ UNCHANGED <<drv, hw, msgs, lost, oops, quiet>>
      BY <1>13 DEF XferReturn
    <2>2. /\ i2c' = i2c /\ irqen' = irqen /\ ipc' = ipc /\ ctl' = ctl /\ flag' = flag
          /\ stat' = stat
      BY <2>1 DEF drv, hw
    <2>3. quiet => ret # EAGAIN
      BY <1>1, <2>1 DEF QuietKnows
    <2>4. CASE ret = EAGAIN /\ retry + 1 < Retries
      <3>1. cpc' = "master" /\ done' = done
        BY <1>13, <2>4 DEF XferReturn
      <3>2. I2cTypes' /\ MessageKnows' /\ RetryKnows' /\ WaitKnows'
        BY <1>2, <2>1, <3>1, CallerMoves
      <3> QED
        BY <2>1, <2>3, <2>4, <3>2 DEF I2cInv, QuietKnows
    <2>5. CASE ~ (ret = EAGAIN /\ retry + 1 < Retries)
      <3>1. cpc' = "idle" /\ done' = done + 1
        BY <1>13, <2>5 DEF XferReturn
      <3>2. done' \in 0 .. MaxXfers
        BY <1>1, <1>2, <2>1, <3>1 DEF I2cTypes
      <3>3. I2cTypes'
        BY <1>1, <2>1, <2>2, <3>1, <3>2 DEF I2cTypes
      <3>4. MessageKnows' /\ RetryKnows' /\ WaitKnows'
        BY <1>1, <2>1, <2>2, <3>1 DEF MessageKnows, RetryKnows, Refused, WaitKnows, Msg
      <3>5. QuietKnows'
        <4>1. quiet => QuietStates'
          BY <1>3, <2>1, <2>2, <3>1 DEF QuietStates, AtRest
        <4> QED
          BY <1>3, <2>1, <2>2, <3>1, <4>1 DEF QuietKnows
      <3> QED
        BY <3>3, <3>4, <3>5 DEF I2cInv
    <2> QED
      BY <2>4, <2>5
  <1> QED
    BY <1>4, <1>5, <1>6, <1>7, <1>8, <1>9, <1>10, <1>11, <1>12, <1>13 DEF Caller

\* A step that changes nothing.
LEMMA I2cStutterInv == I2cInv /\ UNCHANGED i2cvars => I2cInv'
  <1> SUFFICES ASSUME I2cInv, UNCHANGED i2cvars PROVE I2cInv'
    OBVIOUS
  <1>1. /\ i2c' = i2c /\ irqen' = irqen /\ ipc' = ipc /\ ctl' = ctl /\ flag' = flag /\ stat' = stat
        /\ cpc' = cpc /\ msgs' = msgs /\ ret' = ret /\ done' = done /\ lost' = lost
        /\ oops' = oops /\ quiet' = quiet
    BY DEF i2cvars, drv, hw, thr
  <1>2. I2cTypes' /\ MessageKnows' /\ RetryKnows'
    BY <1>1 DEF I2cInv, I2cTypes, MessageKnows, RetryKnows, Refused, Msg
  <1>3. WaitKnows' /\ QuietKnows'
    BY <1>1 DEF I2cInv, WaitKnows, QuietKnows, QuietStates, AtRest, is_lastmsg
  <1> QED
    BY <1>2, <1>3 DEF I2cInv

\* The inductive invariant holds in every reachable state.
THEOREM I2cInvariant == I2cSpec => []I2cInv
  <1>1. I2cInv /\ [I2cNext]_i2cvars => I2cInv'
    BY I2cIrqStepInv, I2cCallerStepInv, I2cStutterInv DEF I2cNext
  <1> QED
    BY <1>1, I2cInitInv, PTL DEF I2cSpec

\* A waiting caller has a command under way, its interrupt pending or the handler
\* running, but for the cases CommandsCovered names; and no command is given over
\* another one, for every transfer and every behaviour of the bus.
THEOREM I2cCommandsCovered == I2cSpec => []CommandsCovered
  <1>1. I2cInv => CommandsCovered
    <2> SUFFICES ASSUME I2cInv PROVE CommandsCovered
      OBVIOUS
    <2>1. I2cTypes /\ MessageKnows /\ WaitKnows /\ QuietKnows /\ i2c.of \in Seq(Message)
      BY DEF I2cInv, I2cTypes, Structs
    <2>2. I2cTypeOK
      <3>1. CASE i2c.state \in Active
        <4>1. /\ i2c.msg \in 0 .. Len(i2c.of) /\ i2c.msg_num \in 0 .. Len(i2c.of)
              /\ i2c.msg_ptr \in 0 .. Msg.len
          BY <2>1, <3>1, ActiveFacts
        <4> QED
          BY <2>1, <4>1 DEF I2cTypeOK, I2cTypes, Structs, Active
      <3>2. CASE i2c.state \notin Active
        <4>1. i2c.msg = 0 /\ i2c.msg_num = 0 /\ 0 \in 0 .. Len(i2c.of)
          BY <2>1, <3>2 DEF MessageKnows
        <4> QED
          BY <2>1, <4>1 DEF I2cTypeOK, I2cTypes, Structs, Active
      <3> QED
        BY <3>1, <3>2
    <2>3. WaitIsCovered
      <3>1. i2c.msg_num # 0 => i2c.state \in Active
        BY <2>1 DEF MessageKnows
      <3>2. cpc = "wait" /\ i2c.state \in Active /\ quiet => irqen
        BY <2>1 DEF QuietKnows, QuietStates, AtRest, Active
      <3>3. irqen \in BOOLEAN
        BY <2>1 DEF I2cTypes
      <3> QED
        BY <2>1, <3>1, <3>2, <3>3 DEF WaitIsCovered, WaitKnows
    <2>4. OneCommandAtATime
      BY <2>1 DEF OneCommandAtATime, QuietKnows
    <2> QED
      BY <2>2, <2>3, <2>4 DEF CommandsCovered
  <1> QED
    BY <1>1, I2cInvariant, PTL

\* "ensure the stop has been through the bus": after xfer the controller, the
\* interrupt and the state machine are at rest, if nothing took longer than the
\* caller waits and no arbitration was lost.
THEOREM I2cBusIdleAfterXfer == I2cSpec => []BusIdleAfterXfer
  <1>1. I2cInv => BusIdleAfterXfer
    <2> SUFFICES ASSUME I2cInv, cpc = "idle", quiet
                 PROVE  ctl.op = "NONE" /\ ~ stat.busy /\ ~ flag /\ i2c.state = "IDLE"
                        /\ i2c.msg = 0 /\ ~ irqen
      BY DEF BusIdleAfterXfer
    <2>1. AtRest /\ ~ irqen
      BY DEF I2cInv, QuietKnows, QuietStates
    <2>2. i2c.msg = 0
      BY <2>1 DEF I2cInv, MessageKnows, AtRest, Active
    <2> QED
      BY <2>1, <2>2 DEF AtRest
  <1> QED
    BY <1>1, I2cInvariant, PTL

\* The handler dereferences the NULL message only in a transfer that has a read
\* without START, which retry_write refuses without leaving its loop.
THEOREM I2cNullOnlyRefused == I2cSpec => []NullMessageOnlyRefused
  <1>1. I2cInv => NullMessageOnlyRefused
    BY DEF I2cInv, RetryKnows, Refused, NullMessageOnlyRefused
  <1> QED
    BY <1>1, I2cInvariant, PTL
-----------------------------------------------------------------------------
(* What is on the bus *)

Ops == {"NONE", "START", "WRITE", "READ", "READ_NACK", "STOP"}
Commands == [op : Ops, m : Nat, b : Nat]
BusEvents == ({"start"} \X Nat) \cup ({"write"} \X Nat \X Nat)
             \cup ({"read"} \X {"ack", "nack"}) \cup {<<"stop">>}

\* how many events there are up to byte p of the message under way
UpTo(p) == Before(msgs, i2c.msg) + Starts(msgs, i2c.msg) + p
All == Total(BusCount(msgs), Len(msgs))

\* Nothing more happens by itself: interrupts are off, the arbitration was
\* lost, or a message is read that is not the last one.
Stuck ==
    /\ ipc = "none"
    /\ ~ irqen \/ (ctl.op = "NONE" /\ (flag => stat.arb))

\* A command of the transfer is being performed ...
Commanded ==
    /\ ~ flag /\ ipc = "none" /\ nacked = 0
    /\ \/ /\ i2c.state = "START" /\ ctl.op = "START" /\ ctl.m = i2c.msg
          /\ i2c.msg_ptr = 0 /\ ~ Msg.nostart /\ Len(wire) = Before(msgs, i2c.msg)
       \/ /\ i2c.state = "WRITE" /\ ctl.op = "WRITE" /\ ctl.m = i2c.msg
          /\ i2c.msg_ptr = ctl.b + 1 /\ ~ Msg.rd /\ Len(wire) = UpTo(ctl.b)
       \/ /\ i2c.state = "READ" /\ Msg.rd /\ i2c.msg_ptr < Msg.len
          /\ Len(wire) = UpTo(i2c.msg_ptr)
          /\ \/ ctl.op = "READ" /\ i2c.msg_ptr + 1 # Msg.len
             \/ ctl.op = "READ_NACK" /\ i2c.msg_ptr + 1 = Msg.len /\ i2c.msg = Len(msgs)

\* ... or has been, and its interrupt is pending ...
Refusal(code) == IF stat.nack /\ ~ Msg.ignore_nak THEN code ELSE 0
Flagged ==
    /\ flag /\ ctl.op = "NONE" /\ ~ stat.arb /\ ipc = "none"
    /\ \/ /\ i2c.state = "START" /\ i2c.msg_ptr = 0 /\ ~ Msg.nostart
          /\ Len(wire) = UpTo(0) /\ nacked = Refusal(ENXIO)
       \/ /\ i2c.state = "WRITE" /\ ~ Msg.rd
          /\ Len(wire) = UpTo(i2c.msg_ptr) /\ nacked = Refusal(ECONNREFUSED)
       \/ /\ i2c.state = "READ" /\ Msg.rd /\ i2c.msg_ptr < Msg.len
          /\ i2c.msg_ptr + 1 = Msg.len => i2c.msg = Len(msgs)
          /\ Len(wire) = UpTo(i2c.msg_ptr + 1) /\ nacked = 0

\* ... or the handler is at retry_write.
Retrying ==
    /\ ipc = "retry" /\ ~ flag /\ ctl.op = "NONE"
    /\ i2c.state = "WRITE" /\ ~ Msg.rd /\ Len(wire) = UpTo(i2c.msg_ptr) /\ nacked = 0

UnderWay ==
    \/ Stuck
    \/ InOrder(wire, msgs, Len(wire)) /\ (Commanded \/ Flagged \/ Retrying)

\* The transfer is stopped; the STOP is on its way or through.
Sent == IF ctl.op = "STOP" THEN Len(wire) ELSE Len(wire) - 1
Over ==
    /\ i2c.state \notin Active /\ ipc = "none" /\ InOrder(wire, msgs, Sent)
    /\ \/ ctl.op = "STOP"
       \/ ctl.op = "NONE" /\ Len(wire) > 0 /\ wire[Len(wire)] = <<"stop">>
    /\ nacked = 0 => Sent = All
    /\ nacked # 0 => nacked < 0 /\ Sent <= All
Result == IF nacked = 0 THEN Len(msgs) ELSE nacked

BusTypes == ctl \in Commands /\ wire \in Seq(BusEvents) /\ (cpc = "wait" => i2c.of = msgs)

\* The result of a transfer that waits for its STOP, and of one that does not:
\* that is not taken for a success.
WaitBus ==
    cpc = "wait" =>
        /\ i2c.state \in Active => UnderWay
        /\ i2c.state \notin Active =>
              ipc = "retry" \/ oops \/ (Over /\ i2c.msg_idx = Result)
AfterBus ==
    cpc \in {"busidle", "arb", "return"} =>
        (~ quiet /\ ret # Len(msgs)) \/ (Over /\ ret = Result)

BusInv == BusTypes /\ (~ EmptyReadGoesOn(msgs) => WaitBus /\ AfterBus)

\* The places of the messages of a transfer.
LEMMA BusTotals ==
  ASSUME NEW t \in Seq(Message), NEW j \in 1 .. Len(t)
  PROVE  /\ Starts(t, j) \in {0, 1} /\ t[j].len \in Nat /\ Len(t) \in Nat
         /\ Before(t, j) \in Nat /\ Total(BusCount(t), j) \in Nat
         /\ Total(BusCount(t), j) = Before(t, j) + Starts(t, j) + t[j].len
         /\ Total(BusCount(t), Len(t)) \in Nat
         /\ Total(BusCount(t), j) <= Total(BusCount(t), Len(t))
         /\ Before(t, 1) = 0 /\ Before(t, j + 1) = Total(BusCount(t), j)
  <1> DEFINE E == BusCount(t)
  <1>1. Len(t) \in Nat /\ j \in Nat
    OBVIOUS
  <1>2. \A l \in 1 .. Len(t) : /\ Starts(t, l) \in {0, 1} /\ t[l].len \in Nat
                               /\ E[l] = Starts(t, l) + t[l].len /\ E[l] \in Nat
    <2> TAKE l \in 1 .. Len(t)
    <2>1. l \in DOMAIN t /\ t[l] \in Message
      BY ElementOfSeq
    <2>2. Starts(t, l) \in {0, 1} /\ t[l].len \in Nat
      BY <2>1 DEF Starts, Message
    <2>3. E[l] = Starts(t, l) + t[l].len
      BY <2>1 DEF BusCount
    <2> QED
      BY <2>2, <2>3
  <1> HIDE DEF E
  <1>3. /\ Total(E, 0) = 0 /\ Total(E, j - 1) \in Nat /\ Total(E, j) \in Nat
        /\ Total(E, j) = Total(E, j - 1) + E[j]
        /\ Total(E, Len(t)) \in Nat /\ Total(E, j) <= Total(E, Len(t))
    BY <1>1, <1>2, PartTotals
  <1>4. Before(t, j) = Total(E, j - 1) /\ Before(t, 1) = Total(E, 0) /\ Before(t, j + 1) = Total(E, j)
    <2>1. 1 - 1 = 0 /\ j + 1 - 1 = j
      BY <1>1
    <2> QED
      BY <2>1 DEF Before, E
  <1>5. Total(E, j) = Before(t, j) + Starts(t, j) + t[j].len
    BY <1>2, <1>3, <1>4
  <1> QED
    BY <1>1, <1>2, <1>3, <1>4, <1>5 DEF E

\* The next event is that of its place.
LEMMA NextEvent ==
  ASSUME NEW t \in Seq(Message), NEW j \in 1 .. Len(t), NEW i \in 1 .. Starts(t, j) + t[j].len,
         NEW w \in Seq(BusEvents), NEW e \in BusEvents, InOrder(w, t, Len(w)),
         Len(w) + 1 = Before(t, j) + i, e = OnBus(t, j)[i]
  PROVE  InOrder(Append(w, e), t, Len(Append(w, e))) /\ Len(Append(w, e)) = Len(w) + 1
  <1> DEFINE v == Append(w, e)
             E == BusCount(t)
  <1>1. /\ Len(v) = Len(w) + 1 /\ v[Len(w) + 1] = e /\ Len(w) \in Nat
        /\ \A x \in 1 .. Len(w) : v[x] = w[x]
    BY AppendProperties
  <1>2. \A l \in 1 .. Len(t) : E[l] = Starts(t, l) + t[l].len /\ E[l] \in Nat /\ Before(t, l) = Total(E, l - 1)
    <2> TAKE l \in 1 .. Len(t)
    <2>1. l \in DOMAIN t
      OBVIOUS
    <2>2. E[l] = Starts(t, l) + t[l].len
      BY <2>1 DEF BusCount
    <2>3. Starts(t, l) \in {0, 1} /\ t[l].len \in Nat
      BY BusTotals
    <2> QED
      BY <2>2, <2>3 DEF Before
  <1> HIDE DEF v
  <1>3. ASSUME NEW q \in 1 .. Len(t), NEW x \in 1 .. Starts(t, q) + t[q].len,
               Before(t, q) + x <= Len(v)
        PROVE  v[Before(t, q) + x] = OnBus(t, q)[x]
    <2>1. Before(t, q) \in Nat /\ Before(t, j) \in Nat /\ i \in Nat
      BY BusTotals
    <2>2. x \in Nat /\ x >= 1
      <3>1. Starts(t, q) \in {0, 1} /\ t[q].len \in Nat
        BY BusTotals
      <3> QED
        BY <3>1
    <2>3. CASE Before(t, q) + x <= Len(w)
      <3>1. Before(t, q) + x \in 1 .. Len(w)
        BY <1>1, <2>1, <2>2, <2>3
      <3>2. w[Before(t, q) + x] = OnBus(t, q)[x]
        BY <2>3 DEF InOrder
      <3> QED
        BY <1>1, <3>1, <3>2
    <2>4. CASE ~ (Before(t, q) + x <= Len(w))
      <3>1. Before(t, q) + x = Len(w) + 1
        <4>1. Len(v) = Len(w) + 1 /\ Len(w) \in Nat
          BY <1>1
        <4>2. \A a, b, c \in Nat : a + b <= c + 1 /\ ~ (a + b <= c) => a + b = c + 1
          OBVIOUS
        <4>3. Before(t, q) + x <= Len(w) + 1
          BY <1>3, <4>1
        <4> QED
          BY <2>1, <2>2, <2>4, <4>1, <4>2, <4>3
      <3>2. j = q
        <4>1. /\ Starts(t, j) \in {0, 1} /\ t[j].len \in Nat /\ Len(t) \in Nat
              /\ Total(E, j) = Before(t, j) + Starts(t, j) + t[j].len
          BY BusTotals
        <4>2. i >= 1 /\ i <= Starts(t, j) + t[j].len
          BY <4>1
        <4> HIDE DEF E
        <4>3. Total(E, j - 1) < Total(E, q - 1) + x /\ Total(E, q - 1) + x <= Total(E, j)
          <5>1. Before(t, j) < Before(t, q) + x /\ Before(t, q) + x <= Total(E, j)
            BY SMTT(60), <1>1, <2>1, <2>2, <3>1, <4>1, <4>2
          <5> QED
            BY <1>2, <5>1
        <4>4. x \in 1 .. E[q]
          BY <1>2
        <4> QED
          BY <1>2, <4>1, <4>3, <4>4, OnePart
      <3>3. x = i
        BY <1>1, <2>1, <2>2, <3>1, <3>2
      <3> QED
        BY <1>1, <3>1, <3>2, <3>3
    <2> QED
      BY <2>3, <2>4
  <1>4. DOMAIN t = 1 .. Len(t)
    OBVIOUS
  <1>5. InOrder(v, t, Len(v))
    BY <1>3, <1>4 DEF InOrder
  <1> QED
    BY <1>1, <1>5 DEF v

\* What follows does not change what is there.
LEMMA EventsStay ==
  ASSUME NEW t \in Seq(Message), NEW w \in Seq(BusEvents), NEW e \in BusEvents,
         InOrder(w, t, Len(w))
  PROVE  InOrder(Append(w, e), t, Len(w))
  <1>1. Len(w) \in Nat /\ \A x \in 1 .. Len(w) : Append(w, e)[x] = w[x]
    BY AppendProperties
  <1>2. ASSUME NEW q \in 1 .. Len(t), NEW x \in 1 .. Starts(t, q) + t[q].len,
               Before(t, q) + x <= Len(w)
        PROVE  Append(w, e)[Before(t, q) + x] = OnBus(t, q)[x]
    <2>1. Before(t, q) \in Nat /\ Starts(t, q) \in {0, 1} /\ t[q].len \in Nat
      BY BusTotals
    <2>2. Before(t, q) + x \in 1 .. Len(w)
      BY <1>1, <1>2, <2>1
    <2>3. w[Before(t, q) + x] = OnBus(t, q)[x]
      BY <1>2 DEF InOrder
    <2> QED
      BY <1>1, <2>2, <2>3
  <1>3. DOMAIN t = 1 .. Len(t)
    OBVIOUS
  <1> QED
    BY <1>2, <1>3 DEF InOrder

\* The message under way and its places.
LEMMA HereFacts ==
  ASSUME I2cInv, BusInv, cpc = "wait", i2c.state \in Active
  PROVE  /\ msgs \in Seq(Message) /\ i2c.of = msgs /\ Msg = msgs[i2c.msg]
         /\ i2c.msg \in 1 .. Len(msgs) /\ i2c.msg \in Nat /\ Len(msgs) \in Nat
         /\ i2c.msg_idx = i2c.msg - 1 /\ (is_lastmsg <=> i2c.msg = Len(msgs))
         /\ Msg.len \in Nat /\ i2c.msg_ptr \in Nat /\ i2c.msg_ptr <= Msg.len
         /\ Before(msgs, i2c.msg) \in Nat /\ Starts(msgs, i2c.msg) \in {0, 1} /\ All \in Nat
         /\ ~ Msg.nostart => Starts(msgs, i2c.msg) = 1
         /\ UpTo(Msg.len) <= All /\ (is_lastmsg => UpTo(Msg.len) = All)
         /\ wire \in Seq(BusEvents) /\ Len(wire) \in Nat
  <1>1. i2c.of = msgs /\ wire \in Seq(BusEvents)
    BY DEF BusInv, BusTypes
  <1>2. /\ i2c.of \in Seq(Message) /\ Len(i2c.of) \in Nat
        /\ i2c.msg \in 1 .. Len(i2c.of) /\ i2c.msg \in Nat
        /\ i2c.msg_idx = i2c.msg - 1 /\ i2c.msg_num = Len(i2c.of) /\ i2c.msg_num # 0
        /\ Msg.len \in Nat /\ i2c.msg_ptr \in 0 .. Msg.len
    BY ActiveFacts DEF I2cInv
  <1>3. msgs \in Seq(Message) /\ i2c.msg \in 1 .. Len(msgs) /\ Len(msgs) \in Nat /\ Msg = msgs[i2c.msg]
    BY <1>1, <1>2 DEF Msg
  <1>4. is_lastmsg <=> i2c.msg = Len(msgs)
    BY <1>1, <1>2 DEF is_lastmsg
  <1>5. /\ Before(msgs, i2c.msg) \in Nat /\ Starts(msgs, i2c.msg) \in {0, 1} /\ All \in Nat
        /\ Total(BusCount(msgs), i2c.msg) = UpTo(Msg.len)
        /\ Total(BusCount(msgs), i2c.msg) <= All
    BY <1>3, BusTotals DEF All, UpTo
  <1>6. ~ Msg.nostart => Starts(msgs, i2c.msg) = 1
    BY <1>3 DEF Starts
  <1>7. is_lastmsg => UpTo(Msg.len) = All
    BY <1>4, <1>5 DEF All
  <1>8. UpTo(Msg.len) <= All
    BY <1>5
  <1>9. i2c.msg_ptr \in Nat /\ i2c.msg_ptr <= Msg.len
    BY <1>2
  <1> QED
    BY <1>1, <1>2, <1>3, <1>4, <1>5, <1>6, <1>7, <1>8, <1>9

\* A step of the bus or the handler, part by part.
LEMMA BusFrame ==
  ASSUME BusInv, BusTypes', cpc' = cpc, msgs' = msgs, ret' = ret, quiet' => quiet,
         ~ EmptyReadGoesOn(msgs) /\ cpc = "wait" => WaitBus',
         Over => Over' /\ nacked' = nacked
  PROVE  BusInv'
  <1> SUFFICES ASSUME ~ EmptyReadGoesOn(msgs) PROVE WaitBus' /\ AfterBus'
    BY DEF BusInv, EmptyReadGoesOn
  <1>1. WaitBus'
    BY DEF WaitBus
  <1>2. AfterBus'
    <2> SUFFICES ASSUME cpc \in {"busidle", "arb", "return"}
                 PROVE  (~ quiet' /\ ret' # Len(msgs')) \/ (Over' /\ ret' = Result')
      BY DEF AfterBus
    <2>1. (~ quiet /\ ret # Len(msgs)) \/ (Over /\ ret = Result)
      BY DEF BusInv, AfterBus
    <2>2. CASE ~ quiet /\ ret # Len(msgs)
      BY <2>2
    <2>3. CASE Over /\ ret = Result
      BY <2>3 DEF Result
    <2> QED
      BY <2>1, <2>2, <2>3
  <1> QED
    BY <1>1, <1>2

\* The events of a message.
LEMMA EventFacts ==
  ASSUME NEW t \in Seq(Message), NEW j \in 1 .. Len(t)
  PROVE  /\ ~ t[j].nostart => /\ OnBus(t, j)[1] = <<"start", j>>
                              /\ 1 \in 1 .. Starts(t, j) + t[j].len
         /\ \A b \in 0 .. t[j].len - 1 :
              LET i == Starts(t, j) + b + 1
              IN  /\ i \in 1 .. Starts(t, j) + t[j].len
                  /\ ~ t[j].rd => OnBus(t, j)[i] = <<"write", j, b>>
                  /\ t[j].rd /\ b + 1 # t[j].len => OnBus(t, j)[i] = <<"read", "ack">>
                  /\ t[j].rd /\ b + 1 = t[j].len /\ j = Len(t) => OnBus(t, j)[i] = <<"read", "nack">>
  <1>1. Starts(t, j) \in {0, 1} /\ t[j].len \in Nat /\ Starts(t, j) \in Nat
    BY BusTotals
  <1>2. ASSUME ~ t[j].nostart
        PROVE  OnBus(t, j)[1] = <<"start", j>> /\ 1 \in 1 .. Starts(t, j) + t[j].len
    <2>1. Starts(t, j) = 1
      BY <1>2 DEF Starts
    <2>2. 1 \in 1 .. Starts(t, j) + t[j].len /\ 1 <= Starts(t, j)
      BY <1>1, <2>1
    <2> QED
      BY <2>2 DEF OnBus
  <1>3. ASSUME NEW b \in 0 .. t[j].len - 1
        PROVE  LET i == Starts(t, j) + b + 1
               IN  /\ i \in 1 .. Starts(t, j) + t[j].len
                   /\ ~ t[j].rd => OnBus(t, j)[i] = <<"write", j, b>>
                   /\ t[j].rd /\ b + 1 # t[j].len => OnBus(t, j)[i] = <<"read", "ack">>
                   /\ t[j].rd /\ b + 1 = t[j].len /\ j = Len(t) => OnBus(t, j)[i] = <<"read", "nack">>
    <2> DEFINE i == Starts(t, j) + b + 1
    <2>1. /\ i \in 1 .. Starts(t, j) + t[j].len /\ ~ (i <= Starts(t, j)) /\ i - Starts(t, j) - 1 = b
          /\ (i = Starts(t, j) + t[j].len <=> b + 1 = t[j].len)
      BY <1>1
    <2> HIDE DEF i
    <2>2. /\ ~ t[j].rd => OnBus(t, j)[i] = <<"write", j, b>>
          /\ t[j].rd /\ b + 1 # t[j].len => OnBus(t, j)[i] = <<"read", "ack">>
          /\ t[j].rd /\ b + 1 = t[j].len /\ j = Len(t) => OnBus(t, j)[i] = <<"read", "nack">>
      BY <2>1 DEF OnBus
    <2> QED
      BY <2>1, <2>2 DEF i
  <1> QED
    BY <1>2, <1>3

\* The controller performs what it was told to, and raises its flag.
LEMMA BusRaised ==
  ASSUME I2cInv, BusInv, ~ flag, ctl.op \in {"START", "WRITE", "READ", "READ_NACK"},
         NEW nack \in BOOLEAN, NEW event \in BusEvents, Raise(nack, TRUE, event),
         CASE ctl.op = "START" -> event = <<"start", ctl.m>>
           [] ctl.op = "WRITE" -> event = <<"write", ctl.m, ctl.b>>
           [] ctl.op = "READ" -> event = <<"read", "ack">>
           [] ctl.op = "READ_NACK" -> event = <<"read", "nack">>,
         nacked' = IF /\ ctl.op \in {"START", "WRITE"} /\ nack /\ nacked = 0
                      /\ ~ i2c.of[ctl.m].ignore_nak
                   THEN IF ctl.op = "START" THEN ENXIO ELSE ECONNREFUSED
                   ELSE nacked
  PROVE  BusInv'
  <1>1. /\ flag' = TRUE /\ ctl' = NoCmd /\ wire' = Append(wire, event)
        /\ stat' = [nack |-> nack, arb |-> FALSE, busy |-> TRUE]
        /\ i2c' = i2c /\ irqen' = irqen /\ ipc' = ipc /\ cpc' = cpc /\ msgs' = msgs
        /\ ret' = ret /\ oops' = oops /\ quiet' = quiet
    BY DEF Raise, drv, thr
  <1>2. BusTypes'
    <2>1. NoCmd \in Commands
      BY DEF NoCmd, Commands, Ops
    <2>2. Append(wire, event) \in Seq(BusEvents)
      BY AppendProperties DEF BusInv, BusTypes
    <2> QED
      BY <1>1, <2>1, <2>2 DEF BusInv, BusTypes
  <1>3. ~ Over
    BY DEF Over
  <1>4. ASSUME ~ EmptyReadGoesOn(msgs), cpc = "wait" PROVE WaitBus'
    <2>1. CASE i2c.state \notin Active
      BY <1>1, <1>3, <1>4, <2>1 DEF BusInv, WaitBus
    <2>2. CASE i2c.state \in Active
      <3>1. UnderWay
        BY <1>4, <2>2 DEF BusInv, WaitBus
      <3>2. CASE Stuck
        <4>1. ~ irqen /\ ipc = "none"
          BY <3>2 DEF Stuck
        <4> QED
          BY <1>1, <2>2, <4>1 DEF WaitBus, UnderWay, Stuck
      <3>3. CASE ~ Stuck
        <4>1. InOrder(wire, msgs, Len(wire)) /\ Commanded
          BY <3>1, <3>3 DEF UnderWay, Flagged, Retrying
        <4>2. /\ msgs \in Seq(Message) /\ i2c.of = msgs /\ Msg = msgs[i2c.msg]
              /\ i2c.msg \in 1 .. Len(msgs) /\ wire \in Seq(BusEvents)
          BY <1>4, <2>2, HereFacts
        <4>3. /\ Msg.len \in Nat /\ i2c.msg_ptr \in Nat /\ i2c.msg_ptr <= Msg.len
              /\ Before(msgs, i2c.msg) \in Nat /\ Starts(msgs, i2c.msg) \in {0, 1}
              /\ ~ Msg.nostart => Starts(msgs, i2c.msg) = 1
              /\ Len(wire) \in Nat
          BY <1>4, <2>2, HereFacts
        <4>4. ctl.b \in Nat /\ ctl.m \in Nat
          BY DEF BusInv, BusTypes, Commands
        <4>5. /\ Msg' = Msg /\ \A x : UpTo(x)' = UpTo(x) /\ stat'.nack = nack /\ stat'.arb = FALSE
              /\ ctl'.op = "NONE"
          BY <1>1 DEF Msg, UpTo, NoCmd
        <4>6. \A code : Refusal(code)' = IF nack /\ ~ Msg.ignore_nak THEN code ELSE 0
          BY <4>5 DEF Refusal
        <4>7. ASSUME NEW i \in 1 .. Starts(msgs, i2c.msg) + Msg.len,
                     Len(wire) + 1 = Before(msgs, i2c.msg) + i,
                     event = OnBus(msgs, i2c.msg)[i]
              PROVE  InOrder(wire', msgs', Len(wire')) /\ Len(wire') = Len(wire) + 1
          <5>1. i \in 1 .. Starts(msgs, i2c.msg) + msgs[i2c.msg].len
            BY <4>2
          <5>2. /\ InOrder(Append(wire, event), msgs, Len(Append(wire, event)))
                /\ Len(Append(wire, event)) = Len(wire) + 1
            BY <4>1, <4>2, <4>7, <5>1, NextEvent, SMTT(60)
          <5> QED
            BY <1>1, <5>2
        <4>8. InOrder(wire', msgs', Len(wire')) /\ Flagged'
          <5>1. CASE ctl.op = "START"
            <6>1. /\ i2c.state = "START" /\ ctl.m = i2c.msg /\ nacked = 0
                  /\ i2c.msg_ptr = 0 /\ ~ Msg.nostart /\ Len(wire) = Before(msgs, i2c.msg) /\ ipc = "none"
              BY <4>1, <5>1 DEF Commanded
            <6>2. event = <<"start", i2c.msg>>
              BY <5>1, <6>1
            <6>3. OnBus(msgs, i2c.msg)[1] = event /\ 1 \in 1 .. Starts(msgs, i2c.msg) + Msg.len
              BY <4>2, <6>1, <6>2, EventFacts
            <6>4. InOrder(wire', msgs', Len(wire')) /\ Len(wire') = Len(wire) + 1
              BY <4>7, <6>1, <6>3
            <6>5. Len(wire') = UpTo(0)
              BY <4>3, <6>1, <6>4 DEF UpTo
            <6>6. nacked' = IF nack /\ ~ Msg.ignore_nak THEN ENXIO ELSE 0
              BY <4>2, <5>1, <6>1
            <6>7. Len(wire') = UpTo(0)' /\ nacked' = Refusal(ENXIO)'
              BY <4>5, <4>6, <6>5, <6>6
            <6> QED
              BY <1>1, <4>5, <6>1, <6>4, <6>7 DEF Flagged
          <5>2. CASE ctl.op = "WRITE"
            <6>1. /\ i2c.state = "WRITE" /\ ctl.m = i2c.msg /\ nacked = 0
                  /\ i2c.msg_ptr = ctl.b + 1 /\ ~ Msg.rd /\ Len(wire) = UpTo(ctl.b) /\ ipc = "none"
              BY <4>1, <5>2 DEF Commanded
            <6>2. event = <<"write", i2c.msg, ctl.b>>
              BY <5>2, <6>1
            <6> DEFINE i == Starts(msgs, i2c.msg) + ctl.b + 1
            <6>3. ctl.b \in 0 .. Msg.len - 1
              BY <4>3, <4>4, <6>1
            <6>4. OnBus(msgs, i2c.msg)[i] = event /\ i \in 1 .. Starts(msgs, i2c.msg) + Msg.len
              BY <4>2, <6>1, <6>2, <6>3, EventFacts
            <6>5. Len(wire) + 1 = Before(msgs, i2c.msg) + i
              BY <4>3, <4>4, <6>1 DEF UpTo
            <6>6. InOrder(wire', msgs', Len(wire')) /\ Len(wire') = Len(wire) + 1
              BY <4>7, <6>4, <6>5
            <6>7. Len(wire') = UpTo(i2c.msg_ptr)
              BY <4>3, <4>4, <6>1, <6>6, SMTT(60) DEF UpTo
            <6>8. nacked' = IF nack /\ ~ Msg.ignore_nak THEN ECONNREFUSED ELSE 0
              BY <4>2, <5>2, <6>1
            <6>9. Len(wire') = UpTo(i2c.msg_ptr)' /\ nacked' = Refusal(ECONNREFUSED)'
              <7>1. UpTo(i2c.msg_ptr)' = UpTo(i2c.msg_ptr)
                BY <1>1 DEF UpTo
              <7> QED
                BY <4>6, <6>7, <6>8, <7>1
            <6> QED
              BY <1>1, <4>5, <6>1, <6>6, <6>9 DEF Flagged
          <5>3. CASE ctl.op \in {"READ", "READ_NACK"}
            <6>1. /\ i2c.state = "READ" /\ Msg.rd /\ i2c.msg_ptr < Msg.len /\ nacked = 0
                  /\ Len(wire) = UpTo(i2c.msg_ptr) /\ ipc = "none"
                  /\ \/ ctl.op = "READ" /\ i2c.msg_ptr + 1 # Msg.len
                     \/ ctl.op = "READ_NACK" /\ i2c.msg_ptr + 1 = Msg.len /\ i2c.msg = Len(msgs)
              BY <4>1, <5>3 DEF Commanded
            <6> DEFINE i == Starts(msgs, i2c.msg) + i2c.msg_ptr + 1
            <6>2. i2c.msg_ptr \in 0 .. Msg.len - 1
              BY <4>3, <6>1
            <6>3. /\ i \in 1 .. Starts(msgs, i2c.msg) + Msg.len
                  /\ i2c.msg_ptr + 1 # Msg.len => OnBus(msgs, i2c.msg)[i] = <<"read", "ack">>
                  /\ i2c.msg_ptr + 1 = Msg.len /\ i2c.msg = Len(msgs) =>
                        OnBus(msgs, i2c.msg)[i] = <<"read", "nack">>
              BY <4>2, <6>1, <6>2, EventFacts
            <6>4. OnBus(msgs, i2c.msg)[i] = event
              <7>1. ctl.op = "READ" => event = <<"read", "ack">>
                OBVIOUS
              <7>2. ctl.op = "READ_NACK" => event = <<"read", "nack">>
                OBVIOUS
              <7> HIDE DEF i
              <7> QED
                BY <6>1, <6>3, <7>1, <7>2
            <6>5. Len(wire) + 1 = Before(msgs, i2c.msg) + i
              <7>1. Len(wire) = Before(msgs, i2c.msg) + Starts(msgs, i2c.msg) + i2c.msg_ptr
                BY <6>1 DEF UpTo
              <7> QED
                BY <4>3, <7>1
            <6>6. InOrder(wire', msgs', Len(wire')) /\ Len(wire') = Len(wire) + 1
              BY <4>7, <6>3, <6>4, <6>5
            <6>7. Len(wire') = UpTo(i2c.msg_ptr + 1)
              BY <4>3, <6>1, <6>6 DEF UpTo
            <6>8. Len(wire') = UpTo(i2c.msg_ptr + 1)'
              <7>1. UpTo(i2c.msg_ptr + 1)' = UpTo(i2c.msg_ptr + 1)
                BY <1>1 DEF UpTo
              <7> QED
                BY <6>7, <7>1
            <6>9. nacked' = 0
              BY <5>3, <6>1
            <6> QED
              BY <1>1, <4>5, <6>1, <6>6, <6>8, <6>9 DEF Flagged
          <5> QED
            BY <5>1, <5>2, <5>3
        <4> QED
          BY <1>1, <2>2, <4>8 DEF WaitBus, UnderWay
      <3> QED
        BY <3>2, <3>3
    <2> QED
      BY <2>1, <2>2
  <1> QED
    BY <1>1, <1>2, <1>3, <1>4, BusFrame

\* Every step of the controller keeps it.
LEMMA BusStepWire == I2cInv /\ BusInv /\ Bus => BusInv'
  <1> SUFFICES ASSUME I2cInv, BusInv, Bus PROVE BusInv'
    OBVIOUS
  <1>1. ctl \in Commands /\ wire \in Seq(BusEvents) /\ Len(wire) \in Nat /\ (cpc = "wait" => i2c.of = msgs)
    BY DEF BusInv, BusTypes
  <1>2. /\ <<"start", ctl.m>> \in BusEvents /\ <<"write", ctl.m, ctl.b>> \in BusEvents
        /\ <<"read", "ack">> \in BusEvents /\ <<"read", "nack">> \in BusEvents
        /\ <<"stop">> \in BusEvents
    BY <1>1 DEF Commands, BusEvents
  <1>3. ASSUME NEW nack \in BOOLEAN, BusStart(nack) PROVE BusInv'
    BY <1>2, <1>3, BusRaised DEF BusStart, Performs
  <1>4. ASSUME NEW nack \in BOOLEAN, BusWrite(nack) PROVE BusInv'
    BY <1>2, <1>4, BusRaised DEF BusWrite, Performs
  <1>5. CASE BusRead
    BY <1>2, <1>5, BusRaised DEF BusRead, Performs
  <1>6. NoCmd \in Commands /\ NoCmd.op = "NONE"
    BY DEF NoCmd, Commands, Ops
  <1>7. CASE BusStop
    <2>1. /\ ctl.op = "STOP" /\ ~ flag /\ ctl' = NoCmd /\ wire' = Append(wire, <<"stop">>)
          /\ i2c' = i2c /\ irqen' = irqen /\ ipc' = ipc /\ cpc' = cpc /\ msgs' = msgs
          /\ ret' = ret /\ oops' = oops /\ quiet' = quiet /\ nacked' = nacked
      BY <1>7 DEF BusStop, Performs, Raise, drv, thr
    <2>2. /\ wire' \in Seq(BusEvents) /\ Len(wire') = Len(wire) + 1 /\ wire'[Len(wire')] = <<"stop">>
      BY <1>1, <1>2, <2>1, AppendProperties
    <2>3. BusTypes'
      BY <1>1, <1>6, <2>1, <2>2 DEF BusTypes
    <2>4. ASSUME Over, msgs \in Seq(Message) PROVE Over'
      <3>1. Sent = Len(wire) /\ Sent' = Len(wire) /\ Len(wire') > 0
        <4>1. Sent' = Len(wire') - 1
          BY <1>6, <2>1 DEF Sent
        <4>2. Len(wire') - 1 = Len(wire) /\ Len(wire') > 0
          BY <1>1, <2>2
        <4>3. Sent = Len(wire)
          BY <2>1 DEF Sent
        <4> QED
          BY <4>1, <4>2, <4>3
      <3>2. InOrder(wire', msgs', Sent')
        <4>1. InOrder(wire, msgs, Len(wire))
          BY <2>4, <3>1 DEF Over
        <4>2. InOrder(Append(wire, <<"stop">>), msgs, Len(wire))
          BY <1>1, <1>2, <2>4, <4>1, EventsStay
        <4> QED
          BY <2>1, <3>1, <4>2
      <3>3. All' = All
        BY <2>1 DEF All
      <3> QED
        BY <1>6, <2>1, <2>2, <2>4, <3>1, <3>2, <3>3 DEF Over
    <2>5. cpc # "idle" => msgs \in Seq(Message)
      BY I2cConstants DEF I2cInv, I2cTypes
    <2>6. ASSUME ~ EmptyReadGoesOn(msgs), cpc = "wait" PROVE WaitBus'
      <3>1. CASE i2c.state \in Active
        <4>1. UnderWay
          BY <2>6, <3>1 DEF BusInv, WaitBus
        <4>2. ~ irqen /\ ipc = "none"
          BY <2>1, <4>1 DEF UnderWay, Stuck, Commanded, Flagged, Retrying
        <4> QED
          BY <2>1, <3>1, <4>2 DEF WaitBus, UnderWay, Stuck
      <3>2. CASE i2c.state \notin Active
        <4>1. ipc = "retry" \/ oops \/ (Over /\ i2c.msg_idx = Result)
          BY <2>6, <3>2 DEF BusInv, WaitBus
        <4>2. Result' = Result
          BY <2>1 DEF Result
        <4> QED
          BY <2>1, <2>4, <2>5, <2>6, <3>2, <4>1, <4>2 DEF WaitBus
      <3> QED
        BY <3>1, <3>2
    <2>7. CASE cpc # "idle"
      BY <2>1, <2>3, <2>4, <2>5, <2>6, <2>7, BusFrame
    <2>8. CASE cpc = "idle"
      BY <2>1, <2>3, <2>8 DEF BusInv, WaitBus, AfterBus
    <2> QED
      BY <2>7, <2>8
  <1>8. CASE BusArbLost
    <2>1. /\ ctl.op \in {"START", "WRITE"} /\ ~ flag /\ flag' = TRUE /\ ctl' = NoCmd
          /\ stat' = [nack |-> FALSE, arb |-> TRUE, busy |-> FALSE] /\ quiet' = FALSE
          /\ i2c' = i2c /\ irqen' = irqen /\ ipc' = ipc /\ cpc' = cpc /\ msgs' = msgs
          /\ ret' = ret /\ oops' = oops /\ wire' = wire
      BY <1>8 DEF BusArbLost, drv, thr
    <2>2. BusTypes'
      BY <1>1, <1>6, <2>1 DEF BusTypes
    <2>3. ~ Over
      BY <2>1 DEF Over
    <2>4. ASSUME ~ EmptyReadGoesOn(msgs), cpc = "wait" PROVE WaitBus'
      <3>1. CASE i2c.state \in Active
        <4>1. UnderWay
          BY <2>4, <3>1 DEF BusInv, WaitBus
        <4>2. ipc = "none"
          BY <2>1, <4>1 DEF UnderWay, Stuck, Commanded, Flagged, Retrying
        <4>3. stat'.arb = TRUE /\ ctl'.op = "NONE"
          BY <1>6, <2>1
        <4>4. Stuck'
          BY <2>1, <4>2, <4>3 DEF Stuck
        <4> QED
          BY <2>1, <3>1, <4>4 DEF WaitBus, UnderWay
      <3>2. CASE i2c.state \notin Active
        BY <2>1, <2>3, <2>4, <3>2 DEF BusInv, WaitBus
      <3> QED
        BY <3>1, <3>2
    <2> QED
      BY <2>1, <2>2, <2>3, <2>4, BusFrame
  <1> QED
    BY <1>3, <1>4, <1>5, <1>7, <1>8 DEF Bus

\* The handler goes on with the transfer.
LEMMA GoesOnWire ==
  ASSUME BusInv, UNCHANGED <<msgs, cpc, ret, quiet, wire>>, ~ Over, ctl' \in Commands,
         i2c'.of = i2c.of, i2c'.state \in Active,
         ~ EmptyReadGoesOn(msgs) /\ cpc = "wait" => UnderWay'
  PROVE  BusInv'
  <1>1. BusTypes'
    BY DEF BusInv, BusTypes
  <1>2. ~ EmptyReadGoesOn(msgs) /\ cpc = "wait" => WaitBus'
    BY DEF WaitBus
  <1> QED
    BY <1>1, <1>2, BusFrame

\* The handler stops it: what is on the bus is what the result says.
LEMMA StopsWire ==
  ASSUME BusInv, UNCHANGED <<msgs, cpc, ret, quiet, wire, nacked>>, ~ Over, ipc' = "none",
         ctl' = [op |-> "STOP", m |-> 0, b |-> 0], i2c'.of = i2c.of, i2c'.state = "STOP",
         ~ EmptyReadGoesOn(msgs) /\ cpc = "wait" =>
            /\ InOrder(wire, msgs, Len(wire)) /\ i2c'.msg_idx = Result
            /\ nacked = 0 => Len(wire) = All
            /\ nacked # 0 => nacked < 0 /\ Len(wire) <= All
  PROVE  BusInv'
  <1>1. ctl' \in Commands /\ ctl'.op = "STOP"
    BY DEF Commands, Ops
  <1>2. BusTypes'
    BY <1>1 DEF BusInv, BusTypes
  <1>3. ASSUME ~ EmptyReadGoesOn(msgs), cpc = "wait" PROVE WaitBus'
    <2>1. Sent' = Len(wire) /\ All' = All /\ Result' = Result
      BY <1>1 DEF Sent, All, Result
    <2>2. i2c'.state \notin Active
      BY DEF Active
    <2>3. InOrder(wire', msgs', Sent')
      BY <1>3, <2>1
    <2>4. Over'
      BY <1>1, <1>3, <2>1, <2>2, <2>3 DEF Over
    <2> QED
      BY <1>3, <2>1, <2>2, <2>4 DEF WaitBus
  <1> QED
    BY <1>2, <1>3, BusFrame

\* An interrupt of a transfer under way finds what its command put on the bus.
LEMMA FlagFacts ==
  ASSUME BusInv, Raised, ~ stat.arb, i2c.state \in Active, cpc = "wait", ~ EmptyReadGoesOn(msgs)
  PROVE  InOrder(wire, msgs, Len(wire)) /\ Flagged
  BY DEF BusInv, WaitBus, UnderWay, Stuck, Commanded, Flagged, Retrying, Raised

\* The handler's steps that are not at retry_write.
LEMMA IrqStepWire ==
  I2cInv /\ BusInv /\ (IrqArbLost \/ IrqStop \/ IrqNack \/ IrqProbe \/ IrqWrite) => BusInv'
  <1> SUFFICES ASSUME I2cInv, BusInv, IrqArbLost \/ IrqStop \/ IrqNack \/ IrqProbe \/ IrqWrite
               PROVE  BusInv'
    OBVIOUS
  <1>1. /\ Raised /\ flag /\ irqen /\ ipc = "none" /\ ~ oops /\ flag' = FALSE
        /\ UNCHANGED <<stat, wire, nacked, cpc, msgs, ret, quiet>>
    BY DEF IrqArbLost, IrqStop, IrqNack, IrqProbe, IrqWrite, TakeIrq, Raised, thr
  <1>2. i2c \in Structs /\ ctl \in Commands /\ wire \in Seq(BusEvents) /\ (cpc = "wait" => i2c.of = msgs)
    BY DEF I2cInv, I2cTypes, BusInv, BusTypes
  <1>3. CASE IrqArbLost
    <2>1. /\ stat.arb /\ i2c' = [i2c EXCEPT !.arblost = TRUE] /\ irqen' = irqen /\ ipc' = ipc
          /\ ctl' = ctl /\ oops' = oops
      BY <1>3 DEF IrqArbLost
    <2>2. i2c'.state = i2c.state /\ i2c'.msg_idx = i2c.msg_idx /\ i2c'.of = i2c.of
      BY <1>2, <2>1 DEF Structs
    <2>3. BusTypes'
      BY <1>1, <1>2, <2>1, <2>2 DEF BusTypes
    <2>4. Over => Over'
      BY <1>1, <2>1, <2>2 DEF Over, Sent, All
    <2>5. ASSUME ~ EmptyReadGoesOn(msgs), cpc = "wait" PROVE WaitBus'
      <3>1. i2c.state \in Active => Stuck'
        BY <1>1, <2>1, <2>5 DEF BusInv, WaitBus, UnderWay, Stuck, Commanded, Flagged, Retrying
      <3>2. Result' = Result
        BY <1>1 DEF Result
      <3> QED
        BY <1>1, <2>1, <2>2, <2>4, <2>5, <3>1, <3>2 DEF BusInv, WaitBus, UnderWay
    <2> QED
      BY <1>1, <2>3, <2>4, <2>5, BusFrame
  <1>4. CASE IrqStop
    <2>1. /\ i2c.state \in {"STOP", "IDLE"} /\ i2c' = [i2c EXCEPT !.state = "IDLE"] /\ ipc' = ipc
          /\ ctl' = ctl /\ oops' = oops
      BY <1>4 DEF IrqStop
    <2>2. i2c'.state = "IDLE" /\ i2c'.msg_idx = i2c.msg_idx /\ i2c'.of = i2c.of
      BY <1>2, <2>1 DEF Structs
    <2>3. i2c.state \notin Active /\ i2c'.state \notin Active
      BY <2>1, <2>2 DEF Active
    <2>4. BusTypes'
      BY <1>1, <1>2, <2>1, <2>2 DEF BusTypes
    <2>5. Over => Over'
      BY <1>1, <2>1, <2>3 DEF Over, Sent, All
    <2>6. ASSUME ~ EmptyReadGoesOn(msgs), cpc = "wait" PROVE WaitBus'
      <3>1. Result' = Result
        BY <1>1 DEF Result
      <3> QED
        BY <1>1, <2>1, <2>2, <2>3, <2>5, <2>6, <3>1 DEF BusInv, WaitBus
    <2> QED
      BY <1>1, <2>4, <2>5, <2>6, BusFrame
  <1>5. CASE IrqNack
    <2> DEFINE code == IF i2c.state = "START" THEN ENXIO ELSE ECONNREFUSED
    <2>1. /\ ~ stat.arb /\ i2c.state \in {"START", "WRITE"} /\ Nacked
          /\ i2c' = Stopped(i2c, code) /\ ctl' = [op |-> "STOP", m |-> 0, b |-> 0] /\ ipc' = ipc
      BY <1>5 DEF IrqNack, stop, Command
    <2>2. i2c.state \in Active /\ ~ Over
      BY <2>1 DEF Active, Over
    <2>3. code \in Int /\ code # 0 /\ code < 0
      BY DEF ENXIO, ECONNREFUSED
    <2>4. i2c'.state = "STOP" /\ i2c'.of = i2c.of /\ i2c'.msg_idx = code
      <3> HIDE DEF code
      <3> QED
        BY <1>2, <2>1, <2>3, StoppedFacts
    <2>5. ASSUME ~ EmptyReadGoesOn(msgs), cpc = "wait"
          PROVE  /\ InOrder(wire, msgs, Len(wire)) /\ i2c'.msg_idx = Result
                 /\ nacked # 0 /\ nacked < 0 /\ Len(wire) <= All
      <3>1. InOrder(wire, msgs, Len(wire)) /\ Flagged
        BY <1>1, <2>1, <2>2, <2>5, FlagFacts
      <3>2. /\ Msg.len \in Nat /\ i2c.msg_ptr \in Nat /\ i2c.msg_ptr <= Msg.len
            /\ Before(msgs, i2c.msg) \in Nat /\ Starts(msgs, i2c.msg) \in {0, 1} /\ All \in Nat
            /\ UpTo(Msg.len) <= All
        BY <2>2, <2>5, HereFacts
      <3>3. nacked = code /\ Len(wire) = UpTo(i2c.msg_ptr)
        BY <2>1, <3>1 DEF Flagged, Refusal, Nacked
      <3>4. Len(wire) <= All
        BY <3>2, <3>3 DEF UpTo
      <3> QED
        BY <2>3, <2>4, <3>1, <3>3, <3>4 DEF Result
    <2> QED
      BY <1>1, <2>1, <2>2, <2>4, <2>5, StopsWire
  <1>6. CASE IrqProbe
    <2>1. /\ ~ stat.arb /\ i2c.state = "START" /\ ~ Nacked /\ is_lastmsg /\ Msg.len = 0
          /\ i2c' = Stopped(i2c, 0) /\ ctl' = [op |-> "STOP", m |-> 0, b |-> 0] /\ ipc' = ipc
      BY <1>6 DEF IrqProbe, stop, Command
    <2>2. i2c.state \in Active /\ ~ Over
      BY <2>1 DEF Active, Over
    <2>3. i2c'.state = "STOP" /\ i2c'.of = i2c.of /\ i2c'.msg_idx = i2c.msg_idx + 1
      BY <1>2, <2>1, StoppedFacts
    <2>4. ASSUME ~ EmptyReadGoesOn(msgs), cpc = "wait"
          PROVE  /\ InOrder(wire, msgs, Len(wire)) /\ i2c'.msg_idx = Result
                 /\ nacked = 0 /\ Len(wire) = All
      <3>1. InOrder(wire, msgs, Len(wire)) /\ Flagged
        BY <1>1, <2>1, <2>2, <2>4, FlagFacts
      <3>2. /\ i2c.msg \in Nat /\ i2c.msg_idx = i2c.msg - 1 /\ (is_lastmsg <=> i2c.msg = Len(msgs))
            /\ (is_lastmsg => UpTo(Msg.len) = All)
        BY <2>2, <2>4, HereFacts
      <3>3. nacked = 0 /\ Len(wire) = UpTo(0)
        BY <2>1, <3>1 DEF Flagged, Refusal, Nacked
      <3>4. i2c'.msg_idx = Len(msgs)
        BY <2>1, <2>3, <3>2
      <3> QED
        BY <2>1, <3>1, <3>2, <3>3, <3>4 DEF Result
    <2> QED
      BY <1>1, <2>1, <2>2, <2>3, <2>4, StopsWire
  <1>7. CASE IrqWrite
    <2>1. /\ ~ stat.arb /\ i2c.state \in {"START", "WRITE"} /\ ~ Nacked
          /\ i2c.state = "START" => ~ Msg.rd
          /\ i2c' = [i2c EXCEPT !.state = "WRITE"] /\ ipc' = "retry" /\ ctl' = ctl
      BY <1>7 DEF IrqWrite
    <2>2. i2c.state \in Active /\ ~ Over /\ "WRITE" \in Active
      BY <2>1 DEF Active, Over
    <2>3. /\ i2c'.state = "WRITE" /\ i2c'.of = i2c.of /\ i2c'.msg = i2c.msg
          /\ i2c'.msg_ptr = i2c.msg_ptr
      BY <1>2, <2>1 DEF Structs
    <2>4. ASSUME ~ EmptyReadGoesOn(msgs), cpc = "wait" PROVE UnderWay'
      <3>1. InOrder(wire, msgs, Len(wire)) /\ Flagged
        BY <1>1, <2>1, <2>2, <2>4, FlagFacts
      <3>2. /\ nacked = 0 /\ Len(wire) = UpTo(i2c.msg_ptr) /\ ~ Msg.rd /\ ctl.op = "NONE"
        BY <2>1, <3>1 DEF Flagged, Refusal, Nacked
      <3>3. Msg' = Msg /\ UpTo(i2c.msg_ptr)' = UpTo(i2c.msg_ptr)
        BY <1>1, <2>3 DEF Msg, UpTo
      <3>4. Retrying'
        BY <1>1, <2>1, <2>3, <3>2, <3>3 DEF Retrying
      <3> QED
        BY <1>1, <3>1, <3>4 DEF UnderWay
    <2> QED
      BY <1>1, <1>2, <2>1, <2>2, <2>3, <2>4, GoesOnWire
  <1> QED
    BY <1>3, <1>4, <1>5, <1>6, <1>7

\* A START of a read or a byte that was read: the next byte, refused if it is the
\* last one, or the STOP.
LEMMA ReadStepWire == I2cInv /\ BusInv /\ IrqRead => BusInv'
  <1> SUFFICES ASSUME I2cInv, BusInv, IrqRead PROVE BusInv'
    OBVIOUS
  <1> DEFINE q == IF i2c.state = "READ" THEN i2c.msg_ptr + 1 ELSE i2c.msg_ptr
             c == [i2c EXCEPT !.state = "READ", !.msg_ptr = q]
  <1>1. /\ Raised /\ flag /\ irqen /\ ipc = "none" /\ ~ oops /\ flag' = FALSE /\ ~ stat.arb
        /\ UNCHANGED <<stat, wire, nacked, cpc, msgs, ret, quiet, ipc, irqen>>
    BY DEF IrqRead, TakeIrq, Raised, thr
  <1>2. i2c \in Structs /\ ctl \in Commands /\ wire \in Seq(BusEvents) /\ (cpc = "wait" => i2c.of = msgs)
    BY DEF I2cInv, I2cTypes, BusInv, BusTypes
  <1>3. /\ \/ i2c.state = "READ"
           \/ /\ i2c.state = "START" /\ ~ Nacked /\ Msg.rd /\ ~ (is_lastmsg /\ Msg.len = 0)
        /\ \/ /\ is_msglast(q) /\ is_lastmsg
              /\ i2c' = c /\ ctl' = [op |-> "READ_NACK", m |-> 0, b |-> 0]
           \/ /\ is_msglast(q) /\ ~ is_lastmsg
              /\ i2c' = c /\ ctl' = ctl
           \/ /\ is_msgend(q) /\ is_lastmsg
              /\ i2c' = Stopped(c, 0) /\ ctl' = [op |-> "STOP", m |-> 0, b |-> 0]
           \/ /\ is_msgend(q) /\ ~ is_lastmsg
              /\ i2c' = NextMsg(c) /\ ctl' = [op |-> "READ", m |-> 0, b |-> 0]
           \/ /\ ~ is_msglast(q) /\ ~ is_msgend(q)
              /\ i2c' = c /\ ctl' = [op |-> "READ", m |-> 0, b |-> 0]
    BY DEF IrqRead, Command
  <1>4. i2c.state \in Active /\ "READ" \in Active /\ ~ Over
    BY <1>3 DEF Active, Over
  <1>5. q \in Nat
    BY <1>2 DEF Structs
  <1> HIDE DEF q
  <1>6. /\ c \in Structs /\ c.state = "READ" /\ c.msg = i2c.msg /\ c.msg_idx = i2c.msg_idx
        /\ c.of = i2c.of /\ c.msg_ptr = q
    BY <1>2, <1>4, <1>5 DEF Structs
  <1> HIDE DEF c
  <1>7. [op |-> "READ_NACK", m |-> 0, b |-> 0] \in Commands /\ [op |-> "READ", m |-> 0, b |-> 0] \in Commands
    BY DEF Commands, Ops
  <1>8. ASSUME ~ EmptyReadGoesOn(msgs), cpc = "wait"
        PROVE  /\ InOrder(wire, msgs, Len(wire)) /\ nacked = 0 /\ ctl.op = "NONE" /\ Msg.rd
               /\ Len(wire) = UpTo(q) /\ q <= Msg.len
               /\ q = Msg.len => is_lastmsg
               /\ Msg.len \in Nat /\ i2c.msg \in Nat /\ i2c.msg_idx = i2c.msg - 1
               /\ (is_lastmsg <=> i2c.msg = Len(msgs)) /\ (is_lastmsg => UpTo(Msg.len) = All)
    <2>1. InOrder(wire, msgs, Len(wire)) /\ Flagged
      BY <1>1, <1>4, <1>8, FlagFacts
    <2>2. /\ msgs \in Seq(Message) /\ Msg = msgs[i2c.msg] /\ i2c.msg \in 1 .. Len(msgs)
      BY <1>4, <1>8, HereFacts
    <2>3. /\ Msg.len \in Nat /\ i2c.msg_ptr \in Nat /\ i2c.msg_ptr <= Msg.len /\ Len(msgs) \in Nat
          /\ i2c.msg \in Nat /\ i2c.msg_idx = i2c.msg - 1 /\ (is_lastmsg <=> i2c.msg = Len(msgs))
          /\ (is_lastmsg => UpTo(Msg.len) = All)
      BY <1>4, <1>8, HereFacts
    <2>4. CASE i2c.state = "READ"
      <3>1. q = i2c.msg_ptr + 1
        BY <2>4 DEF q
      <3>2. /\ Msg.rd /\ i2c.msg_ptr < Msg.len /\ nacked = 0 /\ ctl.op = "NONE"
            /\ i2c.msg_ptr + 1 = Msg.len => i2c.msg = Len(msgs)
            /\ Len(wire) = UpTo(i2c.msg_ptr + 1)
        BY <2>1, <2>4 DEF Flagged
      <3>3. q <= Msg.len
        BY <2>3, <3>1, <3>2
      <3> QED
        BY <2>1, <2>3, <3>1, <3>2, <3>3
    <2>5. CASE i2c.state # "READ"
      <3>1. i2c.state = "START" /\ ~ Nacked /\ Msg.rd /\ ~ (is_lastmsg /\ Msg.len = 0)
        BY <1>3, <2>5
      <3>2. /\ i2c.msg_ptr = 0 /\ Len(wire) = UpTo(0) /\ nacked = 0 /\ ctl.op = "NONE"
        BY <2>1, <3>1 DEF Flagged, Refusal, Nacked
      <3>3. q = 0
        BY <2>5, <3>2 DEF q
      <3>4. Msg.len # 0
        <4> SUFFICES ASSUME Msg.len = 0 PROVE FALSE
          OBVIOUS
        <4>1. i2c.msg \in 1 .. Len(msgs) - 1
          BY <2>2, <2>3, <3>1
        <4> QED
          BY <1>8, <2>2, <3>1, <4>1 DEF EmptyReadGoesOn
      <3> QED
        BY <2>1, <2>3, <3>1, <3>2, <3>3, <3>4
    <2> QED
      BY <2>4, <2>5
  <1>9. ASSUME i2c' = c, ctl' \in Commands,
               ~ EmptyReadGoesOn(msgs) /\ cpc = "wait" =>
                 \/ ctl' = ctl
                 \/ ctl'.op = "READ" /\ q + 1 # Msg.len /\ q < Msg.len
                 \/ ctl'.op = "READ_NACK" /\ q + 1 = Msg.len /\ is_lastmsg
        PROVE  BusInv'
    <2>1. ASSUME ~ EmptyReadGoesOn(msgs), cpc = "wait" PROVE UnderWay'
      <3>1. CASE ctl' = ctl
        <4>1. Stuck'
          BY <1>1, <1>8, <2>1, <3>1 DEF Stuck
        <4> QED
          BY <4>1 DEF UnderWay
      <3>2. CASE ctl' # ctl
        <4>1. /\ q < Msg.len
              /\ \/ ctl'.op = "READ" /\ q + 1 # Msg.len
                 \/ ctl'.op = "READ_NACK" /\ q + 1 = Msg.len /\ i2c.msg = Len(msgs)
          BY <1>5, <1>8, <1>9, <2>1, <3>2
        <4>2. Msg' = Msg /\ i2c'.msg_ptr = q /\ i2c'.state = "READ" /\ i2c'.msg = i2c.msg
          BY <1>6, <1>9 DEF Msg
        <4>3. UpTo(i2c.msg_ptr)' = UpTo(q)
          BY <1>1, <4>2 DEF UpTo
        <4>4. Commanded'
          BY <1>1, <1>8, <2>1, <4>1, <4>2, <4>3 DEF Commanded
        <4> QED
          BY <1>1, <1>8, <2>1, <4>4 DEF UnderWay
      <3> QED
        BY <3>1, <3>2
    <2> QED
      BY <1>1, <1>4, <1>6, <1>9, <2>1, GoesOnWire
  <1>10. CASE /\ is_msgend(q) /\ is_lastmsg /\ i2c' = Stopped(c, 0)
              /\ ctl' = [op |-> "STOP", m |-> 0, b |-> 0]
    <2>1. i2c'.state = "STOP" /\ i2c'.of = i2c.of /\ i2c'.msg_idx = i2c.msg_idx + 1
      BY <1>6, <1>10, StoppedFacts
    <2>2. ASSUME ~ EmptyReadGoesOn(msgs), cpc = "wait"
          PROVE  InOrder(wire, msgs, Len(wire)) /\ i2c'.msg_idx = Result /\ nacked = 0 /\ Len(wire) = All
      <3>1. q = Msg.len
        BY <1>5, <1>8, <1>10, <2>2 DEF is_msgend
      <3>2. i2c'.msg_idx = Len(msgs)
        BY <1>8, <1>10, <2>1, <2>2
      <3> QED
        BY <1>8, <1>10, <2>2, <3>1, <3>2 DEF Result
    <2> QED
      BY <1>1, <1>4, <1>10, <2>1, <2>2, StopsWire
  <1>11. CASE /\ is_msgend(q) /\ ~ is_lastmsg /\ i2c' = NextMsg(c)
              /\ ctl' = [op |-> "READ", m |-> 0, b |-> 0]
    <2>1. i2c'.state = "READ" /\ i2c'.of = i2c.of
      BY <1>6, <1>11, NextMsgFacts
    <2>2. ~ EmptyReadGoesOn(msgs) /\ cpc = "wait" => FALSE
      BY <1>5, <1>8, <1>11 DEF is_msgend
    <2> QED
      BY <1>1, <1>4, <1>7, <1>11, <2>1, <2>2, GoesOnWire
  <1>12. CASE /\ is_msglast(q) /\ is_lastmsg /\ i2c' = c
              /\ ctl' = [op |-> "READ_NACK", m |-> 0, b |-> 0]
    <2>1. ~ EmptyReadGoesOn(msgs) /\ cpc = "wait" => q + 1 = Msg.len
      BY <1>5, <1>8, <1>12 DEF is_msglast
    <2> QED
      BY <1>7, <1>9, <1>12, <2>1
  <1>13. CASE is_msglast(q) /\ ~ is_lastmsg /\ i2c' = c /\ ctl' = ctl
    BY <1>2, <1>9, <1>13
  <1>14. CASE /\ ~ is_msglast(q) /\ ~ is_msgend(q) /\ i2c' = c
              /\ ctl' = [op |-> "READ", m |-> 0, b |-> 0]
    <2>1. ~ EmptyReadGoesOn(msgs) /\ cpc = "wait" => q + 1 # Msg.len /\ q < Msg.len
      BY <1>5, <1>8, <1>14 DEF is_msglast, is_msgend
    <2> QED
      BY <1>7, <1>9, <1>14, <2>1
  <1> QED
    BY <1>3, <1>10, <1>11, <1>12, <1>13, <1>14

\* retry_write: the next byte, the next message or the STOP.
LEMMA RetryStepWire == I2cInv /\ BusInv /\ RetryWrite => BusInv'
  <1> SUFFICES ASSUME I2cInv, BusInv, RetryWrite PROVE BusInv'
    OBVIOUS
  <1>1. /\ ipc = "retry" /\ UNCHANGED <<irqen, flag, stat, wire, nacked, cpc, msgs, ret, quiet>>
        /\ NullMessage \/ (i2c.msg # 0 /\ (SendByte \/ NextMessage \/ SendStop) /\ oops' = oops)
    BY DEF RetryWrite, thr
  <1>2. i2c \in Structs /\ ctl \in Commands /\ wire \in Seq(BusEvents) /\ (cpc = "wait" => i2c.of = msgs)
    BY DEF I2cInv, I2cTypes, BusInv, BusTypes
  <1>3. ~ Over
    BY <1>1 DEF Over
  <1>4. CASE NullMessage
    <2>1. i2c.msg = 0 /\ oops' = TRUE /\ ctl' = ctl /\ i2c' = i2c
      BY <1>4 DEF NullMessage
    <2>2. i2c.state \notin Active
      BY <2>1, ActiveFacts DEF I2cInv
    <2>3. BusTypes'
      BY <1>1, <1>2, <2>1 DEF BusTypes
    <2>4. WaitBus'
      BY <2>1, <2>2 DEF WaitBus
    <2> QED
      BY <1>1, <1>3, <2>3, <2>4, BusFrame
  <1>5. CASE i2c.msg # 0 /\ (SendByte \/ NextMessage \/ SendStop) /\ oops' = oops
    <2>1. i2c.state \in Active
      BY <1>5 DEF I2cInv, MessageKnows
    <2>2. /\ i2c.msg \in Nat /\ i2c.msg_ptr \in Nat
      BY <1>2 DEF Structs
    <2>3. ASSUME ~ EmptyReadGoesOn(msgs), cpc = "wait"
          PROVE  /\ InOrder(wire, msgs, Len(wire)) /\ ~ flag /\ ctl.op = "NONE" /\ i2c.state = "WRITE"
                 /\ ~ Msg.rd /\ Len(wire) = UpTo(i2c.msg_ptr) /\ nacked = 0
                 /\ msgs \in Seq(Message) /\ i2c.of = msgs /\ Msg = msgs[i2c.msg]
                 /\ i2c.msg \in 1 .. Len(msgs) /\ Len(msgs) \in Nat /\ Msg.len \in Nat
                 /\ i2c.msg_ptr <= Msg.len /\ i2c.msg_idx = i2c.msg - 1
                 /\ (is_lastmsg <=> i2c.msg = Len(msgs)) /\ (is_lastmsg => UpTo(Msg.len) = All)
      <3>1. UnderWay
        BY <2>1, <2>3 DEF BusInv, WaitBus
      <3>2. InOrder(wire, msgs, Len(wire)) /\ Retrying
        BY <1>1, <3>1 DEF UnderWay, Stuck, Commanded, Flagged
      <3> QED
        BY <2>1, <2>3, <3>2, HereFacts DEF Retrying
    <2>4. CASE SendByte
      <3>1. /\ ~ is_msgend(i2c.msg_ptr) /\ i2c' = [i2c EXCEPT !.msg_ptr = @ + 1]
            /\ ctl' = [op |-> "WRITE", m |-> i2c.msg, b |-> i2c.msg_ptr] /\ ipc' = "none"
        BY <2>4 DEF SendByte, Command
      <3>2. /\ i2c'.state = i2c.state /\ i2c'.msg = i2c.msg /\ i2c'.of = i2c.of
            /\ i2c'.msg_ptr = i2c.msg_ptr + 1
        BY <1>2, <3>1 DEF Structs
      <3>3. ctl' \in Commands /\ ctl'.op = "WRITE" /\ ctl'.m = i2c.msg /\ ctl'.b = i2c.msg_ptr
        BY <2>2, <3>1 DEF Commands, Ops
      <3>4. ASSUME ~ EmptyReadGoesOn(msgs), cpc = "wait" PROVE UnderWay'
        <4>1. Msg' = Msg /\ UpTo(ctl.b)' = UpTo(i2c.msg_ptr)
          BY <1>1, <3>2, <3>3 DEF Msg, UpTo
        <4>2. i2c'.msg_ptr = ctl'.b + 1
          BY <3>2, <3>3
        <4>3. Commanded'
          BY <1>1, <2>3, <3>1, <3>2, <3>3, <3>4, <4>1, <4>2 DEF Commanded
        <4> QED
          BY <1>1, <2>3, <3>4, <4>3 DEF UnderWay
      <3> QED
        BY <1>1, <1>3, <2>1, <3>2, <3>3, <3>4, GoesOnWire
    <2>5. CASE SendStop
      <3>1. /\ is_msgend(i2c.msg_ptr) /\ is_lastmsg /\ i2c' = Stopped(i2c, 0)
            /\ ctl' = [op |-> "STOP", m |-> 0, b |-> 0] /\ ipc' = "none"
        BY <2>5 DEF SendStop, stop, Command
      <3>2. i2c'.state = "STOP" /\ i2c'.of = i2c.of /\ i2c'.msg_idx = i2c.msg_idx + 1
        BY <1>2, <3>1, StoppedFacts
      <3>3. ASSUME ~ EmptyReadGoesOn(msgs), cpc = "wait"
            PROVE  InOrder(wire, msgs, Len(wire)) /\ i2c'.msg_idx = Result /\ nacked = 0 /\ Len(wire) = All
        <4>1. i2c.msg_ptr = Msg.len
          BY <2>2, <2>3, <3>1, <3>3 DEF is_msgend
        <4>2. i2c'.msg_idx = Len(msgs)
          BY <2>2, <2>3, <3>1, <3>2, <3>3
        <4> QED
          BY <2>3, <3>1, <3>3, <4>1, <4>2 DEF Result
      <3> QED
        BY <1>1, <1>3, <3>1, <3>2, <3>3, StopsWire
    <2>6. CASE NextMessage
      <3> DEFINE c == NextMsg(i2c)
      <3>1. /\ c \in Structs /\ c.state = i2c.state /\ c.msg = i2c.msg + 1 /\ c.of = i2c.of
            /\ c.msg_ptr = 0
        BY <1>2, NextMsgFacts
      <3>2. /\ is_msgend(i2c.msg_ptr) /\ ~ is_lastmsg
            /\ \/ /\ ~ i2c.of[c.msg].nostart /\ i2c' = [c EXCEPT !.state = "START"]
                  /\ ctl' = [op |-> "START", m |-> c.msg, b |-> 0] /\ ipc' = "none"
               \/ /\ i2c' = Stopped(c, EINVAL) /\ ctl' = [op |-> "STOP", m |-> 0, b |-> 0]
                  /\ ipc' = ipc
               \/ ~ i2c.of[c.msg].rd /\ i2c.of[c.msg].nostart /\ i2c' = c /\ ctl' = ctl /\ ipc' = ipc
        BY <2>6 DEF NextMessage, Command
      <3> HIDE DEF c
      <3>3. ASSUME ~ EmptyReadGoesOn(msgs), cpc = "wait"
            PROVE  Len(wire) = Before(msgs, c.msg) /\ Before(msgs, c.msg) \in Nat
        <4>1. i2c.msg_ptr = Msg.len
          BY <2>2, <2>3, <3>2, <3>3 DEF is_msgend
        <4>2. Len(wire) = Total(BusCount(msgs), i2c.msg)
          BY <2>3, <3>3, <4>1, BusTotals DEF UpTo
        <4>3. Before(msgs, i2c.msg + 1) = Total(BusCount(msgs), i2c.msg) /\ Total(BusCount(msgs), i2c.msg) \in Nat
          BY <2>3, <3>3, BusTotals
        <4> QED
          BY <3>1, <4>2, <4>3
      <3>4. CASE /\ ~ i2c.of[c.msg].nostart /\ i2c' = [c EXCEPT !.state = "START"]
                 /\ ctl' = [op |-> "START", m |-> c.msg, b |-> 0] /\ ipc' = "none"
        <4>1. /\ i2c'.state = "START" /\ i2c'.msg = c.msg /\ i2c'.of = i2c.of /\ i2c'.msg_ptr = 0
              /\ "START" \in Active /\ c.msg \in Nat
          BY <3>1, <3>4 DEF Structs, Active
        <4>2. ctl' \in Commands /\ ctl'.op = "START" /\ ctl'.m = c.msg
          BY <3>4, <4>1 DEF Commands, Ops
        <4>3. ASSUME ~ EmptyReadGoesOn(msgs), cpc = "wait" PROVE UnderWay'
          <5>1. Msg' = i2c.of[c.msg]
            BY <4>1 DEF Msg
          <5>2. Commanded'
            BY <1>1, <2>3, <3>3, <3>4, <4>1, <4>2, <4>3, <5>1 DEF Commanded
          <5> QED
            BY <1>1, <2>3, <4>3, <5>2 DEF UnderWay
        <4> QED
          BY <1>1, <1>3, <4>1, <4>2, <4>3, GoesOnWire
      <3>5. CASE /\ i2c' = Stopped(c, EINVAL) /\ ctl' = [op |-> "STOP", m |-> 0, b |-> 0]
                 /\ ipc' = ipc
        <4>1. i2c'.state = "STOP" /\ i2c'.of = i2c.of
          <5>1. EINVAL \in Int
            BY DEF EINVAL
          <5> QED
            BY <3>1, <3>5, <5>1, StoppedFacts
        <4>2. ctl' \in Commands
          BY <3>5 DEF Commands, Ops
        <4>3. BusTypes'
          BY <1>1, <1>2, <4>1, <4>2 DEF BusTypes
        <4>4. WaitBus'
          BY <1>1, <3>5, <4>1 DEF WaitBus, Active
        <4> QED
          BY <1>1, <1>3, <4>3, <4>4, BusFrame
      <3>6. CASE ~ i2c.of[c.msg].rd /\ i2c.of[c.msg].nostart /\ i2c' = c /\ ctl' = ctl /\ ipc' = ipc
        <4>1. ASSUME ~ EmptyReadGoesOn(msgs), cpc = "wait" PROVE UnderWay'
          <5>1. Msg' = i2c.of[c.msg] /\ i2c'.msg_ptr = 0 /\ i2c'.state = "WRITE" /\ i2c'.msg = c.msg
            BY <2>3, <3>1, <3>6, <4>1 DEF Msg
          <5>2. UpTo(i2c.msg_ptr)' = Before(msgs, c.msg) + Starts(msgs, c.msg) + 0
            BY <1>1, <5>1 DEF UpTo
          <5>3. Starts(msgs, c.msg) = 0
            BY <2>3, <3>6, <4>1 DEF Starts
          <5>4. Len(wire) = UpTo(i2c.msg_ptr)'
            BY <3>3, <4>1, <5>2, <5>3
          <5>5. Retrying'
            BY <1>1, <2>3, <3>6, <4>1, <5>1, <5>4 DEF Retrying
          <5> QED
            BY <1>1, <2>3, <4>1, <5>5 DEF UnderWay
        <4> QED
          BY <1>1, <1>2, <1>3, <2>1, <3>1, <3>6, <4>1, GoesOnWire
      <3> QED
        BY <3>2, <3>4, <3>5, <3>6
    <2> QED
      BY <1>5, <2>4, <2>5, <2>6
  <1> QED
    BY <1>1, <1>4, <1>5

\* The caller begins a transfer with nothing on the bus, and takes its result only
\* when it is over.
LEMMA CallerStepWire == I2cInv /\ BusInv /\ Caller => BusInv'
  <1> SUFFICES ASSUME I2cInv, BusInv, Caller PROVE BusInv'
    OBVIOUS
  <1>1. /\ i2c \in Structs /\ ctl \in Commands /\ wire \in Seq(BusEvents)
        /\ (cpc = "wait" => i2c.of = msgs) /\ irqen \in BOOLEAN /\ flag \in BOOLEAN /\ quiet \in BOOLEAN
    BY DEF I2cInv, I2cTypes, BusInv, BusTypes
  <1>2. cpc # "idle" => msgs \in Transfers /\ msgs \in Seq(Message) /\ Len(msgs) \in Nat
    BY I2cConstants DEF I2cInv, I2cTypes
  <1>3. ASSUME cpc' \notin {"wait", "busidle", "arb", "return"}, ctl' \in Commands, wire' = wire
        PROVE  BusInv'
    BY <1>1, <1>3 DEF BusInv, BusTypes, WaitBus, AfterBus
  <1>4. ASSUME NEW t \in Transfers, XferBegin(t) PROVE BusInv'
    BY <1>1, <1>3, <1>4 DEF XferBegin
  <1>5. CASE DoxferStart
    <2>1. /\ CpuInCaller /\ cpc = "master" /\ ipc' = ipc /\ irqen' = irqen /\ flag' = flag
          /\ i2c' = [i2c EXCEPT !.msg = 1, !.msg_num = Len(msgs), !.msg_ptr = 0,
                                !.msg_idx = 0, !.state = "START", !.of = msgs]
          /\ ctl' = [op |-> "START", m |-> 1, b |-> 0]
          /\ wire' = <<>> /\ nacked' = 0 /\ cpc' = "wait" /\ msgs' = msgs
      BY <1>5 DEF DoxferStart, Command
    <2>2. /\ msgs \in Seq(Message) /\ Len(msgs) \in Nat /\ 1 \in 1 .. Len(msgs) /\ ~ msgs[1].nostart
      BY <1>2, <2>1, I2cConstants
    <2>3. /\ i2c'.msg = 1 /\ i2c'.msg_ptr = 0 /\ i2c'.state = "START" /\ i2c'.of = msgs
          /\ "START" \in Active
      BY <1>1, <2>1 DEF Structs, Active
    <2>4. ctl' \in Commands /\ ctl'.op = "START" /\ ctl'.m = 1
      BY <2>1 DEF Commands, Ops
    <2>5. <<>> \in Seq(BusEvents) /\ Len(<<>>) = 0
      BY EmptySeq
    <2>6. BusTypes'
      BY <2>1, <2>3, <2>4, <2>5 DEF BusTypes
    <2>7. UnderWay'
      <3>1. CASE ~ irqen
        BY <2>1, <3>1 DEF CpuInCaller, UnderWay, Stuck
      <3>2. CASE irqen
        <4>1. ~ flag /\ ipc = "none"
          BY <2>1, <3>2 DEF CpuInCaller
        <4>2. Before(msgs, 1) = 0
          BY <2>2, BusTotals
        <4>3. Msg' = msgs[1]
          BY <2>3 DEF Msg
        <4>4. Commanded'
          BY <2>1, <2>2, <2>3, <2>4, <2>5, <4>1, <4>2, <4>3 DEF Commanded
        <4>5. InOrder(<<>>, msgs, 0)
          <5> SUFFICES ASSUME NEW j \in DOMAIN msgs, NEW i \in 1 .. Starts(msgs, j) + msgs[j].len
                       PROVE  ~ (Before(msgs, j) + i <= 0)
            BY DEF InOrder
          <5>1. j \in 1 .. Len(msgs)
            BY <2>2
          <5>2. Before(msgs, j) \in Nat /\ Starts(msgs, j) \in {0, 1} /\ msgs[j].len \in Nat
            BY <2>2, <5>1, BusTotals
          <5> QED
            BY <5>2
        <4> QED
          BY <2>1, <2>5, <4>4, <4>5 DEF UnderWay
      <3> QED
        BY <3>1, <3>2
    <2>8. WaitBus' /\ AfterBus'
      BY <2>1, <2>3, <2>7 DEF WaitBus, AfterBus
    <2> QED
      BY <2>6, <2>8 DEF BusInv
  <1>6. ASSUME UNCHANGED <<i2c, ipc, ctl, wire, nacked, msgs>>
        PROVE  Over' = Over /\ Result' = Result /\ EmptyReadGoesOn(msgs)' = EmptyReadGoesOn(msgs)
               /\ (cpc' # "wait" => BusTypes' /\ WaitBus')
    BY <1>1, <1>6 DEF Over, Result, EmptyReadGoesOn, BusTypes, WaitBus, Sent, All
  <1>7. CASE WaitDone
    <2>1. /\ ~ oops /\ ipc = "none" /\ cpc = "wait" /\ i2c.msg_num = 0 /\ ret' = i2c.msg_idx
          /\ cpc' = "busidle" /\ UNCHANGED <<i2c, ipc, ctl, wire, nacked, msgs>>
      BY <1>7 DEF WaitDone, CpuInCaller, drv, hw
    <2>2. i2c.state \notin Active
      BY <2>1, ActiveFacts DEF I2cInv
    <2>3. ~ EmptyReadGoesOn(msgs) => Over /\ i2c.msg_idx = Result
      BY <2>1, <2>2 DEF BusInv, WaitBus
    <2>4. ~ EmptyReadGoesOn(msgs) => AfterBus'
      BY <1>6, <2>1, <2>3 DEF AfterBus
    <2> QED
      BY <1>6, <2>1, <2>4 DEF BusInv
  <1>8. CASE WaitTimeout
    <2>1. /\ cpc = "wait" /\ i2c.msg_num # 0 /\ ret' = i2c.msg_idx /\ quiet' = FALSE
          /\ cpc' = "busidle" /\ UNCHANGED <<i2c, ipc, ctl, wire, nacked, msgs>>
      BY <1>8 DEF WaitTimeout, drv, hw
    <2>2. i2c.state \in Active
      BY <2>1 DEF I2cInv, MessageKnows
    <2>3. i2c.msg \in 1 .. Len(msgs) /\ i2c.msg_idx = i2c.msg - 1 /\ Len(msgs) \in Nat
      BY <2>1, <2>2, HereFacts
    <2>4. ret' # Len(msgs)
      BY <2>1, <2>3
    <2>5. AfterBus'
      BY <2>1, <2>4 DEF AfterBus
    <2> QED
      BY <1>6, <2>1, <2>5 DEF BusInv
  <1>9. CASE BusIdleWait \/ NoArbLoss
    <2>1. /\ cpc \in {"busidle", "arb"} /\ cpc' \in {"arb", "return"} /\ ret' = ret /\ (quiet' => quiet)
          /\ UNCHANGED <<i2c, ipc, ctl, wire, nacked, msgs>>
      <3>1. CASE BusIdleWait
        <4>1. /\ cpc = "busidle" /\ cpc' = "arb" /\ ret' = ret
              /\ UNCHANGED <<i2c, ipc, ctl, wire, nacked, msgs>>
          BY <3>1 DEF BusIdleWait, drv, hw
        <4>2. quiet' => quiet
          BY <3>1, Zenon DEF BusIdleWait
        <4> QED
          BY <4>1, <4>2
      <3>2. CASE NoArbLoss
        BY <3>2 DEF NoArbLoss, drv, hw
      <3> QED
        BY <1>9, <3>1, <3>2
    <2>2. ~ EmptyReadGoesOn(msgs) => AfterBus
      BY DEF BusInv
    <2>3. ~ EmptyReadGoesOn(msgs) => AfterBus'
      BY <1>6, <2>1, <2>2 DEF AfterBus
    <2>4. cpc' # "wait"
      BY <2>1
    <2> QED
      BY <1>6, <2>1, <2>3, <2>4 DEF BusInv
  <1>10. CASE ArbStop
    <2>1. cpc' = "hangup" /\ wire' = wire /\ ctl' = [op |-> "STOP", m |-> 0, b |-> 0]
      BY <1>10 DEF ArbStop, Command
    <2>2. ctl' \in Commands
      BY <2>1 DEF Commands, Ops
    <2> QED
      BY <1>3, <2>1, <2>2
  <1>11. CASE ArbHangup \/ MasterTimeout
    <2>1. /\ cpc # "idle" /\ cpc' = "return" /\ ret' = EAGAIN /\ quiet' = FALSE
          /\ UNCHANGED <<i2c, ipc, ctl, wire, nacked, msgs>>
      BY <1>11 DEF ArbHangup, MasterTimeout, drv, hw
    <2>2. ret' # Len(msgs)
      BY <1>2, <2>1 DEF EAGAIN
    <2>3. AfterBus'
      BY <2>1, <2>2 DEF AfterBus
    <2> QED
      BY <1>6, <2>1, <2>3 DEF BusInv
  <1>12. CASE XferReturn
    <2>1. cpc' \in {"master", "idle"} /\ wire' = wire /\ ctl' = ctl
      BY <1>12 DEF XferReturn, hw
    <2> QED
      BY <1>1, <1>3, <2>1
  <1> QED
    BY <1>4, <1>5, <1>7, <1>8, <1>9, <1>10, <1>11, <1>12 DEF Caller

\* What xfer reports is what happened on the bus: all messages in full and a STOP, or a
\* beginning of them, a STOP and the error of the byte that was refused; and a success is
\* real whatever arbitrations were lost and whatever timed out.
THEOREM I2cResultIsTrue == I2cSpec => []ResultIsTrue
  <1>1. I2cInit => BusInv
    <2> SUFFICES ASSUME I2cInit PROVE BusInv
      OBVIOUS
    <2>1. ctl = NoCmd /\ wire = <<>> /\ cpc = "idle"
      BY DEF I2cInit
    <2>2. NoCmd \in Commands
      BY DEF NoCmd, Commands, Ops
    <2>3. wire \in Seq(BusEvents)
      BY <2>1, EmptySeq
    <2> QED
      BY <2>1, <2>2, <2>3 DEF BusInv, BusTypes, WaitBus, AfterBus
  <1>2. I2cInv /\ BusInv /\ [I2cNext]_i2cvars => BusInv'
    <2>1. I2cInv /\ BusInv /\ I2cNext => BusInv'
      BY BusStepWire, IrqStepWire, ReadStepWire, RetryStepWire, CallerStepWire DEF I2cNext, I2cIrq
    <2>2. BusInv /\ UNCHANGED i2cvars => BusInv'
      <3> SUFFICES ASSUME BusInv, UNCHANGED i2cvars PROVE BusInv'
        OBVIOUS
      <3>1. /\ i2c' = i2c /\ irqen' = irqen /\ ipc' = ipc /\ ctl' = ctl /\ flag' = flag /\ stat' = stat
            /\ wire' = wire /\ nacked' = nacked /\ cpc' = cpc /\ msgs' = msgs /\ ret' = ret
            /\ oops' = oops /\ quiet' = quiet
        BY DEF i2cvars, drv, hw, thr
      <3>2. BusTypes' /\ (Over => Over')
        BY <3>1 DEF BusInv, BusTypes, Over, Sent, All
      <3>3. Msg' = Msg /\ UpTo(ctl.b)' = UpTo(ctl.b) /\ UpTo(i2c.msg_ptr)' = UpTo(i2c.msg_ptr)
            /\ UpTo(0)' = UpTo(0) /\ UpTo(i2c.msg_ptr + 1)' = UpTo(i2c.msg_ptr + 1)
            /\ Result' = Result
        BY <3>1 DEF Msg, UpTo, Result
      <3>4. UnderWay => UnderWay'
        BY <3>1, <3>3 DEF UnderWay, Stuck, Commanded, Flagged, Retrying, Refusal
      <3>5. ~ EmptyReadGoesOn(msgs) /\ cpc = "wait" => WaitBus'
        BY <3>1, <3>2, <3>3, <3>4 DEF BusInv, WaitBus
      <3> QED
        BY <3>1, <3>2, <3>5, BusFrame
    <2> QED
      BY <2>1, <2>2
  <1>3. I2cInv /\ BusInv => ResultIsTrue
    <2> SUFFICES ASSUME I2cInv, BusInv PROVE ResultIsTrue
      OBVIOUS
    <2>1. cpc = "return" => Len(msgs) \in Nat
      BY I2cConstants DEF I2cInv, I2cTypes
    <2>2. Len(wire) \in Nat
      BY DEF BusInv, BusTypes
    <2>3. ASSUME cpc = "return", quiet, ~ EmptyReadGoesOn(msgs)
          PROVE  /\ Len(wire) - 1 >= 0 /\ wire[Len(wire)] = <<"stop">>
                 /\ InOrder(wire, msgs, Len(wire) - 1)
                 /\ nacked = 0 => ret = Len(msgs) /\ Len(wire) - 1 = All
                 /\ nacked # 0 => ret = nacked /\ Len(wire) - 1 <= All
      <3>1. Over /\ ret = Result
        BY <2>3 DEF BusInv, AfterBus
      <3>2. ctl.op = "NONE"
        BY <2>3 DEF I2cInv, QuietKnows, QuietStates, AtRest
      <3>3. Sent = Len(wire) - 1 /\ Len(wire) > 0 /\ wire[Len(wire)] = <<"stop">>
        BY <3>1, <3>2 DEF Sent, Over
      <3>4. Len(wire) - 1 >= 0
        BY <2>2, <3>3
      <3> QED
        BY <3>1, <3>3, <3>4 DEF Over, Result
    <2>4. ResultMatchesBus
      BY <2>3 DEF ResultMatchesBus, All
    <2>5. ASSUME cpc = "return", ret = Len(msgs), ~ EmptyReadGoesOn(msgs)
          PROVE  nacked = 0 /\ Len(wire) >= All /\ InOrder(wire, msgs, All)
      <3>1. Over /\ ret = Result
        BY <2>5 DEF BusInv, AfterBus
      <3>2. nacked = 0
        BY <2>1, <2>5, <3>1 DEF Over, Result
      <3>3. Sent = All /\ InOrder(wire, msgs, All)
        BY <3>1, <3>2 DEF Over
      <3>4. Len(wire) >= Sent
        BY <2>2 DEF Sent
      <3> QED
        BY <3>2, <3>3, <3>4
    <2>6. SuccessIsReal
      BY <2>5 DEF SuccessIsReal, All
    <2> QED
      BY <2>4, <2>6 DEF ResultIsTrue
  <1>4. I2cSpec => []BusInv
    BY <1>1, <1>2, I2cInvariant, PTL DEF I2cSpec
  <1> QED
    BY <1>3, <1>4, I2cInvariant, PTL
=============================================================================

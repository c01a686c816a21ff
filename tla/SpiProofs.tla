----------------------------- MODULE SpiProofs -----------------------------
(***************************************************************************)
(* Proofs about Spi for every set of transfers, every length of a transfer *)
(* and any number of messages: TransferExact and MessageOnWire.            *)
(***************************************************************************)
EXTENDS Spi, TotalsProofs, SequenceTheorems, TLAPS

Hws  == [len : Nat, count : Nat, txnum : 0 .. 3, tx : BOOLEAN, into : BOOLEAN, rx : Seq(Nat)]
Regs == [go : BOOLEAN, ifl : BOOLEAN, TXNUM : 0 .. 3, tx : Seq(Int), rx : Seq(Nat)]

WorkerTypes ==
    /\ queue \in Seq(Messages) /\ (more => queue # <<>>)
    /\ busy \in BOOLEAN /\ more \in BOOLEAN /\ cs_change \in BOOLEAN /\ cs \in BOOLEAN
    /\ wpc \in {"idle", "xfer", "wait", "ret", "complete", "relock"}
    /\ wpc # "idle" => msg \in Seq(Transfers) /\ k \in 1 .. Len(msg)

ControllerTypes ==
    /\ hw \in Hws /\ hw.count <= hw.len /\ Len(hw.rx) <= hw.len
    /\ reg \in Regs /\ reg.TXNUM = hw.txnum /\ Len(reg.tx) <= 4
    /\ saved \in [go : BOOLEAN, ifl : BOOLEAN] /\ done \in 0 .. 1
    /\ ipc \in {"idle", "read", "ack"} /\ race \in {"no", "lost", "again"}

\* The worker between two steps: the chip is selected from the first word on,
\* busy is set while it is in its loop, and a transfer returns its own length.
WorkerKnows ==
    /\ busy <=> wpc # "idle"
    /\ wpc \in {"wait", "ret"} => cs
    /\ wpc = "xfer" => (cs \/ cs_change) /\ status = 0
    /\ wpc = "ret" => status = T.len

\* the answers to the first c words
Answers(c) == [i \in 1 .. c |-> i - 1]

\* the registers and the handler, with a burst to come or done ...
Flags(go, ifl) == reg.go = go /\ reg.ifl = ifl
Copy(go, ifl) == ipc = "ack" => saved.go = go /\ saved.ifl = ifl

\* ... while more words are to be sent: the burst runs or its interrupt is
\* pending; the handler has started the next burst, which may end before the
\* handler reads CNTRL (one that ends between the read and the write is started
\* again, and the invariant is given up) ...
BurstStates ==
    \/ race = "no" /\ ipc = "idle" /\ (Flags(TRUE, FALSE) \/ Flags(FALSE, TRUE))
    \/ race = "no" /\ ipc # "idle" /\ Flags(TRUE, FALSE) /\ Copy(TRUE, FALSE)
    \/ race = "lost" /\ ipc # "idle" /\ Flags(FALSE, TRUE) /\ Copy(FALSE, TRUE)
    \/ race = "lost" /\ ipc = "idle" /\ Flags(FALSE, FALSE)

\* ... and when all are sent, inside the handler and after it.
EndStates ==
    /\ race = "no"
    /\ \/ ipc # "idle" /\ Flags(FALSE, TRUE) /\ Copy(FALSE, TRUE)
       \/ ipc = "idle" /\ Flags(FALSE, FALSE)

\* In txrx: what has been counted has been answered, and the burst under way
\* does not go past the end.
TransferKnows ==
    wpc = "wait" =>
        /\ hw.len = T.len /\ hw.len > 0 /\ hw.tx = T.tx /\ hw.into = T.rx
        /\ hw.rx = IF T.rx THEN Answers(hw.count) ELSE <<>>
        /\ done = 0 => /\ BurstStates /\ hw.count + hw.txnum + 1 <= hw.len
                       /\ reg.ifl => reg.rx = [i \in 1 .. hw.txnum + 1 |-> hw.count + i - 1]
        /\ done = 1 => EndStates /\ hw.count = hw.len

\* Outside of it the controller is at rest.
RestKnows ==
    wpc # "wait" => done = 0 /\ ipc = "idle" /\ race = "no" /\ Flags(FALSE, FALSE)

SpiInv ==
    /\ WorkerTypes
    /\ ControllerTypes
    /\ WorkerKnows
    /\ TransferKnows
    /\ RestKnows
    /\ AnswersInPlace
-----------------------------------------------------------------------------
(* Messages and buffers *)

\* A message is a sequence of transfers with at least one of them.
LEMMA MessageFacts ==
  ASSUME NEW m \in Messages
  PROVE  m \in Seq(Transfers) /\ 1 \in 1 .. Len(m)
  <1>1. PerMessage \in Nat
    BY SpiConstants
  <1>2. PICK l \in 1 .. PerMessage : m \in [1 .. l -> Transfers]
    BY DEF Messages
  <1>3. l \in Nat /\ l >= 1
    BY <1>1
  <1>4. m \in Seq(Transfers) /\ Len(m) = l
    BY <1>2, <1>3
  <1> QED
    BY <1>3, <1>4

\* The fields of a transfer of a message.
LEMMA TransferFacts ==
  ASSUME NEW m \in Seq(Transfers), NEW j \in 1 .. Len(m)
  PROVE  /\ m[j].len \in Nat /\ m[j].tx \in BOOLEAN /\ m[j].rx \in BOOLEAN
         /\ m[j].cs_change \in BOOLEAN
  <1>1. m[j] \in Transfers
    BY ElementOfSeq
  <1> QED
    BY <1>1, SpiConstants

\* The answers of a burst continue those of the bursts before it.
LEMMA AnswersGrow ==
  ASSUME NEW c \in Nat, NEW t \in 0 .. 3, NEW r,
         r = [i \in 1 .. t + 1 |-> c + i - 1]
  PROVE  /\ Answers(c) \in Seq(Nat) /\ Len(Answers(c)) = c
         /\ Answers(c) \o SubSeq(r, 1, t + 1) = Answers(c + t + 1)
  <1> DEFINE a == Answers(c)
             b == Answers(c + t + 1)
  <1>1. \A j \in Nat : Answers(j) \in Seq(Nat) /\ Len(Answers(j)) = j
    <2> TAKE j \in Nat
    <2>1. \A i \in 1 .. j : i - 1 \in Nat
      OBVIOUS
    <2> QED
      BY <2>1 DEF Answers
  <1>2. /\ \A i \in 1 .. c : a[i] = i - 1
        /\ \A i \in 1 .. c + t + 1 : b[i] = i - 1
    BY DEF Answers
  <1>3. r \in Seq(Nat) /\ Len(r) = t + 1 /\ \A i \in 1 .. t + 1 : r[i] = c + i - 1
    <2>1. \A i \in 1 .. t + 1 : c + i - 1 \in Nat
      OBVIOUS
    <2> QED
      BY <2>1
  <1>4. SubSeq(r, 1, t + 1) = r
    BY <1>3
  <1>5. a \in Seq(Nat) /\ Len(a) = c /\ b \in Seq(Nat) /\ Len(b) = c + t + 1
    BY <1>1
  <1> HIDE DEF a, b
  <1>6. a \o r = b
    <2>1. /\ a \o r \in Seq(Nat) /\ Len(a \o r) = c + (t + 1)
          /\ \A i \in 1 .. c + (t + 1) : (a \o r)[i] = IF i <= c THEN a[i] ELSE r[i - c]
      BY SMTT(60), <1>3, <1>5, ConcatProperties
    <2>2. ASSUME NEW i \in 1 .. c + t + 1 PROVE (a \o r)[i] = b[i]
      <3>1. CASE i <= c
        BY <1>2, <2>1, <3>1
      <3>2. CASE i > c
        <4>1. i - c \in 1 .. t + 1 /\ ~ (i <= c)
          BY <3>2
        <4>2. (a \o r)[i] = r[i - c] /\ r[i - c] = c + (i - c) - 1
          BY <1>3, <2>1, <4>1
        <4>3. c + (i - c) - 1 = i - 1
          OBVIOUS
        <4>4. b[i] = i - 1
          BY <1>2
        <4> QED
          BY <4>2, <4>3, <4>4
      <3>3. i <= c \/ i > c
        OBVIOUS
      <3> QED
        BY <3>1, <3>2, <3>3
    <2>3. Len(a \o r) = Len(b) /\ Len(b) = c + t + 1
      BY <1>5, <2>1
    <2> QED
      BY <1>5, <2>1, <2>2, <2>3, SeqEqual
  <1> QED
    BY <1>4, <1>5, <1>6 DEF a, b

\* The words of a burst.
LEMMA LoadFacts ==
  ASSUME NEW t \in 0 .. 3, NEW first \in Nat, NEW tx
  PROVE  Load(t, first, tx) \in Seq(Int) /\ Len(Load(t, first, tx)) = t + 1
  <1>1. \A i \in 1 .. t + 1 : (IF tx THEN first + i - 1 ELSE ones) \in Int
    BY DEF ones
  <1> QED
    BY <1>1 DEF Load

\* The number of words of a burst stays within the registers and the transfer.
LEMMA NumFacts ==
  /\ \A len \in Nat \ {0} : FirstNum(len) \in 0 .. 3 /\ FirstNum(len) + 1 <= len
  /\ \A last \in Nat \ {0} :
        hw.txnum \in 0 .. 3 => NextNum(last) \in 0 .. 3 /\ NextNum(last) + 1 <= last
  BY DEF FirstNum, NextNum, Words
-----------------------------------------------------------------------------
(* Steps that leave a part alone *)

\* The controller's part of the invariant, while the worker stays where it is.
LEMMA ControllerSame ==
  ASSUME SpiInv, UNCHANGED <<hard, wpc, msg, k>>
  PROVE  ControllerTypes' /\ TransferKnows' /\ RestKnows' /\ AnswersInPlace'
  <1>1. /\ hw' = hw /\ reg' = reg /\ done' = done /\ ipc' = ipc /\ saved' = saved
        /\ race' = race /\ T' = T /\ wpc' = wpc
    BY DEF hard, T
  <1> QED
    BY <1>1 DEF SpiInv, ControllerTypes, TransferKnows, RestKnows, AnswersInPlace, BurstStates,
                EndStates, Flags, Copy

\* The same while the worker moves outside of txrx.
LEMMA ControllerAtRest ==
  ASSUME SpiInv, UNCHANGED hard, wpc # "wait", wpc' \notin {"wait", "ret"}
  PROVE  ControllerTypes' /\ TransferKnows' /\ RestKnows' /\ AnswersInPlace'
  <1>1. /\ hw' = hw /\ reg' = reg /\ done' = done /\ ipc' = ipc /\ saved' = saved
        /\ race' = race
    BY DEF hard
  <1> QED
    BY <1>1 DEF SpiInv, ControllerTypes, TransferKnows, RestKnows, AnswersInPlace, Flags

\* The next message is taken from the queue.
LEMMA TakeHeadFacts ==
  ASSUME queue \in Seq(Messages), queue # <<>>, TakeHead
  PROVE  /\ queue' \in Seq(Messages) /\ more' \in BOOLEAN /\ (more' => queue' # <<>>)
         /\ msg' \in Seq(Transfers) /\ k' \in 1 .. Len(msg') /\ cs_change' = TRUE
         /\ status' = 0 /\ wpc' = "xfer"
  <1>1. /\ msg' = Head(queue) /\ queue' = Tail(queue) /\ more' = (Len(queue) > 1)
        /\ k' = 1 /\ cs_change' = TRUE /\ status' = 0 /\ wpc' = "xfer"
    BY DEF TakeHead
  <1>2. Head(queue) \in Messages /\ Tail(queue) \in Seq(Messages) /\ Len(Tail(queue)) = Len(queue) - 1
    BY HeadTailProperties
  <1>3. more' => queue' # <<>>
    <2>1. ASSUME Len(queue) > 1 PROVE Tail(queue) # <<>>
      <3>1. Len(Tail(queue)) >= 1
        BY <1>2, <2>1
      <3> QED
        BY <3>1
    <2> QED
      BY <1>1, <2>1
  <1>4. msg' \in Seq(Transfers) /\ k' \in 1 .. Len(msg')
    BY <1>1, <1>2, MessageFacts
  <1> QED
    BY <1>1, <1>2, <1>3, <1>4
-----------------------------------------------------------------------------
(* The invariant *)

\* It holds when the driver is probed.
LEMMA SpiInitInv == SpiInit => SpiInv
  <1> SUFFICES ASSUME SpiInit PROVE SpiInv
    OBVIOUS
  <1> USE DEF SpiInit
  <1>1. <<>> \in Seq(Messages) /\ <<>> \in Seq(Nat) /\ <<>> \in Seq(Int) /\ Len(<<>>) = 0
    OBVIOUS
  <1>2. WorkerTypes
    BY <1>1 DEF WorkerTypes
  <1>3. ControllerTypes
    <2>1. hw \in Hws /\ hw.count = 0 /\ hw.len = 0 /\ hw.rx = <<>> /\ hw.txnum = 0
      BY <1>1 DEF Hws
    <2>2. reg \in Regs /\ reg.TXNUM = 0 /\ reg.tx = <<>>
      BY <1>1 DEF Regs
    <2>3. saved \in [go : BOOLEAN, ifl : BOOLEAN] /\ done \in 0 .. 1
      OBVIOUS
    <2>4. Len(hw.rx) = 0 /\ Len(reg.tx) = 0
      BY <1>1, <2>1, <2>2
    <2>5. ipc \in {"idle", "read", "ack"} /\ race \in {"no", "lost", "again"}
      OBVIOUS
    <2>6. hw.count <= hw.len /\ Len(hw.rx) <= hw.len /\ Len(reg.tx) <= 4 /\ reg.TXNUM = hw.txnum
      BY <2>1, <2>2, <2>4
    <2> QED
      BY <2>1, <2>2, <2>3, <2>5, <2>6, Zenon DEF ControllerTypes
  <1>4. WorkerKnows /\ TransferKnows /\ AnswersInPlace
    BY DEF WorkerKnows, TransferKnows, AnswersInPlace
  <1>5. RestKnows
    BY DEF RestKnows, Flags
  <1> QED
    BY <1>2, <1>3, <1>4, <1>5 DEF SpiInv

\* Every step of Next keeps the invariant.
LEMMA SpiStepInv ==
  ASSUME SpiInv, [SpiNext]_vars, race # "again", race' # "again"
  PROVE  SpiInv'
  <1>1. /\ WorkerTypes /\ ControllerTypes /\ WorkerKnows /\ TransferKnows /\ RestKnows
        /\ AnswersInPlace
    BY DEF SpiInv
  <1>2. /\ hw \in Hws /\ hw.len \in Nat /\ hw.count \in Nat /\ hw.txnum \in 0 .. 3
        /\ hw.rx \in Seq(Nat)
        /\ reg \in Regs /\ reg.go \in BOOLEAN /\ reg.ifl \in BOOLEAN
    BY <1>1 DEF ControllerTypes, Hws, Regs
  <1>3. ASSUME wpc # "idle"
        PROVE  /\ T.len \in Nat /\ T.tx \in BOOLEAN /\ T.rx \in BOOLEAN /\ T.cs_change \in BOOLEAN
    BY <1>1, <1>3, TransferFacts DEF WorkerTypes, T
  <1>4. ASSUME NEW m \in Messages, Submit(m) PROVE SpiInv'
    <2>1. queue' = Append(queue, m) /\ UNCHANGED <<busy, worker, cs, hard>>
      BY <1>4 DEF Submit
    <2>2. ControllerTypes' /\ TransferKnows' /\ RestKnows' /\ AnswersInPlace'
      BY <2>1, ControllerSame DEF worker
    <2>3. WorkerTypes'
      <3>1. queue' \in Seq(Messages) /\ queue' # <<>>
        BY <1>1, <2>1 DEF WorkerTypes
      <3> QED
        BY <1>1, <2>1, <3>1 DEF WorkerTypes, worker
    <2>4. WorkerKnows'
      BY <1>1, <2>1 DEF WorkerKnows, worker, T
    <2> QED
      BY <2>2, <2>3, <2>4 DEF SpiInv
  <1>5. CASE Setup
    <2>1. cs' = (cs /\ busy) /\ UNCHANGED <<queue, busy, worker, hard>>
      BY <1>5 DEF Setup
    <2>2. ControllerTypes' /\ TransferKnows' /\ RestKnows' /\ AnswersInPlace'
      BY <2>1, ControllerSame DEF worker
    <2>3. WorkerTypes'
      BY <1>1, <2>1 DEF WorkerTypes, worker
    <2>4. WorkerKnows'
      BY <1>1, <2>1 DEF WorkerKnows, WorkerTypes, worker, T
    <2> QED
      BY <2>2, <2>3, <2>4 DEF SpiInv
  <1>6. CASE WorkBegin
    <2>1. wpc = "idle" /\ UNCHANGED <<cs, hard>>
      BY <1>6 DEF WorkBegin
    <2>2. CASE queue = <<>> /\ UNCHANGED <<queue, busy, worker, wire>>
      <3>1. ControllerTypes' /\ TransferKnows' /\ RestKnows' /\ AnswersInPlace'
        BY <2>1, <2>2, ControllerSame DEF worker
      <3>2. WorkerTypes' /\ WorkerKnows'
        BY <1>1, <2>1, <2>2 DEF WorkerTypes, WorkerKnows, worker, T
      <3> QED
        BY <3>1, <3>2 DEF SpiInv
    <2>3. CASE queue # <<>> /\ busy' = TRUE /\ TakeHead
      <3>1. /\ queue' \in Seq(Messages) /\ more' \in BOOLEAN /\ (more' => queue' # <<>>)
            /\ msg' \in Seq(Transfers) /\ k' \in 1 .. Len(msg') /\ cs_change' = TRUE
            /\ status' = 0 /\ wpc' = "xfer"
        BY <1>1, <2>3, TakeHeadFacts DEF WorkerTypes
      <3>2. ControllerTypes' /\ TransferKnows' /\ RestKnows' /\ AnswersInPlace'
        BY <2>1, <3>1, ControllerAtRest
      <3>3. WorkerTypes' /\ WorkerKnows'
        BY <1>1, <2>1, <2>3, <3>1 DEF WorkerTypes, WorkerKnows
      <3> QED
        BY <3>2, <3>3 DEF SpiInv
    <2> QED
      BY <1>6, <2>2, <2>3 DEF WorkBegin
  <1>7. CASE Xfer
    <2>1. /\ wpc = "xfer" /\ cs' = (cs \/ cs_change) /\ cs_change' = T.cs_change
          /\ UNCHANGED <<queue, busy, msg, k, more, done, ipc, saved, race>>
      BY <1>7 DEF Xfer
    <2>2. /\ T.len \in Nat /\ T.tx \in BOOLEAN /\ T.rx \in BOOLEAN /\ T.cs_change \in BOOLEAN
          /\ T' = T /\ (cs \/ cs_change) /\ cs' = TRUE /\ status = 0 /\ busy = TRUE
      BY <1>1, <1>3, <2>1 DEF T, WorkerKnows, WorkerTypes
    <2>3. /\ done = 0 /\ ipc = "idle" /\ race = "no" /\ reg.go = FALSE /\ reg.ifl = FALSE
      BY <1>1, <2>1 DEF RestKnows, Flags
    <2>4. ASSUME wpc' \in {"ret", "complete", "wait"} PROVE WorkerTypes'
      BY <1>1, <2>1, <2>2, <2>4 DEF WorkerTypes
    <2>5. CASE T.len = 0
      <3>1. wpc' = "ret" /\ UNCHANGED <<status, hw, reg>>
        BY <1>7, <2>5 DEF Xfer
      <3>2. ControllerTypes' /\ RestKnows' /\ TransferKnows' /\ AnswersInPlace'
        BY <1>1, <2>1, <2>2, <2>5, <3>1
           DEF ControllerTypes, RestKnows, TransferKnows, AnswersInPlace, Flags
      <3>3. WorkerKnows'
        BY <2>1, <2>2, <2>5, <3>1 DEF WorkerKnows
      <3> QED
        BY <2>4, <3>1, <3>2, <3>3 DEF SpiInv
    <2>6. CASE T.len > 0 /\ ~ T.tx /\ ~ T.rx
      <3>1. wpc' = "complete" /\ UNCHANGED <<hw, reg>>
        BY <1>7, <2>2, <2>6 DEF Xfer
      <3>2. ControllerTypes' /\ RestKnows' /\ TransferKnows' /\ AnswersInPlace'
        BY <1>1, <2>1, <2>2, <2>6, <3>1
           DEF ControllerTypes, RestKnows, TransferKnows, AnswersInPlace, Flags
      <3>3. WorkerKnows'
        BY <2>1, <2>2, <3>1 DEF WorkerKnows
      <3> QED
        BY <2>4, <3>1, <3>2, <3>3 DEF SpiInv
    <2>7. CASE T.len > 0 /\ (T.tx \/ T.rx)
      <3> DEFINE num == FirstNum(T.len)
      <3>1. /\ wpc' = "wait"
            /\ hw' = [len |-> T.len, count |-> 0, txnum |-> num, tx |-> T.tx, into |-> T.rx,
                       rx |-> <<>>]
            /\ reg' = gobusy(reg, num, Load(num, 0, T.tx))
        BY <1>7, <2>2, <2>7 DEF Xfer, txrx
      <3>2. num \in 0 .. 3 /\ num + 1 <= T.len
        BY <2>2, <2>7, NumFacts
      <3> HIDE DEF num
      <3> DEFINE words == Load(num, 0, T.tx)
      <3>3. words \in Seq(Int) /\ Len(words) = num + 1
        BY <3>2, LoadFacts
      <3> HIDE DEF words
      <3>4. /\ reg' \in Regs /\ reg'.go = TRUE /\ reg'.ifl = FALSE /\ reg'.TXNUM = num
            /\ reg'.tx = words
        BY <1>2, <3>1, <3>2, <3>3 DEF gobusy, Regs, words
      <3>5. /\ hw'.len = T.len /\ hw'.count = 0 /\ hw'.txnum = num /\ hw'.rx = <<>>
            /\ hw' \in Hws /\ hw'.tx = T.tx /\ hw'.into = T.rx
        BY <2>2, <3>1, <3>2 DEF Hws
      <3>6. Len(hw'.rx) = 0 /\ Answers(0) = <<>>
        BY <3>5 DEF Answers
      <3>7. ControllerTypes'
        <4>1. hw'.count <= hw'.len /\ Len(hw'.rx) <= hw'.len /\ Len(reg'.tx) <= 4
          BY <2>2, <3>2, <3>3, <3>4, <3>5, <3>6
        <4> QED
          BY <1>1, <2>1, <3>4, <3>5, <4>1 DEF ControllerTypes
      <3>8. TransferKnows'
        <4>1. BurstStates'
          BY <2>1, <2>3, <3>4 DEF BurstStates, Flags
        <4>2. hw'.count + hw'.txnum + 1 <= hw'.len /\ hw'.len > 0
          BY <2>2, <2>7, <3>2, <3>5
        <4>3. hw'.rx = IF T.rx THEN Answers(hw'.count) ELSE <<>>
          BY <3>5, <3>6
        <4> QED
          BY <2>1, <2>2, <2>3, <3>4, <3>5, <4>1, <4>2, <4>3 DEF TransferKnows
      <3>9. WorkerKnows' /\ RestKnows' /\ AnswersInPlace'
        BY <2>1, <2>2, <3>1 DEF WorkerKnows, RestKnows, AnswersInPlace
      <3> QED
        BY <2>4, <3>1, <3>7, <3>8, <3>9 DEF SpiInv
    <2> QED
      BY <2>2, <2>5, <2>6, <2>7
  <1>8. CASE txrx_return
    <2>1. /\ wpc = "wait" /\ ipc = "idle" /\ done > 0 /\ done' = done - 1 /\ status' = hw.count
          /\ wpc' = "ret"
          /\ UNCHANGED <<queue, busy, msg, k, more, cs_change, cs, hw, reg, ipc, saved, race>>
      BY <1>8 DEF txrx_return, HandlerIdle
    <2>2. done = 1 /\ done' = 0
      BY <1>1, <2>1 DEF ControllerTypes
    <2>3. /\ hw.count = hw.len /\ hw.len = T.len /\ EndStates /\ T' = T
          /\ hw.rx = IF T.rx THEN Answers(hw.count) ELSE <<>>
      BY <1>1, <2>1, <2>2 DEF TransferKnows, T
    <2>4. ControllerTypes' /\ WorkerTypes'
      BY <1>1, <2>1, <2>2 DEF ControllerTypes, WorkerTypes
    <2>5. WorkerKnows' /\ TransferKnows'
      BY <1>1, <2>1, <2>3 DEF WorkerKnows, TransferKnows
    <2>6. RestKnows'
      BY <2>1, <2>2, <2>3 DEF RestKnows, EndStates, Flags
    <2>7. AnswersInPlace'
      BY <2>1, <2>3 DEF AnswersInPlace, Answers
    <2> QED
      BY <2>4, <2>5, <2>6, <2>7 DEF SpiInv
  <1>9. CASE Ret
    <2>1. /\ wpc = "ret" /\ status = T.len
          /\ UNCHANGED <<queue, busy, msg, more, cs_change, hard>>
      BY <1>1, <1>9 DEF Ret, WorkerKnows
    <2>2. CASE k < Len(msg)
      <3>1. status' = 0 /\ k' = k + 1 /\ wpc' = "xfer" /\ cs' = (cs /\ ~ cs_change)
        BY <1>9, <2>1, <2>2 DEF Ret
      <3>2. k' \in 1 .. Len(msg) /\ msg \in Seq(Transfers)
        BY <1>1, <2>1, <2>2, <3>1 DEF WorkerTypes
      <3>3. ControllerTypes' /\ TransferKnows' /\ RestKnows' /\ AnswersInPlace'
        BY <2>1, <3>1, ControllerAtRest
      <3>4. WorkerTypes' /\ WorkerKnows'
        BY <1>1, <2>1, <3>1, <3>2 DEF WorkerTypes, WorkerKnows
      <3> QED
        BY <3>3, <3>4 DEF SpiInv
    <2>3. CASE ~ (k < Len(msg))
      <3>1. wpc' = "complete" /\ UNCHANGED <<k, cs>>
        BY <1>9, <2>1, <2>3 DEF Ret
      <3>2. ControllerTypes' /\ TransferKnows' /\ RestKnows' /\ AnswersInPlace'
        BY <2>1, <3>1, ControllerAtRest
      <3>3. WorkerTypes' /\ WorkerKnows'
        BY <1>1, <2>1, <3>1 DEF WorkerTypes, WorkerKnows
      <3> QED
        BY <3>2, <3>3 DEF SpiInv
    <2> QED
      BY <2>2, <2>3
  <1>10. CASE Complete
    <2>1. /\ wpc = "complete" /\ wpc' = "relock" /\ cs' = (cs /\ status = 0 /\ cs_change)
          /\ UNCHANGED <<queue, busy, msg, k, more, cs_change, hard>>
      BY <1>10 DEF Complete
    <2>2. ControllerTypes' /\ TransferKnows' /\ RestKnows' /\ AnswersInPlace'
      BY <2>1, ControllerAtRest
    <2>3. WorkerTypes' /\ WorkerKnows'
      BY <1>1, <2>1 DEF WorkerTypes, WorkerKnows
    <2> QED
      BY <2>2, <2>3 DEF SpiInv
  <1>11. CASE Relock
    <2>1. wpc = "relock" /\ UNCHANGED <<cs, hard>>
      BY <1>11 DEF Relock
    <2>2. CASE more
      <3>1. TakeHead /\ UNCHANGED busy
        BY <1>11, <2>2 DEF Relock
      <3>2. /\ queue' \in Seq(Messages) /\ more' \in BOOLEAN /\ (more' => queue' # <<>>)
            /\ msg' \in Seq(Transfers) /\ k' \in 1 .. Len(msg') /\ cs_change' = TRUE
            /\ status' = 0 /\ wpc' = "xfer"
        BY <1>1, <2>2, <3>1, TakeHeadFacts DEF WorkerTypes
      <3>3. ControllerTypes' /\ TransferKnows' /\ RestKnows' /\ AnswersInPlace'
        BY <2>1, <3>2, ControllerAtRest
      <3>4. WorkerTypes' /\ WorkerKnows'
        BY <1>1, <2>1, <3>1, <3>2 DEF WorkerTypes, WorkerKnows
      <3> QED
        BY <3>3, <3>4 DEF SpiInv
    <2>3. CASE ~ more
      <3>1. wpc' = "idle" /\ busy' = FALSE /\ UNCHANGED <<queue, msg, k, more, cs_change>>
        BY <1>11, <2>3 DEF Relock
      <3>2. ControllerTypes' /\ TransferKnows' /\ RestKnows' /\ AnswersInPlace'
        BY <2>1, <3>1, ControllerAtRest
      <3>3. WorkerTypes' /\ WorkerKnows'
        BY <1>1, <2>1, <3>1 DEF WorkerTypes, WorkerKnows
      <3> QED
        BY <3>2, <3>3 DEF SpiInv
    <2> QED
      BY <2>2, <2>3
  <1>12. ASSUME UNCHANGED <<queue, busy, worker, cs>> PROVE WorkerTypes' /\ WorkerKnows' /\ T' = T
    BY <1>1, <1>12 DEF WorkerTypes, WorkerKnows, worker, T
  <1>13. ASSUME wpc = "wait"
         PROVE  /\ hw.len = T.len /\ hw.len > 0 /\ hw.count <= hw.len /\ T.rx \in BOOLEAN
                /\ hw.tx = T.tx /\ hw.into = T.rx
                /\ hw.rx = IF T.rx THEN Answers(hw.count) ELSE <<>>
                /\ done \in 0 .. 1
                /\ done = 0 => /\ BurstStates /\ hw.count + hw.txnum + 1 <= hw.len
                               /\ reg.ifl => reg.rx = [i \in 1 .. hw.txnum + 1 |-> hw.count + i - 1]
                /\ done = 1 => EndStates /\ hw.count = hw.len
    BY <1>1, <1>3, <1>13 DEF TransferKnows, ControllerTypes
  <1>14. CASE IrqServe
    <2> DEFINE count == hw.count + hw.txnum + 1
               last == hw.len - count
               num == NextNum(last)
               words == Load(num, count, hw.tx)
    <2>1. /\ ipc = "idle" /\ reg.ifl /\ ipc' = "read"
          /\ UNCHANGED <<queue, busy, worker, cs, saved, race>>
      BY <1>14 DEF IrqServe
    <2>2. wpc = "wait" /\ wpc' = wpc
      BY <1>1, <2>1 DEF RestKnows, Flags, worker
    <2>3. done = 0
      BY <1>13, <2>1, <2>2 DEF EndStates, Flags
    <2>4. race = "no" /\ reg.go = FALSE
      BY <1>13, <2>1, <2>2, <2>3 DEF BurstStates, Flags
    <2>5. /\ count \in Nat /\ last \in Nat /\ count <= hw.len
          /\ reg.rx = [i \in 1 .. hw.txnum + 1 |-> hw.count + i - 1]
      <3>1. /\ hw.count + hw.txnum + 1 <= hw.len
            /\ reg.rx = [i \in 1 .. hw.txnum + 1 |-> hw.count + i - 1]
        BY <1>13, <2>1, <2>2, <2>3, Zenon
      <3>2. \A a, b, l \in Nat : a + b + 1 <= l => a + b + 1 \in Nat /\ l - (a + b + 1) \in Nat
        OBVIOUS
      <3>3. hw.count \in Nat /\ hw.txnum \in Nat /\ hw.len \in Nat
        BY <1>2
      <3>4. count \in Nat /\ last \in Nat /\ count <= hw.len
        BY <3>1, <3>2, <3>3, Zenon
      <3> QED
        BY <3>1, <3>4, Zenon
    <2>6. /\ Received = IF T.rx THEN Answers(count) ELSE <<>>
          /\ Received \in Seq(Nat) /\ Len(Received) <= count
      <3>1. CASE T.rx
        <4>1. hw.rx \o SubSeq(reg.rx, 1, hw.txnum + 1) = Answers(count)
          <5>1. hw.rx = Answers(hw.count)
            BY <1>13, <2>2, <3>1
          <5>2. /\ hw.count \in Nat /\ hw.txnum \in 0 .. 3
                /\ reg.rx = [i \in 1 .. hw.txnum + 1 |-> hw.count + i - 1]
            BY <1>2, <2>5
          <5>3. Answers(hw.count) \o SubSeq(reg.rx, 1, hw.txnum + 1) = Answers(hw.count + hw.txnum + 1)
            BY <5>2, AnswersGrow, Zenon
          <5> QED
            BY <5>1, <5>3
        <4>2. Answers(count) \in Seq(Nat) /\ Len(Answers(count)) = count
          <5>1. \A i \in 1 .. count : i - 1 \in Nat
            BY <2>5
          <5> QED
            BY <2>5, <5>1 DEF Answers
        <4>3. Received = Answers(count)
          BY <1>13, <2>2, <3>1, <4>1 DEF Received
        <4> QED
          BY <2>5, <3>1, <4>2, <4>3
      <3>2. CASE ~ T.rx
        <4>1. Received = <<>>
          BY <1>13, <2>2, <3>2 DEF Received
        <4> QED
          BY <2>5, <3>2, <4>1
      <3> QED
        BY <3>1, <3>2
    <2>7. WorkerTypes' /\ WorkerKnows' /\ T' = T
      BY <1>12, <2>1
    <2>8. RestKnows' /\ AnswersInPlace'
      BY <2>2 DEF RestKnows, AnswersInPlace
    <2>9. CASE last # 0
      <3>1. /\ hw' = [[hw EXCEPT !.count = count, !.rx = Received] EXCEPT !.txnum = num]
            /\ reg' = gobusy(reg, num, words) /\ done' = done
        BY <1>14, <2>9 DEF IrqServe
      <3>2. num \in 0 .. 3 /\ num + 1 <= last
        BY <1>2, <2>5, <2>9, NumFacts
      <3> HIDE DEF num
      <3>3. words \in Seq(Int) /\ Len(words) = num + 1
        BY <2>5, <3>2, LoadFacts
      <3> HIDE DEF words
      <3>4. /\ reg' \in Regs /\ reg'.go = TRUE /\ reg'.ifl = FALSE /\ reg'.TXNUM = num
            /\ reg'.tx = words
        BY <1>2, <3>1, <3>2, <3>3 DEF gobusy, Regs
      <3>5. /\ hw'.len = hw.len /\ hw'.count = count /\ hw'.txnum = num /\ hw'.rx = Received
            /\ hw' \in Hws /\ hw'.tx = hw.tx /\ hw'.into = hw.into
        <4> HIDE DEF count
        <4> QED
          BY <1>2, <2>5, <2>6, <3>1, <3>2 DEF Hws
      <3>6. ControllerTypes'
        <4>1. hw'.count <= hw'.len /\ Len(hw'.rx) <= hw'.len /\ Len(reg'.tx) <= 4
          <5>1. Len(Received) \in Nat
            BY <2>6
          <5> HIDE DEF count
          <5> QED
            BY <1>2, <2>5, <2>6, <3>2, <3>3, <3>4, <3>5, <5>1
        <4> QED
          BY <1>1, <2>1, <3>1, <3>4, <3>5, <4>1 DEF ControllerTypes
      <3>7. TransferKnows'
        <4>1. BurstStates'
          BY <2>1, <2>4, <3>4 DEF BurstStates, Flags, Copy
        <4>2. hw'.count + hw'.txnum + 1 <= hw'.len
          BY <1>2, <2>5, <3>2, <3>5
        <4> HIDE DEF count
        <4> QED
          BY <1>13, <2>2, <2>3, <2>6, <2>7, <3>1, <3>4, <3>5, <4>1, <4>2 DEF TransferKnows
      <3> QED
        BY <2>7, <2>8, <3>6, <3>7 DEF SpiInv
    <2>10. CASE last = 0
      <3>1. /\ hw' = [hw EXCEPT !.count = count, !.rx = Received]
            /\ reg' = reg /\ done' = done + 1
        BY <1>14, <2>10 DEF IrqServe
      <3>2. done' = 1 /\ count = hw.len
        BY <1>2, <2>3, <2>5, <2>10, <3>1
      <3>3. /\ hw'.len = hw.len /\ hw'.count = count /\ hw'.txnum = hw.txnum /\ hw'.rx = Received
            /\ hw' \in Hws /\ hw'.tx = hw.tx /\ hw'.into = hw.into
        <4> HIDE DEF count
        <4> QED
          BY <1>2, <2>5, <2>6, <3>1 DEF Hws
      <3> HIDE DEF count
      <3>4. ControllerTypes'
        <4>1. hw'.count <= hw'.len /\ Len(hw'.rx) <= hw'.len
          BY <1>2, <2>5, <2>6, <3>2, <3>3
        <4> QED
          BY <1>1, <2>1, <3>1, <3>2, <3>3, <4>1 DEF ControllerTypes
      <3>5. TransferKnows'
        <4>1. EndStates'
          BY <2>1, <2>4, <3>1 DEF EndStates, Flags, Copy
        <4> QED
          BY <1>13, <2>2, <2>6, <2>7, <3>2, <3>3, <4>1 DEF TransferKnows
      <3> QED
        BY <2>7, <2>8, <3>4, <3>5 DEF SpiInv
    <2> QED
      BY <2>9, <2>10
  <1>15. CASE IrqRead
    <2>1. /\ ipc = "read" /\ saved' = [go |-> reg.go, ifl |-> reg.ifl] /\ ipc' = "ack"
          /\ UNCHANGED <<queue, busy, worker, cs, hw, reg, done, race>>
      BY <1>15 DEF IrqRead
    <2>2. wpc = "wait" /\ wpc' = wpc
      BY <1>1, <2>1 DEF RestKnows, worker
    <2>3. WorkerTypes' /\ WorkerKnows' /\ T' = T
      BY <1>12, <2>1
    <2>4. RestKnows' /\ AnswersInPlace'
      BY <2>2 DEF RestKnows, AnswersInPlace
    <2>5. ControllerTypes'
      BY <1>1, <1>2, <2>1 DEF ControllerTypes
    <2>6. BurstStates => BurstStates'
      BY <1>2, <2>1 DEF BurstStates, Flags, Copy
    <2>7. EndStates => EndStates'
      BY <1>2, <2>1 DEF EndStates, Flags, Copy
    <2>8. TransferKnows'
      BY <1>13, <2>1, <2>2, <2>3, <2>6, <2>7 DEF TransferKnows
    <2> QED
      BY <2>3, <2>4, <2>5, <2>8 DEF SpiInv
  <1>16. CASE IrqAck
    <2>1. /\ ipc = "ack" /\ reg' = Acknowledged(reg) /\ ipc' = "idle"
          /\ UNCHANGED <<queue, busy, worker, cs, hw, done, saved, race>>
      BY <1>16 DEF IrqAck
    <2>2. wpc = "wait" /\ wpc' = wpc
      BY <1>1, <2>1 DEF RestKnows, worker
    <2>3. WorkerTypes' /\ WorkerKnows' /\ T' = T
      BY <1>12, <2>1
    <2>4. RestKnows' /\ AnswersInPlace'
      BY <2>2 DEF RestKnows, AnswersInPlace
    <2>5. /\ reg' \in Regs /\ reg'.ifl = (reg.ifl /\ ~ saved.ifl) /\ reg'.go = (reg.go \/ saved.go)
          /\ reg'.TXNUM = reg.TXNUM /\ reg'.tx = reg.tx /\ reg'.rx = reg.rx
          /\ saved.go \in BOOLEAN /\ saved.ifl \in BOOLEAN
      BY <1>1, <1>2, <2>1 DEF Acknowledged, Regs, ControllerTypes
    <2>6. ControllerTypes'
      BY <1>1, <2>1, <2>5 DEF ControllerTypes
    <2>7. BurstStates => BurstStates'
      BY <1>2, <2>1, <2>5 DEF BurstStates, Flags, Copy
    <2>8. EndStates => EndStates'
      BY <1>2, <2>1, <2>5 DEF EndStates, Flags, Copy
    <2>9. TransferKnows'
      BY <1>13, <2>1, <2>2, <2>3, <2>5, <2>7, <2>8 DEF TransferKnows
    <2> QED
      BY <2>3, <2>4, <2>6, <2>9 DEF SpiInv
  <1>17. CASE BurstEnd
    <2> DEFINE rx == [i \in 1 .. reg.TXNUM + 1 |-> hw.count + i - 1]
    <2>1. /\ reg.go
          /\ reg' = [reg EXCEPT !.go = FALSE, !.ifl = TRUE, !.rx = rx]
          /\ race' = IF ipc = "idle" THEN race ELSE IF ipc = "read" THEN "lost" ELSE "again"
          /\ UNCHANGED <<queue, busy, worker, cs, hw, done, ipc, saved>>
      BY <1>17 DEF BurstEnd
    <2>2. wpc = "wait" /\ wpc' = wpc
      BY <1>1, <2>1 DEF RestKnows, Flags, worker
    <2>3. WorkerTypes' /\ WorkerKnows' /\ T' = T
      BY <1>12, <2>1
    <2>4. RestKnows' /\ AnswersInPlace'
      BY <2>2 DEF RestKnows, AnswersInPlace
    <2>5. reg.TXNUM = hw.txnum /\ rx \in Seq(Nat)
      <3>1. reg.TXNUM = hw.txnum
        BY <1>1 DEF ControllerTypes
      <3>2. \A i \in 1 .. reg.TXNUM + 1 : hw.count + i - 1 \in Nat
        BY <1>2, <3>1
      <3>3. reg.TXNUM + 1 \in Nat
        BY <1>2, <3>1
      <3> QED
        BY <3>1, <3>2, <3>3
    <2>6. rx = [i \in 1 .. hw.txnum + 1 |-> hw.count + i - 1]
      BY <2>5
    <2> HIDE DEF rx
    <2>7. /\ reg' \in Regs /\ reg'.go = FALSE /\ reg'.ifl = TRUE /\ reg'.rx = rx
          /\ reg'.TXNUM = reg.TXNUM /\ reg'.tx = reg.tx
      BY <1>2, <2>1, <2>5 DEF Regs
    <2>8. ControllerTypes'
      BY <1>1, <2>1, <2>7 DEF ControllerTypes
    <2>9. done = 0
      BY <1>13, <2>1, <2>2 DEF EndStates, Flags
    <2>10. BurstStates'
      <3>1. ipc \in {"idle", "read", "ack"} /\ BurstStates
        BY <1>1, <1>13, <2>2, <2>9 DEF ControllerTypes
      <3>2. race = "no"
        BY <2>1, <3>1 DEF BurstStates, Flags
      <3> QED
        BY <2>1, <2>7, <3>1, <3>2 DEF BurstStates, Flags, Copy
    <2>11. TransferKnows'
      BY <1>13, <2>1, <2>2, <2>3, <2>6, <2>7, <2>9, <2>10 DEF TransferKnows
    <2> QED
      BY <2>3, <2>4, <2>8, <2>11 DEF SpiInv
  <1>18. CASE UNCHANGED vars
    <2>1. UNCHANGED <<queue, busy, worker, cs, hard>>
      BY <1>18 DEF vars
    <2>2. WorkerTypes' /\ WorkerKnows'
      BY <1>12, <2>1
    <2>3. ControllerTypes' /\ TransferKnows' /\ RestKnows' /\ AnswersInPlace'
      BY <2>1, ControllerSame DEF worker
    <2> QED
      BY <2>2, <2>3 DEF SpiInv
  <1> QED
    BY <1>4, <1>5, <1>6, <1>7, <1>8, <1>9, <1>10, <1>11, <1>14, <1>15, <1>16, <1>17, <1>18
       DEF SpiNext, Worker, Handler

\* Once a burst has been started again that is never forgotten.
LEMMA AgainStays == race = "again" /\ [SpiNext]_vars => race' = "again"
  <1> SUFFICES ASSUME race = "again", [SpiNext]_vars PROVE race' = "again"
    OBVIOUS
  <1>1. ASSUME NEW m \in Messages, Submit(m) PROVE race' = "again"
    BY <1>1 DEF Submit, hard
  <1>2. CASE Setup
    BY <1>2 DEF Setup, hard
  <1>3. CASE Worker
    <2>1. UNCHANGED race
      BY <1>3 DEF Worker, WorkBegin, Xfer, txrx_return, Ret, Complete, Relock, hard
    <2> QED
      BY <2>1
  <1>4. CASE Handler
    BY <1>4 DEF Handler, IrqServe, IrqRead, IrqAck
  <1>5. CASE BurstEnd
    BY <1>5 DEF BurstEnd
  <1>6. CASE UNCHANGED vars
    BY <1>6 DEF vars, hard
  <1> QED
    BY <1>1, <1>2, <1>3, <1>4, <1>5, <1>6 DEF SpiNext

\* The inductive invariant holds in every reachable state until then.
THEOREM SpiInvariant == SpiSpec => [](race # "again" => SpiInv)
  <1>1. (race # "again" => SpiInv) /\ [SpiNext]_vars => (race # "again" => SpiInv)'
    BY SpiStepInv, AgainStays
  <1> QED
    BY <1>1, SpiInitInv, PTL DEF SpiSpec
-----------------------------------------------------------------------------
(* Types, which no race disturbs *)

\* the registers and the handler, out of step or not
HardTypes ==
    /\ hw \in Hws /\ reg \in Regs /\ reg.TXNUM = hw.txnum /\ Len(reg.tx) <= 4
    /\ reg.ifl => Len(reg.rx) = hw.txnum + 1
    /\ ipc \in {"idle", "read", "ack"} /\ race \in {"no", "lost", "again"}
    /\ saved \in [go : BOOLEAN, ifl : BOOLEAN]

SpiTypes == WorkerTypes /\ HardTypes

\* The types hold when the driver is probed and every step keeps them.
LEMMA SpiTypesStep == SpiTypes /\ [SpiNext]_vars => SpiTypes'
  <1> SUFFICES ASSUME SpiTypes, [SpiNext]_vars PROVE SpiTypes'
    OBVIOUS
  <1>1. WorkerTypes /\ HardTypes
    BY DEF SpiTypes
  <1>2. /\ hw.len \in Nat /\ hw.count \in Nat /\ hw.txnum \in 0 .. 3 /\ hw.rx \in Seq(Nat)
        /\ hw \in Hws /\ reg \in Regs /\ reg.rx \in Seq(Nat) /\ reg.ifl \in BOOLEAN
        /\ reg.TXNUM = hw.txnum
    BY <1>1 DEF HardTypes, Hws, Regs
  <1>3. ASSUME wpc # "idle"
        PROVE  /\ T.len \in Nat /\ T.tx \in BOOLEAN /\ T.rx \in BOOLEAN /\ T.cs_change \in BOOLEAN
    BY <1>1, <1>3, TransferFacts DEF WorkerTypes, T
  <1>4. ASSUME UNCHANGED hard PROVE HardTypes'
    BY <1>1, <1>4 DEF HardTypes, hard
  <1>5. ASSUME UNCHANGED <<queue, busy, worker, cs>> PROVE WorkerTypes'
    BY <1>1, <1>5 DEF WorkerTypes, worker
  <1>6. ASSUME NEW m \in Messages, Submit(m) PROVE SpiTypes'
    <2>1. queue' = Append(queue, m) /\ UNCHANGED <<busy, worker, cs, hard>>
      BY <1>6 DEF Submit
    <2>2. queue' \in Seq(Messages) /\ queue' # <<>>
      BY <1>1, <2>1 DEF WorkerTypes
    <2>3. WorkerTypes'
      BY <1>1, <2>1, <2>2 DEF WorkerTypes, worker
    <2> QED
      BY <1>4, <2>1, <2>3 DEF SpiTypes
  <1>7. CASE Setup
    <2>1. WorkerTypes'
      BY <1>1, <1>7 DEF Setup, WorkerTypes, worker
    <2> QED
      BY <1>4, <1>7, <2>1 DEF SpiTypes, Setup
  <1>8. ASSUME queue # <<>>, TakeHead, busy' \in BOOLEAN, UNCHANGED <<cs, hard>> PROVE SpiTypes'
    <2>1. WorkerTypes'
      BY <1>1, <1>8, TakeHeadFacts DEF WorkerTypes
    <2> QED
      BY <1>4, <1>8, <2>1 DEF SpiTypes
  <1>9. CASE WorkBegin
    <2>1. CASE queue = <<>>
      <3>1. UNCHANGED <<queue, busy, worker, cs, hard>>
        BY <1>9, <2>1 DEF WorkBegin
      <3> QED
        BY <1>4, <1>5, <3>1 DEF SpiTypes
    <2>2. CASE queue # <<>>
      BY <1>8, <1>9, <2>2 DEF WorkBegin
    <2> QED
      BY <2>1, <2>2
  <1>10. CASE Xfer
    <2>1. /\ wpc = "xfer" /\ cs' = (cs \/ cs_change) /\ cs_change' = T.cs_change
          /\ UNCHANGED <<queue, busy, msg, k, more, done, ipc, saved, race>>
      BY <1>10 DEF Xfer
    <2>2. T.len \in Nat /\ T.tx \in BOOLEAN /\ T.rx \in BOOLEAN /\ T.cs_change \in BOOLEAN
      BY <1>3, <2>1
    <2>3. ASSUME wpc' \in {"ret", "complete", "wait"} PROVE WorkerTypes'
      BY <1>1, <2>1, <2>2, <2>3 DEF WorkerTypes
    <2>4. CASE T.len = 0 \/ (~ T.tx /\ ~ T.rx)
      <3>1. wpc' \in {"ret", "complete"} /\ UNCHANGED <<hw, reg>>
        BY <1>10, <2>2, <2>4 DEF Xfer
      <3> QED
        BY <1>4, <2>1, <2>3, <3>1 DEF SpiTypes, hard
    <2>5. CASE T.len > 0 /\ (T.tx \/ T.rx)
      <3> DEFINE num == FirstNum(T.len)
                 words == Load(num, 0, T.tx)
      <3>1. /\ wpc' = "wait"
            /\ hw' = [len |-> T.len, count |-> 0, txnum |-> num, tx |-> T.tx, into |-> T.rx,
                       rx |-> <<>>]
            /\ reg' = gobusy(reg, num, words)
        BY <1>10, <2>2, <2>5 DEF Xfer, txrx
      <3>2. num \in 0 .. 3
        BY <2>2, <2>5, NumFacts
      <3> HIDE DEF num
      <3>3. words \in Seq(Int) /\ Len(words) = num + 1
        BY <3>2, LoadFacts
      <3> HIDE DEF words
      <3>4. reg' \in Regs /\ reg'.TXNUM = num /\ reg'.tx = words /\ reg'.ifl = FALSE
        BY <1>2, <3>1, <3>2, <3>3 DEF gobusy, Regs
      <3>5. hw' \in Hws /\ hw'.txnum = num
        BY <2>2, <3>1, <3>2 DEF Hws
      <3>6. Len(reg'.tx) <= 4
        BY <3>2, <3>3, <3>4
      <3>7. HardTypes'
        BY <1>1, <2>1, <3>4, <3>5, <3>6 DEF HardTypes
      <3> QED
        BY <2>3, <3>1, <3>7 DEF SpiTypes
    <2> QED
      BY <2>2, <2>4, <2>5
  <1>11. CASE txrx_return
    <2>1. WorkerTypes'
      BY <1>1, <1>11 DEF txrx_return, WorkerTypes
    <2>2. HardTypes'
      BY <1>1, <1>11 DEF txrx_return, HardTypes
    <2> QED
      BY <2>1, <2>2 DEF SpiTypes
  <1>12. CASE Ret
    <2>1. wpc = "ret" /\ UNCHANGED <<queue, busy, msg, more, cs_change, hard>>
      BY <1>12 DEF Ret
    <2>2. CASE wpc' = "complete" /\ UNCHANGED <<k, cs>>
      <3>1. WorkerTypes'
        BY <1>1, <2>1, <2>2 DEF WorkerTypes
      <3> QED
        BY <1>4, <2>1, <3>1 DEF SpiTypes
    <2>3. CASE k < Len(msg) /\ k' = k + 1 /\ wpc' = "xfer" /\ cs' = (cs /\ ~ cs_change)
      <3>1. k' \in 1 .. Len(msg)
        BY <1>1, <2>1, <2>3 DEF WorkerTypes
      <3>2. WorkerTypes'
        BY <1>1, <2>1, <2>3, <3>1 DEF WorkerTypes
      <3> QED
        BY <1>4, <2>1, <3>2 DEF SpiTypes
    <2> QED
      BY <1>12, <2>2, <2>3 DEF Ret
  <1>13. CASE Complete
    <2>1. WorkerTypes'
      BY <1>1, <1>13 DEF Complete, WorkerTypes
    <2> QED
      BY <1>4, <1>13, <2>1 DEF SpiTypes, Complete
  <1>14. CASE Relock
    <2>1. CASE more
      BY <1>1, <1>8, <1>14, <2>1 DEF Relock, WorkerTypes
    <2>2. CASE ~ more
      <3>1. WorkerTypes'
        BY <1>1, <1>14, <2>2 DEF Relock, WorkerTypes
      <3> QED
        BY <1>4, <1>14, <3>1 DEF SpiTypes, Relock
    <2> QED
      BY <2>1, <2>2
  <1>15. CASE IrqServe
    <2> DEFINE count == hw.count + hw.txnum + 1
               last == hw.len - count
               num == NextNum(last)
               words == Load(num, count, hw.tx)
    <2>1. reg.ifl /\ ipc' = "read" /\ UNCHANGED <<queue, busy, worker, cs, saved, race>>
      BY <1>15 DEF IrqServe
    <2>2. WorkerTypes'
      BY <1>5, <2>1
    <2>3. count \in Nat /\ last \in Int
      BY <1>2, SMTT(30)
    <2>4. num \in 0 .. 3
      BY <1>2, <2>3 DEF NextNum, Words
    <2>5. Received \in Seq(Nat)
      <3>1. Len(reg.rx) = hw.txnum + 1
        BY <1>1, <2>1 DEF HardTypes
      <3>2. SubSeq(reg.rx, 1, hw.txnum + 1) \in Seq(Nat)
        BY <1>2, <3>1
      <3>3. hw.into \in BOOLEAN
        BY <1>2 DEF Hws
      <3>4. hw.rx \o SubSeq(reg.rx, 1, hw.txnum + 1) \in Seq(Nat)
        BY <1>2, <3>2, ConcatProperties
      <3> QED
        BY <1>2, <3>3, <3>4, Zenon DEF Received
    <2> HIDE DEF num, last
    <2>6. words \in Seq(Int) /\ Len(words) = num + 1
      BY <2>3, <2>4, LoadFacts
    <2> HIDE DEF count, words
    <2>7. CASE last # 0
      <3>1. /\ hw' = [[hw EXCEPT !.count = count, !.rx = Received] EXCEPT !.txnum = num]
            /\ reg' = gobusy(reg, num, words)
        BY <1>15, <2>7 DEF IrqServe, count, last, num, words
      <3>2. reg' \in Regs /\ reg'.TXNUM = num /\ reg'.tx = words /\ reg'.ifl = FALSE
        BY <1>2, <2>4, <2>6, <3>1 DEF gobusy, Regs
      <3>3. hw' \in Hws /\ hw'.txnum = num
        BY <1>2, <2>3, <2>4, <2>5, <3>1 DEF Hws
      <3>4. Len(reg'.tx) <= 4
        BY <2>4, <2>6, <3>2
      <3>5. HardTypes'
        BY <1>1, <2>1, <3>2, <3>3, <3>4 DEF HardTypes
      <3> QED
        BY <2>2, <3>5 DEF SpiTypes
    <2>8. CASE last = 0
      <3>1. hw' = [hw EXCEPT !.count = count, !.rx = Received] /\ reg' = reg
        BY <1>15, <2>8 DEF IrqServe, count, last
      <3>2. hw' \in Hws /\ hw'.txnum = hw.txnum
        BY <1>2, <2>3, <2>5, <3>1 DEF Hws
      <3>3. HardTypes'
        BY <1>1, <2>1, <3>1, <3>2 DEF HardTypes
      <3> QED
        BY <2>2, <3>3 DEF SpiTypes
    <2> QED
      BY <2>7, <2>8
  <1>16. CASE IrqRead
    <2>1. reg.go \in BOOLEAN
      BY <1>2 DEF Regs
    <2>2. HardTypes'
      BY <1>1, <1>2, <1>16, <2>1 DEF IrqRead, HardTypes
    <2>3. WorkerTypes'
      BY <1>5, <1>16 DEF IrqRead
    <2> QED
      BY <2>2, <2>3 DEF SpiTypes
  <1>17. CASE IrqAck
    <2>1. /\ reg' = Acknowledged(reg) /\ ipc' = "idle"
          /\ UNCHANGED <<queue, busy, worker, cs, hw, done, saved, race>>
      BY <1>17 DEF IrqAck
    <2>2. saved.go \in BOOLEAN /\ saved.ifl \in BOOLEAN
      BY <1>1 DEF HardTypes
    <2>3. /\ reg' \in Regs /\ reg'.ifl = (reg.ifl /\ ~ saved.ifl) /\ reg'.TXNUM = reg.TXNUM
          /\ reg'.tx = reg.tx /\ reg'.rx = reg.rx
      BY <1>2, <2>1, <2>2 DEF Acknowledged, Regs
    <2>4. HardTypes'
      BY <1>1, <2>1, <2>3 DEF HardTypes
    <2>5. WorkerTypes'
      BY <1>5, <2>1
    <2> QED
      BY <2>4, <2>5 DEF SpiTypes
  <1>18. CASE BurstEnd
    <2> DEFINE rx == [i \in 1 .. reg.TXNUM + 1 |-> hw.count + i - 1]
    <2>1. /\ reg' = [reg EXCEPT !.go = FALSE, !.ifl = TRUE, !.rx = rx]
          /\ race' \in {race, "lost", "again"}
          /\ UNCHANGED <<queue, busy, worker, cs, hw, done, ipc, saved>>
      BY <1>18 DEF BurstEnd
    <2>2. rx \in Seq(Nat) /\ Len(rx) = hw.txnum + 1
      <3>1. /\ hw.txnum + 1 \in Nat /\ reg.TXNUM + 1 = hw.txnum + 1
            /\ \A i \in 1 .. hw.txnum + 1 : hw.count + i - 1 \in Nat
        BY <1>2
      <3> DEFINE l == hw.txnum + 1
      <3>2. rx = [i \in 1 .. l |-> hw.count + i - 1]
        BY <3>1
      <3> HIDE DEF rx, l
      <3>3. l \in Nat /\ \A i \in 1 .. l : hw.count + i - 1 \in Nat
        BY <3>1 DEF l
      <3>4. rx \in Seq(Nat) /\ Len(rx) = l
        BY <3>2, <3>3
      <3> QED
        BY <3>4 DEF l
    <2> HIDE DEF rx
    <2>3. reg' \in Regs /\ reg'.rx = rx /\ reg'.TXNUM = reg.TXNUM /\ reg'.tx = reg.tx
      BY <1>2, <2>1, <2>2 DEF Regs
    <2>4. HardTypes'
      BY <1>1, <2>1, <2>2, <2>3 DEF HardTypes
    <2>5. WorkerTypes'
      BY <1>5, <2>1
    <2> QED
      BY <2>4, <2>5 DEF SpiTypes
  <1>19. CASE UNCHANGED vars
    BY <1>4, <1>5, <1>19 DEF vars, SpiTypes
  <1> QED
    BY <1>6, <1>7, <1>9, <1>10, <1>11, <1>12, <1>13, <1>14, <1>15, <1>16, <1>17, <1>18, <1>19
       DEF SpiNext, Worker, Handler

\* Whatever the transfers, every answer is at its place when txrx returns and none is
\* stored past the buffer, the chip is selected while words are sent, a wait without
\* timeout has an interrupt to come unless a burst ended between gobusy and the
\* handler's read of CNTRL, and nothing of a transfer is left over for the next one;
\* all of it until the handler's write of CNTRL starts an ended burst again.
THEOREM SpiTransferExact == SpiSpec => []TransferExact
  <1>1. SpiSpec => []SpiTypes
    <2>1. SpiInit => SpiTypes
      <3>1. ASSUME SpiInit PROVE HardTypes
        <4>1. WorkerTypes /\ ControllerTypes /\ ~ reg.ifl
          BY <3>1, SpiInitInv DEF SpiInv, SpiInit
        <4> QED
          BY <4>1 DEF ControllerTypes, HardTypes
      <3>2. SpiInit => WorkerTypes
        BY SpiInitInv DEF SpiInv
      <3> QED
        BY <3>1, <3>2 DEF SpiTypes
    <2> QED
      BY <2>1, SpiTypesStep, PTL DEF SpiSpec
  <1>2. SpiTypes => SpiTypeOK
    <2> SUFFICES ASSUME SpiTypes PROVE SpiTypeOK
      OBVIOUS
    <2>1. hw.txnum \in 0 .. Words - 1
      BY DEF SpiTypes, HardTypes, Hws, Words
    <2> QED
      BY <2>1 DEF SpiTypes, SpiTypeOK, WorkerTypes, HardTypes, Words
  <1>3. SpiInv => /\ AnswersInPlace /\ SelectedDuringBurst /\ WaitCovered
                  /\ QuietOutsideTransfer /\ CountWithinLen
    <2> SUFFICES ASSUME SpiInv PROVE /\ AnswersInPlace /\ SelectedDuringBurst /\ WaitCovered
                                     /\ QuietOutsideTransfer /\ CountWithinLen
      OBVIOUS
    <2>1. /\ WorkerTypes /\ ControllerTypes /\ WorkerKnows /\ TransferKnows /\ RestKnows
          /\ AnswersInPlace
      BY DEF SpiInv
    <2>2. CountWithinLen
      BY <2>1 DEF CountWithinLen, ControllerTypes
    <2>3. SelectedDuringBurst
      BY <2>1 DEF SelectedDuringBurst, WorkerKnows, RestKnows, Flags
    <2>4. QuietOutsideTransfer
      BY <2>1 DEF QuietOutsideTransfer, RestKnows, Flags
    <2>5. WaitCovered
      BY <2>1 DEF WaitCovered, TransferKnows, BurstStates, Flags
    <2> QED
      BY <2>1, <2>2, <2>3, <2>4, <2>5
  <1>4. SpiTypes /\ (race # "again" => SpiInv) => TransferExact
    BY <1>2, <1>3 DEF TransferExact
  <1> QED
    BY <1>1, <1>4, SpiInvariant, PTL
-----------------------------------------------------------------------------
(* What is on the wire *)

\* the wire holds, wherever it is that long, what the message asks for
InPlace(w, m, chip_selected) ==
    /\ chip_selected \/ 1 > Len(w) \/ w[1] = <<"select">>
    /\ \A j \in 1 .. Len(m) : \A i \in 1 .. Len(OnWire(m, j)) :
            PlaceOnWire(m, chip_selected, j, i) <= Len(w) =>
                w[PlaceOnWire(m, chip_selected, j, i)] = OnWire(m, j)[i]

\* where the events of the current transfer begin
Begin == Lead(begun) + Total(EventCount(msg), k - 1)

\* a burst is loaded that has not been sent
ToSend == done = 0 /\ race = "no" /\ reg.go
SentInWait == IF ToSend \/ done = 1 THEN hw.count ELSE hw.count + hw.txnum + 1

WireKnows ==
    /\ wpc \in {"xfer", "wait", "ret", "complete"} =>
        /\ InPlace(wire, msg, begun)
        /\ \A j \in 1 .. k - 1 : ~ Bad(msg[j])
    /\ wpc \in {"xfer", "wait", "ret"} => actual = Total(WordCount(msg), k - 1)
    /\ wpc = "xfer" /\ k = 1 => wire = <<>> /\ cs_change /\ cs = begun
    /\ wpc = "xfer" /\ k > 1 => /\ cs_change = msg[k - 1].cs_change /\ cs = ~ cs_change
                                /\ Len(wire) = Begin - (IF cs_change THEN 1 ELSE 0)
    /\ wpc \in {"wait", "ret"} => cs_change = T.cs_change /\ ~ Bad(T)
    /\ wpc = "wait" => /\ Len(wire) = Begin + SentInWait
                       /\ ToSend => reg.tx = Load(hw.txnum, hw.count, T.tx)
    /\ wpc = "ret" => Len(wire) = Begin + T.len
    /\ wpc = "complete" =>
        \/ /\ status = 0 /\ k = Len(msg) /\ ~ Bad(T)
           /\ Len(wire) = Begin + T.len /\ actual = Total(WordCount(msg), k)
        \/ /\ status = EINVAL /\ Bad(T)
           /\ Len(wire) = Begin /\ actual = Total(WordCount(msg), k - 1)

\* an event of the wire
Events == {<<"select">>, <<"deselect">>} \cup (Nat \X Int)
WireTypes ==
    /\ wire \in Seq(Events) /\ begun \in BOOLEAN /\ actual \in Int
    /\ \E S : results \in Seq(S)

WireInv == WireTypes /\ WireKnows /\ MessageOnWire

\* the gap after transfer j of m
Gap(m, j) == IF m[j].cs_change /\ j < Len(m) THEN 2 ELSE 0

\* The events of a transfer, one by one.
LEMMA OnWireFacts ==
  ASSUME NEW m \in Seq(Transfers), NEW j \in 1 .. Len(m)
  PROVE  /\ Len(OnWire(m, j)) = m[j].len + Gap(m, j) /\ Len(OnWire(m, j)) \in Nat
         /\ \A i \in 1 .. m[j].len : OnWire(m, j)[i] = <<j, IF m[j].tx THEN i - 1 ELSE ones>>
         /\ Gap(m, j) = 2 => /\ OnWire(m, j)[m[j].len + 1] = <<"deselect">>
                             /\ OnWire(m, j)[m[j].len + 2] = <<"select">>
  <1> DEFINE L == m[j].len
             a == [i \in 1 .. L |-> <<j, IF m[j].tx THEN i - 1 ELSE ones>>]
             b == IF m[j].cs_change /\ j < Len(m) THEN << <<"deselect">>, <<"select">> >> ELSE <<>>
  <1>1. L \in Nat /\ j \in Nat
    BY TransferFacts
  <1>2. OnWire(m, j) = a \o b
    BY DEF OnWire
  <1>3. a \in Seq(Events) /\ Len(a) = L /\ \A i \in 1 .. L : a[i] = <<j, IF m[j].tx THEN i - 1 ELSE ones>>
    <2>1. \A i \in 1 .. L : (IF m[j].tx THEN i - 1 ELSE ones) \in Int
      BY DEF ones
    <2>2. \A i \in 1 .. L : <<j, IF m[j].tx THEN i - 1 ELSE ones>> \in Events
      BY <1>1, <2>1 DEF Events
    <2> HIDE DEF L
    <2> QED
      BY <1>1, <2>2
  <1>4. b \in Seq(Events) /\ Len(b) = Gap(m, j)
    <2>1. <<"deselect">> \in Events /\ <<"select">> \in Events
      BY DEF Events
    <2>2. << <<"deselect">>, <<"select">> >> \in Seq(Events) /\ Len(<< <<"deselect">>, <<"select">> >>) = 2
      BY <2>1
    <2>3. <<>> \in Seq(Events) /\ Len(<<>>) = 0
      BY EmptySeq
    <2>4. CASE m[j].cs_change /\ j < Len(m)
      <3>1. b = << <<"deselect">>, <<"select">> >> /\ Gap(m, j) = 2
        BY <2>4, Zenon DEF Gap
      <3> QED
        BY <2>2, <3>1, Zenon
    <2>5. CASE ~ (m[j].cs_change /\ j < Len(m))
      <3>1. b = <<>> /\ Gap(m, j) = 0
        BY <2>5, Zenon DEF Gap
      <3> QED
        BY <2>3, <3>1, Zenon
    <2> QED
      BY <2>4, <2>5, Zenon
  <1>5. Gap(m, j) = 2 => b[1] = <<"deselect">> /\ b[2] = <<"select">>
    BY DEF Gap
  <1>6. Gap(m, j) \in {0, 2}
    BY DEF Gap
  <1> HIDE DEF L, a, b
  <1>7. /\ Len(a \o b) = Len(a) + Len(b)
        /\ \A i \in 1 .. Len(a) + Len(b) :
                (a \o b)[i] = IF i <= Len(a) THEN a[i] ELSE b[i - Len(a)]
    BY <1>3, <1>4, ConcatProperties
  <1>8. Len(a \o b) = L + Gap(m, j) /\ Len(a \o b) \in Nat
    BY <1>1, <1>3, <1>4, <1>6, <1>7
  <1>9. \A i \in 1 .. L : (a \o b)[i] = a[i]
    BY <1>1, <1>3, <1>4, <1>6, <1>7
  <1>10. Gap(m, j) = 2 => (a \o b)[L + 1] = b[1] /\ (a \o b)[L + 2] = b[2]
    BY <1>1, <1>3, <1>4, <1>7
  <1>11. Gap(m, j) = 2 => /\ (a \o b)[L + 1] = <<"deselect">>
                          /\ (a \o b)[L + 2] = <<"select">>
    BY <1>5, <1>10, Zenon
  <1>12. \A i \in 1 .. L : (a \o b)[i] = <<j, IF m[j].tx THEN i - 1 ELSE ones>>
    BY <1>3, <1>9
  <1> QED
    BY <1>2, <1>8, <1>11, <1>12, Zenon DEF L

\* How many events and words there are before and after a transfer.
LEMMA MessageTotals ==
  ASSUME NEW m \in Seq(Transfers), NEW j \in 1 .. Len(m)
  PROVE  /\ Total(EventCount(m), 0) = 0 /\ Total(WordCount(m), 0) = 0
         /\ Total(EventCount(m), j - 1) \in Nat /\ Total(EventCount(m), j) \in Nat
         /\ Total(WordCount(m), j - 1) \in Nat /\ Total(WordCount(m), j) \in Nat
         /\ Total(EventCount(m), j) = Total(EventCount(m), j - 1) + m[j].len + Gap(m, j)
         /\ Total(WordCount(m), j) = Total(WordCount(m), j - 1) + m[j].len
  <1> DEFINE E == EventCount(m)
             W == WordCount(m)
  <1>1. \A l \in 1 .. Len(m) : E[l] = m[l].len + Gap(m, l) /\ E[l] \in Nat
    <2> TAKE l \in 1 .. Len(m)
    <2>1. l \in DOMAIN m
      OBVIOUS
    <2>2. E[l] = Len(OnWire(m, l))
      BY <2>1 DEF EventCount
    <2> QED
      BY <2>2, OnWireFacts
  <1>2. \A l \in 1 .. Len(m) : W[l] = m[l].len /\ W[l] \in Nat
    <2> TAKE l \in 1 .. Len(m)
    <2>1. l \in DOMAIN m
      OBVIOUS
    <2>2. W[l] = m[l].len
      BY <2>1 DEF WordCount
    <2> QED
      BY <2>2, TransferFacts
  <1> DEFINE c == j - 1
  <1>3. c \in Nat /\ c + 1 = j /\ j \in Nat
    OBVIOUS
  <1>4. \A l \in 1 .. c + 1 : E[l] \in Nat
    BY <1>1, <1>3
  <1>5. \A l \in 1 .. c + 1 : W[l] \in Nat
    BY <1>2, <1>3
  <1> HIDE DEF E, W, c
  <1>6. Total(E, 0) = 0 /\ Total(E, c) \in Nat /\ Total(E, c + 1) = Total(E, c) + E[c + 1]
    BY <1>3, <1>4, TotalStep
  <1>7. Total(W, 0) = 0 /\ Total(W, c) \in Nat /\ Total(W, c + 1) = Total(W, c) + W[c + 1]
    BY <1>3, <1>5, TotalStep
  <1>8. E[j] = m[j].len + Gap(m, j) /\ E[j] \in Nat /\ W[j] = m[j].len /\ W[j] \in Nat
    BY <1>1, <1>2
  <1>9. Gap(m, j) \in Nat /\ m[j].len \in Nat
    BY TransferFacts DEF Gap
  <1>10. /\ Total(E, j) = Total(E, c) + m[j].len + Gap(m, j) /\ Total(E, j) \in Nat
         /\ Total(W, j) = Total(W, c) + m[j].len /\ Total(W, j) \in Nat
    <2>1. Total(E, j) = Total(E, c) + E[j] /\ Total(W, j) = Total(W, c) + W[j]
      BY <1>3, <1>6, <1>7
    <2> QED
      BY <1>6, <1>7, <1>8, <1>9, <2>1
  <1> QED
    BY <1>6, <1>7, <1>10 DEF E, W, c

\* A place of the wire belongs to one transfer.
LEMMA OneTransfer ==
  ASSUME NEW m \in Seq(Transfers), NEW j \in 1 .. Len(m), NEW q \in 1 .. Len(m),
         NEW i \in 1 .. Len(OnWire(m, j)),
         Total(EventCount(m), q - 1) < Total(EventCount(m), j - 1) + i,
         Total(EventCount(m), j - 1) + i <= Total(EventCount(m), q)
  PROVE  j = q
  <1> DEFINE E == EventCount(m)
  <1>1. \A l \in 1 .. Len(m) : E[l] = Len(OnWire(m, l)) /\ E[l] \in Nat
    <2> TAKE l \in 1 .. Len(m)
    <2>1. l \in DOMAIN m
      OBVIOUS
    <2> QED
      BY <2>1, OnWireFacts DEF EventCount
  <1>2. i \in 1 .. E[j] /\ Len(m) \in Nat
    BY <1>1
  <1>3. Total(E, q - 1) < Total(E, j - 1) + i /\ Total(E, j - 1) + i <= Total(E, q)
    OBVIOUS
  <1> HIDE DEF E
  <1> QED
    BY <1>1, <1>2, <1>3, OnePart

\* The wire goes on with events of transfer q.
LEMMA WithinTransfer ==
  ASSUME NEW m \in Seq(Transfers), NEW q \in 1 .. Len(m), NEW s \in BOOLEAN,
         NEW w \in Seq(Events), NEW e \in Seq(Events), InPlace(w, m, s),
         Lead(s) + Total(EventCount(m), q - 1) <= Len(w), s \/ Len(w) > 0,
         Len(w) + Len(e) <= Lead(s) + Total(EventCount(m), q),
         \A i \in 1 .. Len(e) :
            e[i] = OnWire(m, q)[Len(w) - (Lead(s) + Total(EventCount(m), q - 1)) + i]
  PROVE  InPlace(w \o e, m, s) /\ w \o e \in Seq(Events) /\ Len(w \o e) = Len(w) + Len(e)
  <1>1. /\ w \o e \in Seq(Events) /\ Len(w \o e) = Len(w) + Len(e)
        /\ \A i \in 1 .. Len(w) + Len(e) :
                (w \o e)[i] = IF i <= Len(w) THEN w[i] ELSE e[i - Len(w)]
    BY ConcatProperties
  <1>2. Len(w) \in Nat /\ Len(e) \in Nat /\ Lead(s) \in Nat
    BY DEF Lead
  <1>3. Total(EventCount(m), q - 1) \in Nat /\ Total(EventCount(m), q) \in Nat
    BY MessageTotals
  <1>4. s \/ 1 > Len(w \o e) \/ (w \o e)[1] = <<"select">>
    <2>1. Len(w) > 0 => (w \o e)[1] = w[1]
      BY <1>1, <1>2
    <2> QED
      BY <1>2, <2>1 DEF InPlace
  <1>5. ASSUME NEW j \in 1 .. Len(m), NEW i \in 1 .. Len(OnWire(m, j)),
               PlaceOnWire(m, s, j, i) <= Len(w \o e)
        PROVE  (w \o e)[PlaceOnWire(m, s, j, i)] = OnWire(m, j)[i]
    <2> DEFINE p == PlaceOnWire(m, s, j, i)
               t == Total(EventCount(m), j - 1)
               u == Total(EventCount(m), q - 1)
    <2>1. t \in Nat /\ i \in Nat /\ i >= 1 /\ p = Lead(s) + t + i /\ p \in Nat
      <3>1. t \in Nat
        BY MessageTotals
      <3>2. Len(OnWire(m, j)) \in Nat
        BY OnWireFacts
      <3>3. i \in Nat /\ i >= 1
        BY <3>2
      <3>4. p = Lead(s) + t + i
        BY DEF PlaceOnWire
      <3> HIDE DEF t, p
      <3> QED
        BY <1>2, <3>1, <3>3, <3>4
    <2>2. CASE p <= Len(w)
      <3>1. (w \o e)[p] = w[p]
        BY <1>1, <1>2, <2>1, <2>2
      <3> QED
        BY <2>2, <3>1 DEF InPlace
    <2>3. CASE p > Len(w)
      <3>1. u < t + i /\ t + i <= Total(EventCount(m), q)
        <4>1. p <= Len(w) + Len(e)
          BY <1>1, <1>5
        <4>2. \A x, y, L, a, b, g, h, z \in Nat :
                z = L + a + h /\ x < z /\ z <= x + y /\ L + b <= x /\ x + y <= L + g
                  => b < a + h /\ a + h <= g
          OBVIOUS
        <4> HIDE DEF p, t
        <4> QED
          BY SMTT(60), <1>2, <1>3, <2>1, <2>3, <4>1, <4>2
      <3>2. j = q
        BY <3>1, OneTransfer
      <3>3. p - Len(w) \in 1 .. Len(e) /\ p \in 1 .. Len(w) + Len(e) /\ ~ (p <= Len(w))
        BY SMTT(60), <1>1, <1>2, <1>5, <2>1, <2>3
      <3>4. (w \o e)[p] = e[p - Len(w)]
        BY <1>1, <3>3
      <3>5. Len(w) - (Lead(s) + u) + (p - Len(w)) = i
        BY SMTT(60), <1>2, <1>3, <2>1, <3>2
      <3> QED
        BY <3>2, <3>3, <3>4, <3>5
    <2>4. p <= Len(w) \/ p > Len(w)
      <3> HIDE DEF p
      <3> QED
        BY <1>2, <2>1
    <2> QED
      BY <2>2, <2>3, <2>4, Zenon
  <1> QED
    BY <1>1, <1>4, <1>5 DEF InPlace

\* All events up to the last of transfer c are there.
LEMMA ShowsAll ==
  ASSUME NEW m \in Seq(Transfers), NEW c \in 0 .. Len(m), NEW s \in BOOLEAN,
         NEW w \in Seq(Events), InPlace(w, m, s),
         Len(w) = Lead(s) + Total(EventCount(m), c)
  PROVE  Shows(w, m, s, c)
  <1> DEFINE E == EventCount(m)
  <1>1. \A l \in 1 .. Len(m) : E[l] \in Nat
    <2> TAKE l \in 1 .. Len(m)
    <2>1. l \in DOMAIN m
      OBVIOUS
    <2> QED
      BY <2>1, OnWireFacts DEF EventCount
  <1>2. c \in Nat /\ c <= Len(m) /\ Len(m) \in Nat
    OBVIOUS
  <1>3. Total(E, c) \in Nat /\ Lead(s) \in Nat /\ (~ s => Lead(s) = 1)
    <2>1. \A l \in 1 .. c : E[l] \in Nat
      BY <1>1, <1>2
    <2>2. Total(E, c) \in Nat
      BY <1>2, <2>1, TotalGrows
    <2> QED
      BY <2>2 DEF Lead
  <1>4. s \/ w[1] = <<"select">>
    BY <1>3 DEF InPlace
  <1>5. ASSUME NEW j \in 1 .. c, NEW i \in 1 .. Len(OnWire(m, j))
        PROVE  w[PlaceOnWire(m, s, j, i)] = OnWire(m, j)[i]
    <2>1. j \in 1 .. Len(m) /\ j \in Nat /\ j <= c
      BY <1>2
    <2>2. Len(OnWire(m, j)) \in Nat /\ Len(OnWire(m, j)) = m[j].len + Gap(m, j)
      BY <2>1, OnWireFacts
    <2>3. /\ Total(E, j - 1) \in Nat /\ Total(E, j) \in Nat
          /\ Total(E, j) = Total(E, j - 1) + m[j].len + Gap(m, j)
      BY <2>1, MessageTotals
    <2>4. Total(E, j) <= Total(E, c)
      <3>1. \A l \in 1 .. c : E[l] \in Nat
        BY <1>1, <1>2
      <3> HIDE DEF E
      <3> QED
        BY <1>2, <2>1, <3>1, TotalGrows
    <2>5. Gap(m, j) \in Nat /\ m[j].len \in Nat
      BY <2>1, TransferFacts DEF Gap
    <2>6. PlaceOnWire(m, s, j, i) = Lead(s) + Total(E, j - 1) + i
      BY DEF PlaceOnWire
    <2> HIDE DEF E
    <2>7. i \in Nat /\ i <= m[j].len + Gap(m, j)
      BY <2>2
    <2>8. Lead(s) + Total(E, j - 1) + i <= Lead(s) + Total(E, c)
      <3>1. \A a, b, d, x, y, g \in Nat : b = a + x + g /\ b <= d /\ y <= x + g => a + y <= d
        OBVIOUS
      <3>2. Total(E, j - 1) + i <= Total(E, c)
        BY <1>3, <2>3, <2>4, <2>5, <2>7, <3>1
      <3> QED
        BY <1>3, <2>3, <2>7, <3>2
    <2>9. PlaceOnWire(m, s, j, i) <= Len(w)
      BY <2>6, <2>8 DEF E
    <2> QED
      BY <2>1, <2>9 DEF InPlace
  <1> QED
    BY <1>4, <1>5 DEF Shows

\* The transfers before the first without a buffer.
LEMMA GoodIs ==
  ASSUME NEW m \in Seq(Transfers)
  PROVE  /\ (\A j \in 1 .. Len(m) : ~ Bad(m[j])) => Good(m) = Len(m)
         /\ \A q \in 1 .. Len(m) :
                Bad(m[q]) /\ (\A j \in 1 .. q - 1 : ~ Bad(m[j])) => Good(m) = q - 1
  <1> DEFINE bad == {j \in DOMAIN m : Bad(m[j])}
  <1>1. DOMAIN m = 1 .. Len(m) /\ Len(m) \in Nat
    OBVIOUS
  <1>2. Good(m) = IF bad = {} THEN Len(m) ELSE (CHOOSE j \in bad : \A l \in bad : j <= l) - 1
    BY DEF Good
  <1>3. (\A j \in 1 .. Len(m) : ~ Bad(m[j])) => bad = {}
    BY <1>1
  <1>4. ASSUME NEW q \in 1 .. Len(m), Bad(m[q]), \A j \in 1 .. q - 1 : ~ Bad(m[j])
        PROVE  Good(m) = q - 1
    <2>1. q \in bad
      BY <1>1, <1>4
    <2>2. \A l \in bad : l \in Nat /\ q <= l
      BY <1>1, <1>4
    <2>3. \A j \in bad : (\A l \in bad : j <= l) => j = q
      BY <2>1, <2>2
    <2> HIDE DEF bad
    <2>4. (CHOOSE j \in bad : \A l \in bad : j <= l) = q
      BY <2>1, <2>2, <2>3
    <2> QED
      BY <1>2, <2>1, <2>4
  <1> QED
    BY <1>2, <1>3, <1>4

\* Steps that leave the wire, the message and the worker alone.
LEMMA WireSame ==
  ASSUME WireInv, wpc \in {"idle", "xfer", "wait", "ret", "complete", "relock"},
         UNCHANGED <<wire, results, wpc, msg, k, cs_change, status, actual, begun>>,
         wpc = "xfer" => cs' = cs,
         wpc = "wait" => /\ SentInWait' = SentInWait
                         /\ ToSend' => reg'.tx = Load(hw'.txnum, hw'.count, T.tx)
  PROVE  WireInv'
  <1>1. WireTypes'
    BY DEF WireInv, WireTypes
  <1>2. MessageOnWire'
    BY DEF WireInv, MessageOnWire
  <1>3. T' = T /\ Begin' = Begin
    BY DEF T, Begin
  <1>4. WireKnows'
    <2>1. CASE wpc = "xfer"
      BY <1>3, <2>1 DEF WireInv, WireKnows
    <2>2. CASE wpc = "wait"
      BY <1>3, <2>2 DEF WireInv, WireKnows
    <2>3. CASE wpc = "ret"
      BY <1>3, <2>3 DEF WireInv, WireKnows
    <2>4. CASE wpc = "complete"
      BY <1>3, <2>4 DEF WireInv, WireKnows
    <2>5. CASE wpc \in {"idle", "relock"}
      BY <2>5 DEF WireKnows
    <2> QED
      BY <2>1, <2>2, <2>3, <2>4, <2>5
  <1> QED
    BY <1>1, <1>2, <1>4 DEF WireInv

\* A message begins with nothing on the wire.
LEMMA WireTaken ==
  ASSUME WireInv, cs \in BOOLEAN, TakeHead, UNCHANGED <<cs, results>>,
         msg' \in Seq(Transfers), 1 \in 1 .. Len(msg')
  PROVE  WireInv'
  <1>1. /\ wire' = <<>> /\ begun' = cs /\ k' = 1 /\ wpc' = "xfer" /\ cs_change' = TRUE
        /\ actual' = 0
    BY DEF TakeHead
  <1>2. WireTypes'
    BY <1>1, EmptySeq DEF WireInv, WireTypes
  <1>3. MessageOnWire'
    BY DEF WireInv, MessageOnWire
  <1>4. Total(WordCount(msg'), k' - 1) = 0
    <2>1. Total(WordCount(msg'), 0) = 0
      BY MessageTotals
    <2> QED
      BY <1>1, <2>1
  <1>5. InPlace(<<>>, msg', cs)
    <2>1. Len(<<>>) = 0
      BY EmptySeq
    <2>2. ASSUME NEW j \in 1 .. Len(msg'), NEW i \in 1 .. Len(OnWire(msg', j))
          PROVE  ~ (PlaceOnWire(msg', cs, j, i) <= 0)
      <3>1. Total(EventCount(msg'), j - 1) \in Nat /\ Len(OnWire(msg', j)) \in Nat
        BY MessageTotals, OnWireFacts
      <3>2. Lead(cs) \in Nat
        BY DEF Lead
      <3> QED
        BY <3>1, <3>2 DEF PlaceOnWire
    <2> QED
      BY <2>1, <2>2 DEF InPlace
  <1>6. WireKnows'
    BY <1>1, <1>4, <1>5 DEF WireKnows
  <1> QED
    BY <1>2, <1>3, <1>6 DEF WireInv

\* The message under way: what the totals and the current transfer are.
LEMMA CurrentFacts ==
  ASSUME SpiInv, WireInv, wpc # "idle"
  PROVE  /\ msg \in Seq(Transfers) /\ k \in 1 .. Len(msg) /\ k \in Nat /\ Len(msg) \in Nat
         /\ T.len \in Nat /\ T.tx \in BOOLEAN /\ T.rx \in BOOLEAN /\ T.cs_change \in BOOLEAN
         /\ Lead(begun) \in Nat /\ Begin \in Nat /\ Begin = Lead(begun) + Total(EventCount(msg), k - 1)
         /\ Total(EventCount(msg), k - 1) \in Nat /\ Total(EventCount(msg), k) \in Nat
         /\ Total(EventCount(msg), k) = Total(EventCount(msg), k - 1) + T.len + Gap(msg, k)
         /\ Total(WordCount(msg), k) = Total(WordCount(msg), k - 1) + T.len
         /\ Total(WordCount(msg), k - 1) \in Nat /\ Gap(msg, k) \in {0, 2}
         /\ wire \in Seq(Events) /\ Len(wire) \in Nat /\ begun \in BOOLEAN
  <1>1. msg \in Seq(Transfers) /\ k \in 1 .. Len(msg) /\ k \in Nat /\ Len(msg) \in Nat
    BY DEF SpiInv, WorkerTypes
  <1>2. T.len \in Nat /\ T.tx \in BOOLEAN /\ T.rx \in BOOLEAN /\ T.cs_change \in BOOLEAN
    BY <1>1, TransferFacts DEF T
  <1>3. /\ Total(EventCount(msg), k - 1) \in Nat /\ Total(EventCount(msg), k) \in Nat
        /\ Total(EventCount(msg), k) = Total(EventCount(msg), k - 1) + T.len + Gap(msg, k)
        /\ Total(WordCount(msg), k) = Total(WordCount(msg), k - 1) + T.len
        /\ Total(WordCount(msg), k - 1) \in Nat
    BY <1>1, MessageTotals DEF T
  <1>4. wire \in Seq(Events) /\ Len(wire) \in Nat /\ begun \in BOOLEAN
    BY DEF WireInv, WireTypes
  <1>5. Lead(begun) \in Nat /\ Gap(msg, k) \in {0, 2}
    BY DEF Lead, Gap
  <1>6. Begin = Lead(begun) + Total(EventCount(msg), k - 1)
    BY DEF Begin
  <1>7. Begin \in Nat
    BY <1>3, <1>5, <1>6
  <1> QED
    BY <1>1, <1>2, <1>3, <1>4, <1>5, <1>6, <1>7

\* A burst puts its words behind those of the bursts before.
LEMMA WireBurstEnd == SpiInv /\ WireInv /\ BurstEnd => WireInv'
  <1> SUFFICES ASSUME SpiInv, WireInv, BurstEnd PROVE WireInv'
    OBVIOUS
  <1> DEFINE t == hw.txnum
             c == hw.count
             e == [i \in 1 .. reg.TXNUM + 1 |-> <<k, reg.tx[i]>>]
  <1>1. /\ reg.go /\ wire' = wire \o e
        /\ reg' = [reg EXCEPT !.go = FALSE, !.ifl = TRUE,
                              !.rx = [i \in 1 .. reg.TXNUM + 1 |-> hw.count + i - 1]]
        /\ UNCHANGED <<worker, cs, hw, done, results>>
    BY DEF BurstEnd
  <1>2. wpc = "wait"
    BY <1>1 DEF SpiInv, RestKnows, Flags
  <1>3. /\ hw \in Hws /\ reg \in Regs /\ reg.TXNUM = t /\ done \in 0 .. 1 /\ hw.len = T.len
        /\ done = 0 => BurstStates /\ c + t + 1 <= hw.len
        /\ done = 1 => EndStates
    BY <1>2 DEF SpiInv, ControllerTypes, TransferKnows
  <1>4. done = 0 /\ race = "no"
    <2>1. done = 0
      BY <1>1, <1>3 DEF EndStates, Flags
    <2> QED
      BY <1>1, <1>3, <2>1 DEF BurstStates, Flags
  <1>5. t \in 0 .. 3 /\ c \in Nat /\ c + t + 1 <= T.len
    BY <1>3, <1>4 DEF Hws
  <1>6. reg.tx = Load(t, c, T.tx) /\ Len(wire) = Begin + c /\ InPlace(wire, msg, begun)
    BY <1>1, <1>2, <1>4 DEF WireInv, WireKnows, ToSend, SentInWait
  <1>7. /\ msg \in Seq(Transfers) /\ k \in 1 .. Len(msg) /\ k \in Nat
        /\ T.len \in Nat /\ Begin \in Nat /\ Begin = Lead(begun) + Total(EventCount(msg), k - 1)
        /\ Lead(begun) \in Nat /\ Total(EventCount(msg), k - 1) \in Nat
        /\ Total(EventCount(msg), k) = Total(EventCount(msg), k - 1) + T.len + Gap(msg, k)
        /\ Gap(msg, k) \in {0, 2} /\ wire \in Seq(Events) /\ Len(wire) \in Nat /\ begun \in BOOLEAN
    BY <1>2, CurrentFacts
  <1>8. \A i \in 1 .. t + 1 : reg.tx[i] = (IF T.tx THEN c + i - 1 ELSE ones) /\ reg.tx[i] \in Int
    <2> SUFFICES ASSUME NEW i \in 1 .. t + 1
                 PROVE  reg.tx[i] = (IF T.tx THEN c + i - 1 ELSE ones) /\ reg.tx[i] \in Int
      OBVIOUS
    <2>1. reg.tx[i] = (IF T.tx THEN c + i - 1 ELSE ones)
      BY <1>6 DEF Load
    <2>2. c + i - 1 \in Int /\ ones \in Int
      BY <1>5 DEF ones
    <2> HIDE DEF c
    <2> QED
      BY <2>1, <2>2
  <1>9. e \in Seq(Events) /\ Len(e) = t + 1 /\ \A i \in 1 .. t + 1 : e[i] = <<k, reg.tx[i]>>
    <2>1. \A i \in 1 .. t + 1 : <<k, reg.tx[i]>> \in Events
      BY <1>7, <1>8 DEF Events
    <2>2. t + 1 \in Nat /\ reg.TXNUM + 1 = t + 1
      BY <1>3, <1>5
    <2> DEFINE l == t + 1
    <2>3. e = [i \in 1 .. l |-> <<k, reg.tx[i]>>]
      BY <2>2
    <2>4. l \in Nat /\ \A i \in 1 .. l : <<k, reg.tx[i]>> \in Events
      BY <2>1, <2>2
    <2> HIDE DEF e, l
    <2>5. e \in Seq(Events) /\ Len(e) = l /\ \A i \in 1 .. l : e[i] = <<k, reg.tx[i]>>
      BY <2>3, <2>4
    <2> QED
      BY <2>5 DEF l
  <1> HIDE DEF e, t, c
  <1>10. \A i \in 1 .. Len(e) :
            e[i] = OnWire(msg, k)[Len(wire) - (Lead(begun) + Total(EventCount(msg), k - 1)) + i]
    <2> SUFFICES ASSUME NEW i \in 1 .. t + 1
                 PROVE  e[i] = OnWire(msg, k)[Len(wire) - (Lead(begun) + Total(EventCount(msg), k - 1)) + i]
      BY <1>9
    <2>1. Len(wire) - (Lead(begun) + Total(EventCount(msg), k - 1)) + i = c + i
      BY SMTT(60), <1>5, <1>6, <1>7
    <2>2. c + i \in 1 .. T.len
      BY <1>5, <1>7
    <2>3. \A l \in 1 .. T.len : OnWire(msg, k)[l] = <<k, IF T.tx THEN l - 1 ELSE ones>>
      BY <1>7, OnWireFacts DEF T
    <2>4. OnWire(msg, k)[c + i] = <<k, IF T.tx THEN c + i - 1 ELSE ones>>
      <3> DEFINE l == c + i
      <3>1. l \in 1 .. T.len
        BY <2>2
      <3> HIDE DEF l
      <3>2. OnWire(msg, k)[l] = <<k, IF T.tx THEN l - 1 ELSE ones>>
        BY <2>3, <3>1
      <3>3. l - 1 = c + i - 1
        BY <1>5 DEF l
      <3>4. OnWire(msg, k)[l] = <<k, IF T.tx THEN c + i - 1 ELSE ones>>
        BY <3>2, <3>3
      <3> QED
        BY <3>4, Zenon DEF l
    <2> QED
      BY <1>8, <1>9, <2>1, <2>4
  <1>11. /\ Lead(begun) + Total(EventCount(msg), k - 1) <= Len(wire) /\ (begun \/ Len(wire) > 0)
         /\ Len(wire) + Len(e) <= Lead(begun) + Total(EventCount(msg), k)
    <2>1. ~ begun => Lead(begun) = 1
      BY DEF Lead
    <2>2. Len(wire) = Lead(begun) + Total(EventCount(msg), k - 1) + c
      BY <1>5, <1>6, <1>7
    <2>3. c + t + 1 <= T.len + Gap(msg, k)
      BY <1>5, <1>7
    <2>4. \A a, b, x, y, z, w, u \in Nat :
            u = x + y + z /\ z + w <= a + b => u + w <= x + (y + a + b)
      OBVIOUS
    <2>5. Gap(msg, k) \in Nat /\ t + 1 \in Nat /\ c + (t + 1) <= T.len + Gap(msg, k)
      BY <1>5, <1>7, <2>3
    <2>6. Len(wire) + (t + 1) <=
              Lead(begun) + (Total(EventCount(msg), k - 1) + T.len + Gap(msg, k))
      BY <1>5, <1>7, <2>2, <2>4, <2>5
    <2>7. Lead(begun) + Total(EventCount(msg), k - 1) <= Len(wire) /\ (Lead(begun) = 1 => Len(wire) > 0)
      BY SMTT(60), <1>5, <1>7, <2>2
    <2> QED
      BY <1>7, <1>9, <2>1, <2>6, <2>7
  <1>12. InPlace(wire', msg, begun) /\ wire' \in Seq(Events) /\ Len(wire') = Begin + c + t + 1
    <2>1. InPlace(wire \o e, msg, begun) /\ wire \o e \in Seq(Events) /\ Len(wire \o e) = Len(wire) + Len(e)
      BY <1>6, <1>7, <1>9, <1>10, <1>11, WithinTransfer, ZenonT(60)
    <2>2. wire' = wire \o e
      BY <1>1 DEF e
    <2>3. Len(wire) + Len(e) = Begin + c + t + 1
      BY SMTT(60), <1>5, <1>6, <1>7, <1>9
    <2> QED
      BY <2>1, <2>2, <2>3, Zenon
  <1>13. ~ ToSend' /\ SentInWait' = hw.count + hw.txnum + 1
    BY <1>1, <1>3, <1>4 DEF ToSend, SentInWait, Regs
  <1>14. /\ wpc' = "wait" /\ T' = T /\ Begin' = Begin /\ msg' = msg /\ begun' = begun /\ k' = k
         /\ actual' = actual /\ cs_change' = cs_change /\ results' = results
    BY <1>1, <1>2 DEF worker, T, Begin
  <1>15. Len(wire') = Begin + SentInWait'
    <2>1. Begin + c + t + 1 = Begin + (c + t + 1)
      BY <1>5, <1>7
    <2>2. SentInWait' = c + t + 1
      BY <1>13 DEF c, t
    <2> QED
      BY <1>12, <2>1, <2>2, Zenon
  <1>16. WireKnows'
    BY <1>2, <1>12, <1>13, <1>14, <1>15 DEF WireInv, WireKnows
  <1>17. WireTypes' /\ MessageOnWire'
    BY <1>12, <1>14 DEF WireInv, WireTypes, MessageOnWire
  <1> QED
    BY <1>16, <1>17 DEF WireInv

\* The interrupt counts the words that are on the wire, and loads the next ones.
LEMMA WireIrqServe == SpiInv /\ WireInv /\ IrqServe => WireInv'
  <1> SUFFICES ASSUME SpiInv, WireInv, IrqServe PROVE WireInv'
    OBVIOUS
  <1> DEFINE count == hw.count + hw.txnum + 1
             last == hw.len - count
             num == NextNum(last)
  <1>1. /\ ipc = "idle" /\ reg.ifl /\ race' = race
        /\ UNCHANGED <<worker, cs, wire, results>>
    BY DEF IrqServe
  <1>2. wpc = "wait"
    BY <1>1 DEF SpiInv, RestKnows, Flags
  <1>3. /\ hw \in Hws /\ reg \in Regs /\ done \in 0 .. 1 /\ hw.tx = T.tx
        /\ done = 0 => BurstStates
        /\ done = 1 => EndStates
    BY <1>2 DEF SpiInv, ControllerTypes, TransferKnows
  <1>4. done = 0
    BY <1>1, <1>3 DEF EndStates, Flags
  <1>5. race = "no" /\ reg.go = FALSE
    BY <1>1, <1>3, <1>4 DEF BurstStates, Flags
  <1>6. SentInWait = count
    BY <1>4, <1>5 DEF SentInWait, ToSend
  <1>7. /\ SentInWait' = SentInWait
        /\ ToSend' => reg'.tx = Load(hw'.txnum, hw'.count, T.tx)
    <2>1. CASE last # 0
      <3>1. /\ hw' = [[hw EXCEPT !.count = count, !.rx = Received] EXCEPT !.txnum = num]
            /\ reg' = gobusy(reg, num, Load(num, count, hw.tx)) /\ done' = done
        BY <2>1 DEF IrqServe
      <3> HIDE DEF count, num
      <3>2. hw'.count = count /\ hw'.txnum = num
        BY <1>3, <3>1 DEF Hws
      <3>3. reg'.go = TRUE /\ reg'.tx = Load(num, count, T.tx)
        BY <1>3, <3>1 DEF Regs, gobusy
      <3>4. ToSend'
        BY <1>1, <1>4, <1>5, <3>1, <3>3 DEF ToSend
      <3> QED
        BY <1>6, <3>2, <3>3, <3>4 DEF SentInWait
    <2>2. CASE last = 0
      <3>1. hw' = [hw EXCEPT !.count = count, !.rx = Received] /\ done' = 1
        BY <1>4, <2>2 DEF IrqServe
      <3> HIDE DEF count
      <3>2. hw'.count = count
        BY <1>3, <3>1 DEF Hws
      <3> QED
        BY <1>6, <3>1, <3>2 DEF SentInWait, ToSend
    <2> QED
      BY <2>1, <2>2
  <1> QED
    BY <1>1, <1>2, <1>7, WireSame DEF worker

\* The edges of the chip select and what the transfer asks for.
LEMMA WireXfer == SpiInv /\ WireInv /\ Xfer => WireInv'
  <1> SUFFICES ASSUME SpiInv, WireInv, Xfer PROVE WireInv'
    OBVIOUS
  <1> DEFINE edge == IF cs_change THEN Select(TRUE) ELSE <<>>
  <1>1. /\ wpc = "xfer" /\ wire' = wire \o edge /\ cs_change' = T.cs_change
        /\ UNCHANGED <<msg, k, actual, begun, done, race, results>>
    BY DEF Xfer
  <1>2. /\ msg \in Seq(Transfers) /\ k \in 1 .. Len(msg) /\ k \in Nat /\ Len(msg) \in Nat
        /\ T.len \in Nat /\ T.tx \in BOOLEAN /\ T.rx \in BOOLEAN /\ T.cs_change \in BOOLEAN
        /\ Lead(begun) \in Nat /\ Begin \in Nat /\ Begin = Lead(begun) + Total(EventCount(msg), k - 1)
        /\ wire \in Seq(Events) /\ Len(wire) \in Nat /\ begun \in BOOLEAN
    BY <1>1, CurrentFacts
  <1>12. /\ Lead(begun) \in Nat /\ Begin \in Nat
         /\ Begin = Lead(begun) + Total(EventCount(msg), k - 1) /\ Len(wire) \in Nat
    BY <1>2
  <1>3. cs \in BOOLEAN /\ cs_change \in BOOLEAN /\ hw \in Hws /\ reg \in Regs
    BY DEF SpiInv, WorkerTypes, ControllerTypes
  <1>4. done = 0 /\ race = "no"
    BY <1>1 DEF SpiInv, RestKnows
  <1>5. T' = T /\ Begin' = Begin
    BY <1>1 DEF T, Begin
  <1>6. InPlace(wire, msg, begun) /\ actual = Total(WordCount(msg), k - 1)
    BY <1>1 DEF WireInv, WireKnows
  <1>7. <<"select">> \in Events /\ << <<"select">> >> \in Seq(Events) /\ Len(<< <<"select">> >>) = 1
    BY DEF Events
  <1>8. InPlace(wire', msg, begun) /\ wire' \in Seq(Events) /\ Len(wire') = Begin
    <2>1. CASE k = 1
      <3>1. wire = <<>> /\ cs_change /\ cs = begun
        BY <1>1, <2>1 DEF WireInv, WireKnows
      <3>2. Total(EventCount(msg), k - 1) = 0
        <4>1. Total(EventCount(msg), 0) = 0
          BY <1>2, MessageTotals
        <4> QED
          BY <2>1, <4>1
      <3>3. CASE begun
        <4>1. edge = <<>>
          BY <1>3, <3>1, <3>3 DEF Select
        <4>2. wire' = wire
          <5>1. wire \o <<>> = wire
            BY <1>2, ConcatEmptySeq
          <5> QED
            BY <1>1, <4>1, <5>1
        <4>3. Len(wire) = 0 /\ Begin = 0
          BY <1>2, <3>1, <3>2, <3>3 DEF Lead
        <4> QED
          BY <1>2, <1>6, <4>2, <4>3
      <3>4. CASE ~ begun
        <4>1. edge = << <<"select">> >>
          BY <1>3, <3>1, <3>4 DEF Select
        <4>2. wire' = << <<"select">> >>
          <5>1. <<>> \o << <<"select">> >> = << <<"select">> >>
            BY <1>7, ConcatEmptySeq
          <5> QED
            BY <1>1, <3>1, <4>1, <5>1
        <4>3. Begin = 1 /\ Lead(begun) = 1
          BY <1>2, <3>2, <3>4 DEF Lead
        <4>4. Len(wire') = 1 /\ wire' \in Seq(Events) /\ wire'[1] = <<"select">>
          BY <1>7, <4>2
        <4>5. ASSUME NEW j \in 1 .. Len(msg), NEW i \in 1 .. Len(OnWire(msg, j))
              PROVE  ~ (PlaceOnWire(msg, begun, j, i) <= 1)
          <5>1. Total(EventCount(msg), j - 1) \in Nat /\ Len(OnWire(msg, j)) \in Nat
            BY <1>2, MessageTotals, OnWireFacts
          <5> QED
            BY <4>3, <5>1 DEF PlaceOnWire
        <4> QED
          BY <4>3, <4>4, <4>5 DEF InPlace
      <3> QED
        BY <3>3, <3>4
    <2>2. CASE k > 1
      <3> DEFINE q == k - 1
      <3>1. q \in 1 .. Len(msg) /\ q \in Nat /\ q < Len(msg)
        BY <1>2, <2>2
      <3>2. /\ cs_change = msg[q].cs_change /\ cs = ~ cs_change
            /\ Len(wire) = Begin - (IF cs_change THEN 1 ELSE 0)
        BY <1>1, <2>2 DEF WireInv, WireKnows
      <3>3. CASE cs_change
        <4>1. edge = << <<"select">> >>
          BY <1>3, <3>2, <3>3 DEF Select
        <4>2. Gap(msg, q) = 2 /\ msg[q].len \in Nat
          BY <1>2, <3>1, <3>2, <3>3, TransferFacts DEF Gap
        <4>3. /\ Total(EventCount(msg), q - 1) \in Nat
              /\ Total(EventCount(msg), q) = Total(EventCount(msg), q - 1) + msg[q].len + 2
          BY <1>2, <3>1, <4>2, MessageTotals
        <4>4. OnWire(msg, q)[msg[q].len + 2] = <<"select">>
          BY <1>2, <3>1, <4>2, OnWireFacts
        <4>5. Begin = Lead(begun) + Total(EventCount(msg), q) /\ Len(wire) = Begin - 1
          BY <1>2, <3>2, <3>3
        <4> HIDE DEF q, edge
        <4>6. /\ Len(wire) = Lead(begun) + Total(EventCount(msg), q - 1) + msg[q].len + 1
              /\ Len(wire) + 1 = Lead(begun) + Total(EventCount(msg), q)
          <5>1. \A a, b, d, x, y \in Nat :
                  x = a + b /\ b = d + y + 2 => x - 1 = a + d + y + 1 /\ (x - 1) + 1 = a + b
            OBVIOUS
          <5>2. Total(EventCount(msg), q) \in Nat
            BY <4>2, <4>3
          <5> QED
            BY SMTT(60), <1>12, <4>2, <4>3, <4>5, <5>1, <5>2
        <4>7. /\ Lead(begun) + Total(EventCount(msg), q - 1) <= Len(wire) /\ (begun \/ Len(wire) > 0)
              /\ Len(wire) + Len(edge) <= Lead(begun) + Total(EventCount(msg), q)
          <5>1. Len(edge) = 1
            BY <1>7, <4>1
          <5> QED
            BY SMTT(60), <1>12, <4>2, <4>3, <4>6, <5>1
        <4>8. edge \in Seq(Events) /\ Len(edge) = 1 /\ edge[1] = <<"select">>
          BY <1>7, <4>1
        <4>9. Len(wire) - (Lead(begun) + Total(EventCount(msg), q - 1)) + 1 = msg[q].len + 2
          <5> DEFINE A == Lead(begun)
                     D == Total(EventCount(msg), q - 1)
                     Y == msg[q].len
                     W == Len(wire)
          <5>1. A \in Nat /\ D \in Nat /\ Y \in Nat /\ W \in Nat /\ W = A + D + Y + 1
            BY <1>12, <4>2, <4>3, <4>6
          <5> HIDE DEF A, D, Y, W
          <5>2. W - (A + D) + 1 = Y + 2
            BY <5>1
          <5> QED
            BY <5>2 DEF A, D, Y, W
        <4>10. \A i \in 1 .. Len(edge) :
                 edge[i] = OnWire(msg, q)[Len(wire) - (Lead(begun) + Total(EventCount(msg), q - 1)) + i]
          <5> SUFFICES ASSUME NEW i \in 1 .. Len(edge)
                       PROVE  edge[i] = OnWire(msg, q)[Len(wire) - (Lead(begun) + Total(EventCount(msg), q - 1)) + i]
            OBVIOUS
          <5>1. i = 1
            BY <4>8
          <5> QED
            BY <4>4, <4>8, <4>9, <5>1
        <4>11. /\ InPlace(wire \o edge, msg, begun) /\ wire \o edge \in Seq(Events)
               /\ Len(wire \o edge) = Len(wire) + Len(edge)
          <5>1. q \in 1 .. Len(msg)
            BY <3>1 DEF q
          <5>2. msg \in Seq(Transfers) /\ wire \in Seq(Events) /\ begun \in BOOLEAN
            BY <1>2
          <5>3. InPlace(wire, msg, begun) /\ edge \in Seq(Events)
            BY <1>6, <4>8
          <5> QED
            BY <4>7, <4>10, <5>1, <5>2, <5>3, WithinTransfer
        <4>12. Len(wire) + Len(edge) = Begin
          BY <1>2, <4>5, <4>8
        <4>13. wire' = wire \o edge
          BY <1>1 DEF edge
        <4> QED
          BY <4>11, <4>12, <4>13, Zenon
      <3>4. CASE ~ cs_change
        <4>1. edge = <<>>
          BY <3>4
        <4>2. wire' = wire
          <5>1. wire \o <<>> = wire
            BY <1>2, ConcatEmptySeq
          <5> QED
            BY <1>1, <4>1, <5>1
        <4>3. Len(wire) = Begin
          BY <1>2, <3>2, <3>4
        <4> QED
          BY <1>2, <1>6, <4>2, <4>3
      <3> QED
        BY <3>3, <3>4
    <2> QED
      BY <1>2, <2>1, <2>2
  <1>9. \A j \in 1 .. k - 1 : ~ Bad(msg[j])
    BY <1>1 DEF WireInv, WireKnows
  <1>10. WireTypes' /\ MessageOnWire'
    BY <1>1, <1>8 DEF WireInv, WireTypes, MessageOnWire
  <1>11. WireKnows'
    <2>1. CASE T.len = 0
      <3>1. wpc' = "ret"
        BY <2>1 DEF Xfer
      <3>2. ~ Bad(T) /\ Len(wire') = Begin + T.len
        BY <1>2, <1>8, <2>1 DEF Bad
      <3> QED
        BY <1>1, <1>5, <1>6, <1>8, <1>9, <3>1, <3>2 DEF WireKnows
    <2>2. CASE T.len > 0 /\ ~ T.tx /\ ~ T.rx
      <3>1. wpc' = "complete" /\ status' = EINVAL
        BY <1>2, <2>2 DEF Xfer
      <3>2. Bad(T)
        BY <2>2 DEF Bad
      <3> QED
        BY <1>1, <1>5, <1>6, <1>8, <1>9, <3>1, <3>2 DEF WireKnows
    <2>3. CASE T.len > 0 /\ (T.tx \/ T.rx)
      <3> DEFINE num == FirstNum(T.len)
      <3>1. /\ wpc' = "wait" /\ hw' = [len |-> T.len, count |-> 0, txnum |-> num, tx |-> T.tx, into |-> T.rx,
                       rx |-> <<>>]
            /\ reg' = gobusy(reg, num, Load(num, 0, T.tx))
        BY <1>2, <2>3 DEF Xfer, txrx
      <3>2. ~ Bad(T)
        BY <2>3 DEF Bad
      <3> HIDE DEF num
      <3>3. hw'.count = 0 /\ hw'.txnum = num
        BY <3>1
      <3>4. reg'.go = TRUE /\ reg'.tx = Load(num, 0, T.tx)
        BY <1>3, <3>1 DEF Regs, gobusy
      <3>5. ToSend' /\ SentInWait' = 0
        BY <1>1, <1>4, <3>3, <3>4 DEF ToSend, SentInWait
      <3>6. Len(wire') = Begin + SentInWait'
        BY <1>2, <1>8, <3>5
      <3>7. reg'.tx = Load(hw'.txnum, hw'.count, T.tx)
        BY <3>3, <3>4
      <3> QED
        BY <1>1, <1>5, <1>6, <1>8, <1>9, <3>1, <3>2, <3>6, <3>7 DEF WireKnows
    <2> QED
      BY <1>2, <2>1, <2>2, <2>3
  <1> QED
    BY <1>10, <1>11 DEF WireInv

\* txrx returns when all words of the transfer are on the wire.
LEMMA WireReturn == SpiInv /\ WireInv /\ txrx_return => WireInv'
  <1> SUFFICES ASSUME SpiInv, WireInv, txrx_return PROVE WireInv'
    OBVIOUS
  <1>1. /\ wpc = "wait" /\ done > 0 /\ wpc' = "ret"
        /\ UNCHANGED <<msg, k, cs_change, actual, begun, wire, results>>
    BY DEF txrx_return
  <1>2. done = 1 /\ hw.count = T.len
    <2>1. done \in 0 .. 1
      BY DEF SpiInv, ControllerTypes
    <2>2. done = 1
      BY <1>1, <2>1
    <2> QED
      BY <1>1, <2>2 DEF SpiInv, TransferKnows
  <1>3. Len(wire) = Begin + T.len
    <2>1. Len(wire) = Begin + SentInWait
      BY <1>1 DEF WireInv, WireKnows
    <2>2. SentInWait = T.len
      BY <1>2 DEF SentInWait
    <2> QED
      BY <2>1, <2>2
  <1>4. T' = T /\ Begin' = Begin
    BY <1>1 DEF T, Begin
  <1>5. WireTypes' /\ MessageOnWire'
    BY <1>1 DEF WireInv, WireTypes, MessageOnWire
  <1>6. WireKnows'
    BY <1>1, <1>3, <1>4 DEF WireInv, WireKnows
  <1> QED
    BY <1>5, <1>6 DEF WireInv

\* The words of a transfer are counted, and the chip is deselected where it asks for it.
LEMMA WireRet == SpiInv /\ WireInv /\ Ret => WireInv'
  <1> SUFFICES ASSUME SpiInv, WireInv, Ret PROVE WireInv'
    OBVIOUS
  <1> DEFINE edge == IF cs_change THEN Select(FALSE) ELSE <<>>
  <1>1. wpc = "ret" /\ actual' = actual + status /\ UNCHANGED <<msg, cs_change, begun, results>>
    BY DEF Ret
  <1>2. cs /\ status = T.len /\ cs \in BOOLEAN /\ cs_change \in BOOLEAN
    BY <1>1 DEF SpiInv, WorkerKnows, WorkerTypes
  <1>3. /\ status' = 0
        /\ k < Len(msg) => /\ k' = k + 1 /\ wpc' = "xfer"
                           /\ cs' = (cs /\ ~ cs_change) /\ wire' = wire \o edge
        /\ ~ (k < Len(msg)) => wpc' = "complete" /\ UNCHANGED <<k, cs, wire>>
    BY <1>2 DEF Ret
  <1>4. /\ msg \in Seq(Transfers) /\ k \in 1 .. Len(msg) /\ k \in Nat /\ Len(msg) \in Nat
        /\ T.len \in Nat /\ wire \in Seq(Events) /\ begun \in BOOLEAN
    BY <1>1, CurrentFacts
  <1>5. /\ Lead(begun) \in Nat /\ Begin \in Nat /\ T.len \in Nat /\ Len(wire) \in Nat
        /\ Begin = Lead(begun) + Total(EventCount(msg), k - 1)
        /\ Total(EventCount(msg), k - 1) \in Nat /\ Total(EventCount(msg), k) \in Nat
        /\ Total(EventCount(msg), k) = Total(EventCount(msg), k - 1) + T.len + Gap(msg, k)
        /\ Total(WordCount(msg), k) = Total(WordCount(msg), k - 1) + T.len
        /\ Total(WordCount(msg), k - 1) \in Nat /\ Gap(msg, k) \in {0, 2}
    BY <1>1, CurrentFacts
  <1>6. /\ InPlace(wire, msg, begun) /\ (\A j \in 1 .. k - 1 : ~ Bad(msg[j])) /\ ~ Bad(T)
        /\ actual = Total(WordCount(msg), k - 1) /\ cs_change = T.cs_change
        /\ Len(wire) = Begin + T.len
    BY <1>1 DEF WireInv, WireKnows
  <1>7. actual' = Total(WordCount(msg), k) /\ actual' \in Int
    BY <1>1, <1>2, <1>5, <1>6
  <1>8. MessageOnWire'
    BY <1>1 DEF WireInv, MessageOnWire
  <1>9. CASE ~ (k < Len(msg))
    <2>1. k = Len(msg)
      BY <1>4, <1>9
    <2>2. wpc' = "complete" /\ T' = T /\ Begin' = Begin /\ wire' = wire /\ k' = k
      BY <1>1, <1>3, <1>9 DEF T, Begin
    <2>3. WireTypes'
      BY <1>1, <1>7, <2>2 DEF WireInv, WireTypes
    <2>4. WireKnows'
      BY <1>1, <1>3, <1>6, <1>7, <2>1, <2>2 DEF WireKnows
    <2> QED
      BY <1>8, <2>3, <2>4 DEF WireInv
  <1>10. CASE k < Len(msg)
    <2>1. /\ k' = k + 1 /\ wpc' = "xfer" /\ cs' = (cs /\ ~ cs_change) /\ wire' = wire \o edge
      BY <1>3, <1>10
    <2>2. k' - 1 = k /\ k' > 1
      BY <1>4, <2>1
    <2>3. Begin' = Lead(begun) + Total(EventCount(msg), k)
      BY <1>1, <2>2 DEF Begin
    <2>4. Gap(msg, k) = IF cs_change THEN 2 ELSE 0
      BY <1>6, <1>10 DEF Gap, T
    <2>5. /\ InPlace(wire', msg, begun) /\ wire' \in Seq(Events)
          /\ Len(wire') = Begin' - (IF cs_change THEN 1 ELSE 0)
      <3>1. CASE cs_change
        <4>1. edge = << <<"deselect">> >>
          BY <1>2, <3>1 DEF Select
        <4>2. edge \in Seq(Events) /\ Len(edge) = 1 /\ edge[1] = <<"deselect">>
          <5>1. /\ << <<"deselect">> >> \in Seq(Events) /\ Len(<< <<"deselect">> >>) = 1
                /\ << <<"deselect">> >>[1] = <<"deselect">>
            BY DEF Events
          <5> QED
            BY <4>1, <5>1, Zenon
        <4> HIDE DEF edge
        <4> DEFINE A == Lead(begun)
                   D == Total(EventCount(msg), k - 1)
                   E == Total(EventCount(msg), k)
                   Y == T.len
                   W == Len(wire)
        <4>3. /\ A \in Nat /\ D \in Nat /\ Y \in Nat /\ W \in Nat /\ W = A + D + Y
              /\ E \in Nat /\ E = D + Y + 2
          BY <1>5, <1>6, <2>4, <3>1
        <4>4. ~ begun => A = 1
          BY DEF Lead
        <4>5. OnWire(msg, k)[Y + 1] = <<"deselect">>
          BY <1>4, <2>4, <3>1, OnWireFacts DEF T
        <4> HIDE DEF A, D, E, Y, W
        <4>6. A + D <= W /\ (begun \/ W > 0) /\ W + 1 <= A + E /\ W - (A + D) + 1 = Y + 1
          BY <4>3, <4>4
        <4>8. \A i \in 1 .. Len(edge) : edge[i] = OnWire(msg, k)[W - (A + D) + i]
          <5> SUFFICES ASSUME NEW i \in 1 .. Len(edge)
                       PROVE  edge[i] = OnWire(msg, k)[W - (A + D) + i]
            OBVIOUS
          <5>1. i = 1
            BY <4>2
          <5> QED
            BY <4>2, <4>5, <4>6, <5>1
        <4>9. W + Len(edge) <= A + E
          BY <4>2, <4>6
        <4>10. /\ InPlace(wire \o edge, msg, begun) /\ wire \o edge \in Seq(Events)
               /\ Len(wire \o edge) = Len(wire) + Len(edge)
          BY <1>4, <1>6, <4>2, <4>6, <4>8, <4>9, WithinTransfer, ZenonT(60) DEF A, D, E, W
        <4>11. Len(wire) + Len(edge) = Begin' - 1
          <5>1. W + 1 = (A + E) - 1
            BY <4>3
          <5> QED
            BY <2>3, <4>2, <5>1, Zenon DEF A, E, W
        <4>12. wire' = wire \o edge
          BY <2>1 DEF edge
        <4> QED
          BY <3>1, <4>10, <4>11, <4>12, Zenon
      <3>2. CASE ~ cs_change
        <4>1. wire \o <<>> = wire
          BY <1>4, ConcatEmptySeq
        <4>2. wire' = wire
          BY <2>1, <3>2, <4>1
        <4>3. Len(wire) = Begin' - 0
          BY <1>5, <1>6, <2>3, <2>4, <3>2
        <4> QED
          BY <1>4, <1>6, <3>2, <4>2, <4>3
      <3> QED
        BY <3>1, <3>2
    <2>6. WireTypes'
      BY <1>1, <1>7, <2>5 DEF WireInv, WireTypes
    <2>7. \A j \in 1 .. k : ~ Bad(msg[j])
      <3> SUFFICES ASSUME NEW j \in 1 .. k PROVE ~ Bad(msg[j])
        OBVIOUS
      <3>1. j = k \/ j \in 1 .. k - 1
        BY <1>4
      <3> QED
        BY <1>6, <3>1 DEF T
    <2>8. cs_change = msg[k].cs_change /\ cs' = ~ cs_change
      BY <1>2, <1>6, <2>1 DEF T
    <2>9. WireKnows'
      <3>1. (\A j \in 1 .. k - 1 : ~ Bad(msg[j]))' /\ (actual = Total(WordCount(msg), k - 1))'
        BY <1>1, <1>7, <2>2, <2>7
      <3>2. (cs_change = msg[k - 1].cs_change /\ cs = ~ cs_change)'
        BY <1>1, <2>2, <2>8
      <3>3. InPlace(wire, msg, begun)' /\ (Len(wire) = Begin - (IF cs_change THEN 1 ELSE 0))'
        BY <1>1, <2>5
      <3>4. wpc' = "xfer" /\ k' # 1
        BY <2>1, <2>2
      <3> QED
        BY <3>1, <3>2, <3>3, <3>4 DEF WireKnows
    <2> QED
      BY <1>8, <2>6, <2>9 DEF WireInv
  <1> QED
    BY <1>9, <1>10

\* What a message completes with is what is on the wire.
LEMMA WireComplete == SpiInv /\ WireInv /\ Complete => WireInv'
  <1> SUFFICES ASSUME SpiInv, WireInv, Complete PROVE WireInv'
    OBVIOUS
  <1> DEFINE r == [msg |-> msg, status |-> status, actual |-> actual, wire |-> wire,
                   begun |-> begun, race |-> race]
  <1>1. /\ wpc = "complete" /\ results' = Append(results, r) /\ wpc' = "relock"
        /\ UNCHANGED <<wire, begun, actual>>
    BY DEF Complete
  <1>2. /\ msg \in Seq(Transfers) /\ k \in 1 .. Len(msg) /\ k \in Nat /\ Len(msg) \in Nat
        /\ wire \in Seq(Events) /\ begun \in BOOLEAN
    BY <1>1, CurrentFacts
  <1>3. /\ Begin = Lead(begun) + Total(EventCount(msg), k - 1) /\ T.len \in Nat
        /\ Total(EventCount(msg), k) = Total(EventCount(msg), k - 1) + T.len + Gap(msg, k)
        /\ Lead(begun) \in Nat /\ Total(EventCount(msg), k - 1) \in Nat
    BY <1>1, CurrentFacts
  <1>4. PICK S : results \in Seq(S)
    BY DEF WireInv, WireTypes
  <1>5. InPlace(wire, msg, begun) /\ \A j \in 1 .. k - 1 : ~ Bad(msg[j])
    BY <1>1 DEF WireInv, WireKnows
  <1>6. /\ status = (IF Good(msg) = Len(msg) THEN 0 ELSE EINVAL)
        /\ Shows(wire, msg, begun, Good(msg))
        /\ actual = Total(WordCount(msg), Good(msg))
    <2>1. CASE status = 0
      <3>1. /\ k = Len(msg) /\ ~ Bad(T) /\ Len(wire) = Begin + T.len
            /\ actual = Total(WordCount(msg), k)
        BY <1>1, <2>1 DEF WireInv, WireKnows, EINVAL
      <3>2. \A j \in 1 .. Len(msg) : ~ Bad(msg[j])
        <4> SUFFICES ASSUME NEW j \in 1 .. Len(msg) PROVE ~ Bad(msg[j])
          OBVIOUS
        <4>1. j = k \/ j \in 1 .. k - 1
          BY <1>2, <3>1
        <4> QED
          BY <1>5, <3>1, <4>1 DEF T
      <3>3. Good(msg) = Len(msg)
        BY <1>2, <3>2, GoodIs
      <3>4. Gap(msg, k) = 0
        BY <1>2, <3>1 DEF Gap
      <3>5. Len(wire) = Lead(begun) + Total(EventCount(msg), k)
        BY SMTT(60), <1>3, <3>1, <3>4
      <3>6. k \in 0 .. Len(msg)
        BY <1>2
      <3>7. Shows(wire, msg, begun, k)
        BY <1>2, <1>5, <3>5, <3>6, ShowsAll
      <3> QED
        BY <2>1, <3>1, <3>3, <3>7
    <2>2. CASE status # 0
      <3>1. /\ status = EINVAL /\ Bad(T) /\ Len(wire) = Begin
            /\ actual = Total(WordCount(msg), k - 1)
        BY <1>1, <2>2 DEF WireInv, WireKnows
      <3>2. Good(msg) = k - 1
        BY <1>2, <1>5, <3>1, GoodIs DEF T
      <3>3. k - 1 \in 0 .. Len(msg) /\ k - 1 # Len(msg)
        BY <1>2
      <3>4. Shows(wire, msg, begun, k - 1)
        BY <1>2, <1>3, <1>5, <3>1, <3>3, ShowsAll
      <3>5. EINVAL \in Int
        BY DEF EINVAL
      <3> QED
        BY <3>1, <3>2, <3>3, <3>4, <3>5
    <2> QED
      BY <2>1, <2>2
  <1>7. results \in Seq(S \cup {r}) /\ Append(results, r) \in Seq(S \cup {r})
    <2> HIDE DEF r
    <2> QED
      BY <1>4
  <1>8. WireTypes'
    BY <1>1, <1>7, Zenon DEF WireInv, WireTypes
  <1>9. MessageOnWire'
    <2> SUFFICES ASSUME NEW i \in DOMAIN results'
                 PROVE  results'[i].race # "again" =>
                        /\ results'[i].status = (IF Good(results'[i].msg) = Len(results'[i].msg) THEN 0 ELSE EINVAL)
                        /\ Shows(results'[i].wire, results'[i].msg, results'[i].begun, Good(results'[i].msg))
                        /\ results'[i].actual = Total(WordCount(results'[i].msg), Good(results'[i].msg))
      BY DEF MessageOnWire
    <2>1. /\ Len(results') = Len(results) + 1 /\ results'[Len(results) + 1] = r
          /\ \A j \in 1 .. Len(results) : results'[j] = results[j]
          /\ DOMAIN results' = 1 .. Len(results')
          /\ DOMAIN results = 1 .. Len(results) /\ Len(results) \in Nat
      <3> HIDE DEF r
      <3> QED
        BY <1>1, <1>7, AppendProperties
    <2>2. i \in DOMAIN results \/ i = Len(results) + 1
      BY <2>1
    <2>3. CASE i \in DOMAIN results
      <3>1. results'[i] = results[i]
        BY <2>1, <2>3
      <3> QED
        BY <2>3, <3>1 DEF WireInv, MessageOnWire
    <2>4. CASE i = Len(results) + 1
      <3>1. results'[i] = r
        BY <2>1, <2>4
      <3>2. r.msg = msg /\ r.status = status /\ r.actual = actual /\ r.wire = wire /\ r.begun = begun
        OBVIOUS
      <3> HIDE DEF r
      <3> QED
        BY <1>6, <3>1, <3>2
    <2> QED
      BY <2>2, <2>3, <2>4
  <1>10. WireKnows'
    BY <1>1 DEF WireKnows
  <1> QED
    BY <1>8, <1>9, <1>10 DEF WireInv

\* It holds when the driver is probed.
LEMMA WireInit == SpiInit => WireInv
  <1> SUFFICES ASSUME SpiInit PROVE WireInv
    OBVIOUS
  <1>1. wire = <<>> /\ results = <<>> /\ begun = FALSE /\ actual = 0 /\ wpc = "idle"
    BY DEF SpiInit
  <1>2. WireTypes
    <2>1. <<>> \in Seq(Events)
      BY EmptySeq
    <2>2. \E S : results \in Seq(S)
      BY <1>1, EmptySeq, Zenon
    <2>3. wire \in Seq(Events)
      BY <1>1, <2>1, Zenon
    <2>4. begun \in BOOLEAN
      BY <1>1, Zenon
    <2>5. actual = 0
      BY <1>1, Zenon
    <2>6. actual \in Int
      BY <2>5, SMT
    <2> QED
      BY <2>2, <2>3, <2>4, <2>6, Zenon DEF WireTypes
  <1>3. MessageOnWire
    BY <1>1 DEF MessageOnWire
  <1>4. WireKnows
    BY <1>1 DEF WireKnows
  <1> QED
    BY <1>2, <1>3, <1>4 DEF WireInv

\* Every step of a client, of the worker, of the handler and of the hardware keeps it.
LEMMA WireStep == SpiInv /\ WireInv /\ [SpiNext]_vars => WireInv'
  <1> SUFFICES ASSUME SpiInv, WireInv, [SpiNext]_vars PROVE WireInv'
    OBVIOUS
  <1>1. /\ wpc \in {"idle", "xfer", "wait", "ret", "complete", "relock"} /\ cs \in BOOLEAN
        /\ queue \in Seq(Messages) /\ (more => queue # <<>>) /\ (busy <=> wpc # "idle")
        /\ busy \in BOOLEAN
    BY DEF SpiInv, WorkerTypes, WorkerKnows
  <1>2. ASSUME UNCHANGED <<worker, cs, hard, wire, results>> PROVE WireInv'
    <2>1. SentInWait' = SentInWait /\ ToSend' = ToSend /\ reg' = reg /\ hw' = hw
      BY <1>2 DEF hard, SentInWait, ToSend
    <2>2. wpc = "wait" /\ ToSend => reg.tx = Load(hw.txnum, hw.count, T.tx)
      BY DEF WireInv, WireKnows
    <2> QED
      BY <1>1, <1>2, <2>1, <2>2, WireSame DEF worker
  <1>3. ASSUME NEW m \in Messages, Submit(m) PROVE WireInv'
    BY <1>2, <1>3 DEF Submit
  <1>4. CASE Setup
    <2>1. wpc = "xfer" => cs' = cs
      BY <1>1, <1>4 DEF Setup
    <2>2. UNCHANGED <<worker, hard, wire, results>>
      BY <1>4 DEF Setup
    <2>3. SentInWait' = SentInWait /\ ToSend' = ToSend /\ reg' = reg /\ hw' = hw
      BY <2>2 DEF hard, SentInWait, ToSend
    <2>4. wpc = "wait" /\ ToSend => reg.tx = Load(hw.txnum, hw.count, T.tx)
      BY DEF WireInv, WireKnows
    <2> QED
      BY <1>1, <2>1, <2>2, <2>3, <2>4, WireSame DEF worker
  <1>5. CASE WorkBegin
    <2>1. CASE queue = <<>>
      BY <1>2, <1>5, <2>1 DEF WorkBegin
    <2>2. CASE queue # <<>>
      <3>1. TakeHead /\ UNCHANGED <<cs, results>>
        BY <1>5, <2>2 DEF WorkBegin
      <3>2. msg' \in Seq(Transfers) /\ k' \in 1 .. Len(msg') /\ k' = 1
        BY <1>1, <2>2, <3>1, TakeHeadFacts DEF TakeHead
      <3> QED
        BY <1>1, <3>1, <3>2, WireTaken
    <2> QED
      BY <2>1, <2>2
  <1>6. CASE Relock
    <2>1. CASE more
      <3>1. TakeHead /\ UNCHANGED <<cs, results>>
        BY <1>6, <2>1 DEF Relock
      <3>2. msg' \in Seq(Transfers) /\ k' \in 1 .. Len(msg') /\ k' = 1
        BY <1>1, <2>1, <3>1, TakeHeadFacts DEF TakeHead
      <3> QED
        BY <1>1, <3>1, <3>2, WireTaken
    <2>2. CASE ~ more
      <3>1. wpc' = "idle" /\ UNCHANGED <<actual, begun, wire, results>>
        BY <1>6, <2>2 DEF Relock
      <3>2. WireTypes' /\ MessageOnWire'
        BY <3>1 DEF WireInv, WireTypes, MessageOnWire
      <3>3. WireKnows'
        BY <3>1 DEF WireKnows
      <3> QED
        BY <3>2, <3>3 DEF WireInv
    <2> QED
      BY <2>1, <2>2
  <1>7. CASE IrqRead
    <2>1. UNCHANGED <<worker, cs, hw, reg, done, race, wire, results>>
      BY <1>7 DEF IrqRead
    <2>2. SentInWait' = SentInWait /\ ToSend' = ToSend /\ reg' = reg /\ hw' = hw
      BY <2>1 DEF SentInWait, ToSend
    <2>3. wpc = "wait" /\ ToSend => reg.tx = Load(hw.txnum, hw.count, T.tx)
      BY DEF WireInv, WireKnows
    <2> QED
      BY <1>1, <2>1, <2>2, <2>3, WireSame DEF worker
  <1>8. CASE IrqAck
    <2>1. /\ UNCHANGED <<worker, cs, hw, done, race, wire, results>>
          /\ reg' = Acknowledged(reg) /\ ipc = "ack"
      BY <1>8 DEF IrqAck
    <2>2. reg'.tx = reg.tx /\ reg'.go = (reg.go \/ saved.go) /\ reg.go \in BOOLEAN /\ saved.go \in BOOLEAN
      BY <2>1 DEF SpiInv, ControllerTypes, Regs, Acknowledged
    <2>3. wpc = "wait" /\ done = 0 /\ race = "no" => reg.go
      BY <2>1 DEF SpiInv, TransferKnows, BurstStates, Flags
    <2>4. wpc = "wait" => ToSend' = ToSend
      BY <2>1, <2>2, <2>3 DEF ToSend
    <2>5. wpc = "wait" => SentInWait' = SentInWait
      BY <2>1, <2>4 DEF SentInWait
    <2>6. wpc = "wait" /\ ToSend => reg.tx = Load(hw.txnum, hw.count, T.tx)
      BY DEF WireInv, WireKnows
    <2> QED
      BY <1>1, <2>1, <2>2, <2>4, <2>5, <2>6, WireSame DEF worker
  <1>9. CASE UNCHANGED vars
    BY <1>2, <1>9 DEF vars
  <1> QED
    BY <1>3, <1>4, <1>5, <1>6, <1>7, <1>8, <1>9, WireXfer, WireReturn, WireRet, WireComplete,
       WireIrqServe, WireBurstEnd DEF SpiNext, Worker, Handler

\* The results of the messages are kept, and those without a race are true ones.
ResultsKept == (\E S : results \in Seq(S)) /\ MessageOnWire

\* What a message completes with after a race changes nothing for the others.
LEMMA ResultsKeptStep ==
  ASSUME ResultsKept, [SpiNext]_vars, race' = "again"
  PROVE  ResultsKept'
  <1>1. CASE results' = results
    BY <1>1 DEF ResultsKept, MessageOnWire
  <1>2. CASE Complete
    <2> DEFINE r == [msg |-> msg, status |-> status, actual |-> actual, wire |-> wire,
                     begun |-> begun, race |-> race]
    <2>1. results' = Append(results, r) /\ race = "again"
      BY <1>2 DEF Complete, hard
    <2>2. r.race = "again"
      BY <2>1
    <2> HIDE DEF r
    <2>3. PICK S : results \in Seq(S)
      BY DEF ResultsKept
    <2>4. results \in Seq(S \cup {r}) /\ results' \in Seq(S \cup {r})
      BY <2>1, <2>3
    <2>5. /\ Len(results') = Len(results) + 1 /\ results'[Len(results) + 1] = r
          /\ \A j \in 1 .. Len(results) : results'[j] = results[j]
          /\ DOMAIN results' = 1 .. Len(results')
          /\ DOMAIN results = 1 .. Len(results) /\ Len(results) \in Nat
      BY <2>1, <2>4, AppendProperties
    <2>6. \A i \in DOMAIN results' : i \in DOMAIN results \/ i = Len(results) + 1
      BY <2>5
    <2>7. \A i \in DOMAIN results' :
             \/ i \in DOMAIN results /\ results'[i] = results[i]
             \/ results'[i].race = "again"
      BY <2>2, <2>5, <2>6
    <2>8. MessageOnWire'
      BY <2>7, Zenon DEF ResultsKept, MessageOnWire
    <2> QED
      BY <2>4, <2>8 DEF ResultsKept
  <1>3. results' = results \/ Complete
    <2>1. ASSUME NEW m \in Messages, Submit(m) PROVE results' = results
      BY <2>1 DEF Submit
    <2>2. Worker => results' = results \/ Complete
      BY DEF Worker, WorkBegin, Xfer, txrx_return, Ret, Relock
    <2>3. Setup \/ Handler \/ BurstEnd \/ UNCHANGED vars => results' = results
      BY DEF Setup, Handler, IrqServe, IrqRead, IrqAck, BurstEnd, vars
    <2> QED
      BY <2>1, <2>2, <2>3 DEF SpiNext
  <1> QED
    BY <1>1, <1>2, <1>3

\* Whatever the messages and however their bursts and interrupts fall, a completed
\* message has put exactly its words on the wire, in order, with the edges of the chip
\* select that cs_change asks for, and actual_length counts them; the only error is that
\* of a transfer without a buffer, with everything before it sent.  The messages
\* completed after the handler's write back has started a burst again are excepted;
\* those completed before stay as they are.
THEOREM SpiMessageOnWire == SpiSpec => []MessageOnWire
  <1> DEFINE Inv == ResultsKept /\ (race # "again" => SpiInv /\ WireInv)
  <1>1. SpiInit => Inv
    BY SpiInitInv, WireInit DEF WireInv, WireTypes, ResultsKept
  <1>2. Inv /\ [SpiNext]_vars => Inv'
    <2> SUFFICES ASSUME Inv, [SpiNext]_vars PROVE Inv'
      OBVIOUS
    <2>1. CASE race' = "again"
      BY <2>1, ResultsKeptStep
    <2>2. CASE race' # "again"
      <3>1. race # "again" /\ SpiInv /\ WireInv
        BY <2>2, AgainStays
      <3>2. SpiInv' /\ WireInv'
        BY <2>2, <3>1, SpiStepInv, WireStep
      <3> QED
        BY <3>2 DEF WireInv, WireTypes, ResultsKept
    <2> QED
      BY <2>1, <2>2
  <1>3. Inv => MessageOnWire
    BY DEF ResultsKept
  <1> QED
    BY <1>1, <1>2, <1>3, PTL DEF SpiSpec
=============================================================================

-------------------------------- MODULE Spi ---------------------------------
(***************************************************************************)
(* drivers/spi/spi-nuc970-p0.c under the queue of spi-bitbang.c: messages  *)
(* of several transfers, sent by a worker in bursts of up to four words    *)
(* whose interrupt starts the next burst.                                  *)
(*                                                                         *)
(* One CPU: no step of a process is taken while the handler runs.  Words   *)
(* are 8 bits wide (the board's only device), so len counts words.  A word *)
(* on the wire is named by its place in the buffer; the answer to the k-th *)
(* word of a transfer is k.  IF is cleared by writing it as 1, GOBUSY is   *)
(* cleared by the hardware at the end of a burst.                          *)
(*                                                                         *)
(* The handler ends with a read and a write of CNTRL.  A burst that ends   *)
(* between the two is started again by the write, and from then on the     *)
(* handler's count and the wire are out of step: race = "again".  What     *)
(* follows is modelled (words sent twice, completions with a burst on the  *)
(* way, a count that runs past len); no property speaks of the words and   *)
(* answers of that time, so they keep the names the registers give them.   *)
(***************************************************************************)
EXTENDS Integers, Sequences, Totals

CONSTANTS
    Transfers,   \* struct spi_transfer: [len, tx, rx, cs_change]; tx, rx: there is a buffer
    PerMessage,  \* bound: transfers of a message
    MaxMsgs,     \* bound: messages
    MaxSetups,   \* bound: calls of spi_setup
    MaxExtra     \* bound: ends of bursts once one was started again

Words == 4       \* TX0 .. TX3
EINVAL == -22
EREMOTEIO == -121
ones == -1       \* 0xffffffff

ASSUME SpiConstants ==
    /\ Transfers \subseteq [len : Nat, tx : BOOLEAN, rx : BOOLEAN, cs_change : BOOLEAN]
    /\ {PerMessage, MaxMsgs, MaxSetups, MaxExtra} \subseteq Nat

VARIABLES
    queue,    \* bitbang->queue: messages
    pending,  \* the work is queued
    busy,     \* bitbang->busy
    wpc,      \* worker: "idle", "next", "xfer", "wait", "ret", "complete", "relock"
    msg, k,   \* the message being sent, its current transfer
    more,     \* list_for_each_entry_safe: the saved next entry is a message
    cs_change, status,  \* the locals of bitbang_work; status: a count or an error
    actual,   \* m->actual_length
    cs,       \* SSR: the chip is selected
    hw,       \* struct nuc970_spi: len, count, txnum; tx, into: hw->tx and hw->rx are set;
              \* rx: what has been stored in the buffer, from its start
    reg,      \* the controller: go, ifl (IF), TXNUM, words in TX0.., answers in RX0..
    done,     \* the completion
    ipc, saved, \* handler: "idle", "read", "ack"; CNTRL as it read it
    race,     \* the burst ended inside the handler: "no", "lost" before the read of CNTRL,
              \* "again" between the read and the write
    wire,     \* edges of the chip select and words of the message so far
    begun,    \* the chip was still selected when the message began
    results,  \* what the messages completed with
    n         \* messages submitted, calls of spi_setup, bursts ended since race = "again"

worker == <<wpc, msg, k, more, cs_change, status, actual, begun>>
hard   == <<hw, reg, done, ipc, saved, race>>
vars   == <<queue, pending, busy, worker, cs, hard, wire, results, n>>

Messages == UNION {[1 .. l -> Transfers] : l \in 1 .. PerMessage}
T == msg[k]
HandlerIdle == ipc = "idle"

SpiInit ==
    /\ queue = <<>> /\ pending = FALSE /\ busy = FALSE
    /\ wpc = "idle" /\ msg = <<>> /\ k = 0 /\ more = FALSE /\ cs_change = TRUE /\ status = 0
    /\ actual = 0
    /\ cs = FALSE /\ begun = FALSE
    /\ hw = [len |-> 0, count |-> 0, txnum |-> 0, tx |-> FALSE, into |-> FALSE, rx |-> <<>>]
    /\ reg = [go |-> FALSE, ifl |-> FALSE, TXNUM |-> 0, tx |-> <<>>, rx |-> <<>>]
    /\ done = 0 /\ ipc = "idle" /\ saved = [go |-> FALSE, ifl |-> FALSE] /\ race = "no"
    /\ wire = <<>> /\ results = <<>> /\ n = [msgs |-> 0, setups |-> 0, extra |-> 0]

-----------------------------------------------------------------------------
(* Mutants: definitions below with a plausible bug, to show that each        *)
(* property can fail.  No specification uses them.                           *)

\* the words of every burst are taken from the start of the buffer
LoadFirst(txnum, first, tx) == [i \in 1 .. txnum + 1 |-> IF tx THEN i - 1 ELSE ones]

\* the acknowledgement leaves GOBUSY out
AcknowledgedOnly(r) == [r EXCEPT !.ifl = @ /\ ~ saved.ifl, !.go = FALSE]

\* the work is queued only if it is not running
SubmitWhenIdle(m) ==
    /\ HandlerIdle /\ n.msgs < MaxMsgs
    /\ queue' = Append(queue, m) /\ pending' = (pending \/ ~ busy)
    /\ n' = [n EXCEPT !.msgs = @ + 1]
    /\ UNCHANGED <<busy, worker, cs, hard, wire, results>>

-----------------------------------------------------------------------------
(* Clients *)

\* spi_bitbang_transfer
Submit(m) ==
    /\ HandlerIdle /\ n.msgs < MaxMsgs
    /\ queue' = Append(queue, m) /\ pending' = TRUE
    /\ n' = [n EXCEPT !.msgs = @ + 1]
    /\ UNCHANGED <<busy, worker, cs, hard, wire, results>>

\* nuc970_spi0_setup deselects the chip unless the queue is running
Setup ==
    /\ HandlerIdle /\ n.setups < MaxSetups
    /\ cs' = (cs /\ busy)
    /\ n' = [n EXCEPT !.setups = @ + 1]
    /\ UNCHANGED <<queue, pending, busy, worker, hard, wire, results>>

-----------------------------------------------------------------------------
(* The controller, as bitbang_work calls it *)

\* words for a burst of txnum + 1 from the place first on: hw_tx
Load(txnum, first, tx) == [i \in 1 .. txnum + 1 |-> IF tx THEN first + i - 1 ELSE ones]

\* A read-modify-write of CNTRL that sets TXNUM or GOBUSY: IF read as 1 is
\* written as 1, and so cleared.
gobusy(r, txnum, words) == [r EXCEPT !.ifl = FALSE, !.go = TRUE, !.TXNUM = txnum, !.tx = words]

\* the first burst of a transfer
FirstNum(len) == IF len >= Words THEN Words - 1 ELSE len - 1

txrx ==
    LET num == FirstNum(T.len)
    IN  /\ hw' = [len |-> T.len, count |-> 0, txnum |-> num, tx |-> T.tx, into |-> T.rx, rx |-> <<>>]
        /\ reg' = gobusy(reg, num, Load(num, 0, T.tx))

\* wait_for_completion, and the rest of txrx
txrx_return ==
    /\ wpc = "wait" /\ HandlerIdle /\ done > 0
    /\ done' = done - 1 /\ status' = hw.count /\ wpc' = "ret"
    /\ UNCHANGED <<queue, pending, busy, msg, k, more, cs_change, actual, begun, cs,
                   hw, reg, ipc, saved, race, wire, results, n>>

\* the hardware ends a burst: TXNUM + 1 words have been sent and answered
BurstEnd ==
    /\ reg.go /\ n.extra < MaxExtra
    /\ wire' = wire \o [i \in 1 .. reg.TXNUM + 1 |-> <<k, reg.tx[i]>>]
    /\ reg' = [reg EXCEPT !.go = FALSE, !.ifl = TRUE,
                          !.rx = [i \in 1 .. reg.TXNUM + 1 |-> hw.count + i - 1]]
    /\ race' = IF race = "again" \/ ipc = "idle" THEN race
               ELSE IF ipc = "read" THEN "lost" ELSE "again"
    /\ n' = [n EXCEPT !.extra = IF race = "again" THEN @ + 1 ELSE @]
    /\ UNCHANGED <<queue, pending, busy, worker, cs, hw, done, ipc, saved, results>>

-----------------------------------------------------------------------------
(* nuc970_spi0_irq *)

\* what the answers of the burst make of the buffer
Received == IF hw.into THEN hw.rx \o SubSeq(reg.rx, 1, hw.txnum + 1) ELSE hw.rx

\* txnum is changed for the last four words only
NextNum(last) == IF last \in 1 .. Words THEN last - 1 ELSE hw.txnum

IrqServe ==
    LET count == hw.count + hw.txnum + 1
        last  == hw.len - count    \* unsigned in C: below zero counts as large
        num   == NextNum(last)
        read  == [hw EXCEPT !.count = count, !.rx = Received]
    IN  /\ ipc = "idle" /\ reg.ifl
        /\ ipc' = "read"
        /\ IF last # 0
           THEN /\ hw' = [read EXCEPT !.txnum = num]
                /\ reg' = gobusy(reg, num, Load(num, count, hw.tx))
                /\ UNCHANGED done
           ELSE /\ hw' = read /\ done' = done + 1
                /\ UNCHANGED reg
        /\ UNCHANGED <<queue, pending, busy, worker, cs, saved, race, wire, results, n>>

\* status = CNTRL
IrqRead ==
    /\ ipc = "read"
    /\ saved' = [go |-> reg.go, ifl |-> reg.ifl] /\ ipc' = "ack"
    /\ UNCHANGED <<queue, pending, busy, worker, cs, hw, reg, done, race, wire, results, n>>

\* CNTRL = status: clears IF if it was read as 1, starts a burst if GOBUSY was
Acknowledged(r) == [r EXCEPT !.ifl = @ /\ ~ saved.ifl, !.go = @ \/ saved.go]

IrqAck ==
    /\ ipc = "ack"
    /\ reg' = Acknowledged(reg) /\ ipc' = "idle"
    /\ UNCHANGED <<queue, pending, busy, worker, cs, hw, done, saved, race, wire, results, n>>

-----------------------------------------------------------------------------
(* bitbang_work *)

\* the next message is taken from the list, under the lock
TakeHead ==
    /\ msg' = Head(queue) /\ queue' = Tail(queue) /\ more' = (Len(queue) > 1)
    /\ k' = 1 /\ cs_change' = TRUE /\ status' = 0 /\ actual' = 0 /\ begun' = cs
    /\ wire' = <<>> /\ wpc' = "xfer"

WorkBegin ==
    /\ wpc = "idle" /\ pending /\ HandlerIdle
    /\ pending' = FALSE
    /\ \/ /\ queue = <<>>
          /\ UNCHANGED <<queue, busy, worker, wire>>
       \/ /\ queue # <<>>
          /\ busy' = TRUE /\ TakeHead
    /\ UNCHANGED <<cs, hard, results, n>>

\* the edge of the chip select, if it is one
Select(on) == IF cs = on THEN <<>> ELSE << <<IF on THEN "select" ELSE "deselect">> >>

\* setup_transfer, chipselect, and what the transfer asks for
Xfer ==
    /\ wpc = "xfer" /\ HandlerIdle
    /\ cs' = (cs \/ cs_change)
    /\ wire' = wire \o (IF cs_change THEN Select(TRUE) ELSE <<>>)
    /\ cs_change' = T.cs_change
    /\ CASE T.len = 0 ->
                wpc' = "ret" /\ UNCHANGED <<status, hw, reg>>
         [] T.len > 0 /\ ~ T.tx /\ ~ T.rx ->
                wpc' = "complete" /\ status' = EINVAL /\ UNCHANGED <<hw, reg>>
         [] OTHER ->
                wpc' = "wait" /\ txrx /\ UNCHANGED status
    /\ UNCHANGED <<queue, pending, busy, msg, k, more, actual, begun, done, ipc, saved, race,
                   results, n>>

\* the status of a transfer, and the way to the next one
Ret ==
    /\ wpc = "ret" /\ HandlerIdle
    /\ actual' = actual + status
    /\ IF status # T.len
       THEN /\ status' = EREMOTEIO /\ wpc' = "complete"
            /\ UNCHANGED <<k, cs, wire>>
       ELSE /\ status' = 0
            /\ IF k < Len(msg)
               THEN /\ k' = k + 1 /\ wpc' = "xfer"
                    /\ cs' = (cs /\ ~ cs_change)
                    /\ wire' = wire \o (IF cs_change THEN Select(FALSE) ELSE <<>>)
               ELSE wpc' = "complete" /\ UNCHANGED <<k, cs, wire>>
    /\ UNCHANGED <<queue, pending, busy, msg, more, cs_change, begun, hard, results, n>>

\* m->complete, then the chip is deselected unless the message succeeded and
\* its last transfer has cs_change
Complete ==
    /\ wpc = "complete" /\ HandlerIdle
    /\ results' = Append(results, [msg |-> msg, status |-> status, actual |-> actual,
                                   wire |-> wire, begun |-> begun, race |-> race])
    /\ cs' = (cs /\ status = 0 /\ cs_change)
    /\ wpc' = "relock"
    /\ UNCHANGED <<queue, pending, busy, msg, k, more, cs_change, status, actual, begun, hard, wire, n>>

\* the lock is taken again: the loop goes on with the entry it saved
Relock ==
    /\ wpc = "relock" /\ HandlerIdle
    /\ IF more
       THEN TakeHead /\ UNCHANGED busy
       ELSE /\ wpc' = "idle" /\ busy' = FALSE
            /\ UNCHANGED <<queue, msg, k, more, cs_change, status, actual, begun, wire>>
    /\ UNCHANGED <<pending, cs, hard, results, n>>

Worker  == WorkBegin \/ Xfer \/ txrx_return \/ Ret \/ Complete \/ Relock
Handler == IrqServe \/ IrqRead \/ IrqAck

SpiNext ==
    \/ \E m \in Messages : Submit(m)
    \/ Setup
    \/ Worker
    \/ Handler
    \/ BurstEnd

SpiSpec == SpiInit /\ [][SpiNext]_vars

\* A burst ends by itself, an interrupt is served and its handler runs to its
\* end, and the worker's thread is scheduled.
SpiFairSpec == SpiSpec /\ WF_vars(Worker) /\ WF_vars(Handler) /\ WF_vars(BurstEnd)

-----------------------------------------------------------------------------
(* Properties *)

\* Type invariant: the positions of worker and handler, and a burst that fits
\* the four registers, whatever the handler makes of its count.
SpiTypeOK ==
    /\ wpc \in {"idle", "xfer", "wait", "ret", "complete", "relock"}
    /\ ipc \in {"idle", "read", "ack"} /\ race \in {"no", "lost", "again"}
    /\ hw.txnum \in 0 .. Words - 1 /\ reg.TXNUM = hw.txnum /\ Len(reg.tx) <= Words
    /\ more => queue # <<>>

Bad(t) == t.len > 0 /\ ~ t.tx /\ ~ t.rx

\* what transfer j of message m puts on the wire, if it is not the last one to go
OnWire(m, j) ==
    [i \in 1 .. m[j].len |-> <<j, IF m[j].tx THEN i - 1 ELSE ones>>]
    \o (IF m[j].cs_change /\ j < Len(m) THEN << <<"deselect">>, <<"select">> >> ELSE <<>>)

\* how much that is, and of it the words
EventCount(m) == [j \in DOMAIN m |-> Len(OnWire(m, j))]
WordCount(m) == [j \in DOMAIN m |-> m[j].len]

\* where event i of transfer j is, after the edge that selects the chip
Lead(chip_selected) == IF chip_selected THEN 0 ELSE 1
PlaceOnWire(m, chip_selected, j, i) == Lead(chip_selected) + Total(EventCount(m), j - 1) + i

\* the first c transfers of m and nothing else are on w
Shows(w, m, chip_selected, c) ==
    /\ Len(w) = Lead(chip_selected) + Total(EventCount(m), c)
    /\ chip_selected \/ w[1] = <<"select">>
    /\ \A j \in 1 .. c : \A i \in 1 .. Len(OnWire(m, j)) :
            w[PlaceOnWire(m, chip_selected, j, i)] = OnWire(m, j)[i]

\* the transfers of m before the first without a buffer
Good(m) ==
    LET bad == {j \in DOMAIN m : Bad(m[j])}
    IN  IF bad = {} THEN Len(m) ELSE (CHOOSE j \in bad : \A l \in bad : j <= l) - 1

\* A completed message has put on the wire exactly its words, each once and in
\* order, the chip selected over them but for the gaps cs_change asks for, and
\* actual_length counts them; an error is reported only for a transfer without
\* a buffer, and then everything before it has been sent.  The exception: the
\* write back at the end of the handler has started a burst again, in this
\* message or in an earlier one; then words go out twice, or a message completes
\* with a count that is not its own.
MessageOnWire ==
    \A i \in DOMAIN results :
        LET r == results[i]
        IN  r.race # "again" =>
                /\ r.status = (IF Good(r.msg) = Len(r.msg) THEN 0 ELSE EINVAL)
                /\ Shows(r.wire, r.msg, r.begun, Good(r.msg))
                /\ r.actual = Total(WordCount(r.msg), Good(r.msg))

\* When txrx has returned, every place of the receive buffer holds the answer
\* to the word of that place.
AnswersInPlace ==
    wpc = "ret" /\ T.rx /\ T.len > 0 => hw.rx = [i \in 1 .. T.len |-> i - 1]

\* A caller in wait_for_completion, which has no timeout, waits for something: a
\* burst runs or its interrupt is pending.  The one exception is a burst that
\* ended between gobusy and the read of CNTRL in the handler: its flag is read as
\* set and written back, so that the interrupt is lost and the caller hangs.
WaitCovered ==
    wpc = "wait" /\ done = 0 /\ ipc = "idle" => reg.go \/ reg.ifl \/ race = "lost"

\* Outside a transfer nothing is left over that the next one would take for
\* its own: no completion, no burst, no interrupt.
QuietOutsideTransfer ==
    wpc # "wait" => done = 0 /\ ~ reg.go /\ ~ reg.ifl

\* The chip is selected while words are sent, whatever other clients call.
SelectedDuringBurst == reg.go => cs

\* The handler counts, stores and completes within the transfer: no answer is
\* written past the end of the receive buffer.
CountWithinLen == hw.count <= hw.len /\ Len(hw.rx) <= hw.len /\ done <= 1

\* A transfer is exact and ends: the answers are in place and within the buffer,
\* the chip is selected meanwhile, every wait has an interrupt to come, and no
\* interrupt or completion is left over from it.  All of it holds until the write
\* back of CNTRL starts an ended burst again; after that the code has no hold on
\* the controller: it completes with GOBUSY set and counts past len.
TransferExact ==
    /\ SpiTypeOK
    /\ race # "again" => /\ AnswersInPlace /\ SelectedDuringBurst /\ WaitCovered
                         /\ QuietOutsideTransfer /\ CountWithinLen

\* Every message is completed, unless a burst ended inside the handler: one
\* that is queued while the worker leaves its loop is not forgotten.
MessagesComplete ==
    \A i \in 1 .. MaxMsgs : n.msgs >= i ~> (Len(results) >= i \/ race # "no")

=============================================================================

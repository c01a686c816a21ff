------------------------------ MODULE EtherRx ------------------------------
(***************************************************************************)
(* The receive path of drivers/net/ethernet/nuvoton/nuc970_ether0.c while  *)
(* the interface is up: the ring of RX_DESC_SIZE descriptors, the EMC      *)
(* receive DMA, nuc970_rx_interrupt, and the NAPI poll nuc970_poll that    *)
(* the network softirq runs.                                               *)
(*                                                                         *)
(* One CPU: the interrupt handler runs to completion between two steps of  *)
(* the poll, the DMA works at any time.  The handler is one step: its      *)
(* write-1-to-clear of the bits it read commutes with the DMA setting      *)
(* others.  ENRXINTR is the master enable of every RX interrupt.           *)
(***************************************************************************)
EXTENDS Naturals, Sequences

CONSTANTS
    N,             \* RX_DESC_SIZE
    Budget,        \* NAPI weight: frames one poll may pass to the stack
    MaxFrames,     \* bound: frames the DMA stores
    MaxAllocFails, \* bound: dev_alloc_skb failures in the poll
    MaxBusErrors   \* bound: RX bus errors, each answered by a reset

ASSUME RxConstants ==
    /\ N \in Nat \ {0}
    /\ Budget \in Nat \ {0}
    /\ MaxFrames \in Nat
    /\ MaxAllocFails \in Nat
    /\ MaxBusErrors \in Nat

VARIABLES
    rdesc,     \* rdesc[i]: DMA ownership, and the frame the DMA stored there
    rx_skb,    \* rx_skb[i]: the buffer descriptor i points to
    cur_rx,    \* the next descriptor the poll looks at
    hw_rx,     \* the next descriptor the DMA fills
    running,   \* FALSE: the RX DMA halted (RDU or bus error)
    mista,     \* pending RX bits of MISTA
    enrx,      \* ENRXINTR of MIEN
    sched,     \* NAPI_STATE_SCHED
    pc,        \* where nuc970_poll is
    rx_cnt,    \* its local counter
    stored,    \* frames stored by the DMA so far; frame k is the k-th
    up,        \* sequence of frames passed to netif_receive_skb
    bad,       \* frames counted in rx_errors
    discarded, \* frames thrown away by a reset
    given,     \* buffers owned by the network stack
    freed,     \* buffers freed by nuc970_free_desc
    nskb,      \* buffers allocated so far; buffer k is the k-th
    dropped,   \* stats.rx_dropped
    buserrs    \* RX bus errors so far

ringvars == <<rdesc, rx_skb, cur_rx>>
hwvars   == <<hw_rx, running, mista, stored>>
logvars  == <<up, bad, discarded, given, freed, nskb, dropped, buserrs>>
vars     == <<ringvars, hwvars, enrx, sched, pc, rx_cnt, logvars>>

Slots == 0 .. N-1
Slot  == [own : BOOLEAN, frame : Nat, ok : BOOLEAN]

PollSteps == {"idle", "check", "frame", "refill", "giveback",
              "complete", "enable", "trigger"}

\* if (++i >= RX_DESC_SIZE) i = 0
Advance(i) == IF i + 1 >= N THEN 0 ELSE i + 1

RxIrqRaised == enrx /\ mista # {}

\* a descriptor handed to the DMA: sl = RX_OWEN_DMA wipes the status word
Fresh == [own |-> TRUE, frame |-> 0, ok |-> FALSE]

RxInit ==
    /\ rdesc = [i \in Slots |-> Fresh]
    /\ rx_skb = [i \in Slots |-> i + 1]
    /\ cur_rx = 0 /\ hw_rx = 0
    /\ running = TRUE /\ mista = {} /\ enrx = TRUE
    /\ sched = FALSE /\ pc = "idle" /\ rx_cnt = 0
    /\ stored = 0 /\ up = <<>> /\ bad = {} /\ discarded = {}
    /\ given = {} /\ freed = {} /\ nskb = N
    /\ dropped = 0 /\ buserrs = 0

-----------------------------------------------------------------------------
(* Mutants: definitions below with a plausible bug, to show that each        *)
(* property can fail.  No specification uses them.                           *)

RxIrqKeepsEnabled ==
    /\ RxIrqRaised /\ "RXBERR" \notin mista
    /\ mista' = {}
    /\ sched' = (sched \/ "RXGD" \in mista)
    /\ UNCHANGED <<ringvars, hw_rx, running, stored, enrx, pc, rx_cnt, logvars>>

PollAllocFailCompletes ==
    /\ pc = "frame" /\ rdesc[cur_rx].ok
    /\ dropped < MaxAllocFails
    /\ dropped' = dropped + 1
    /\ sched' = FALSE
    /\ pc' = "trigger"
    /\ UNCHANGED <<ringvars, hwvars, enrx, rx_cnt,
                   up, bad, discarded, given, freed, nskb, buserrs>>

PollRefillForgets ==
    /\ pc = "refill"
    /\ nskb' = nskb + 1
    /\ rx_cnt' = rx_cnt + 1
    /\ pc' = "giveback"
    /\ UNCHANGED <<ringvars, hwvars, enrx, sched,
                   up, bad, discarded, given, freed, dropped, buserrs>>

PollGiveBackKeeps ==
    /\ pc = "giveback"
    /\ cur_rx' = Advance(cur_rx)
    /\ pc' = "check"
    /\ UNCHANGED <<rdesc, rx_skb, hwvars, enrx, sched, rx_cnt, logvars>>

PollTriggerForgets ==
    /\ pc = "trigger"
    /\ pc' = "idle"
    /\ UNCHANGED <<ringvars, hwvars, enrx, sched, rx_cnt, logvars>>

-----------------------------------------------------------------------------
(* The EMC receive DMA (hardware). *)

\* A frame is stored in the descriptor the DMA is at.  RXGD is reported for
\* a frame of 1515 to 1518 bytes too, which the poll refuses: ok = FALSE.
DmaStore(ok) ==
    /\ running /\ stored < MaxFrames
    /\ rdesc[hw_rx].own
    /\ rdesc' = [rdesc EXCEPT ![hw_rx] =
                    [own |-> FALSE, frame |-> stored + 1, ok |-> ok]]
    /\ stored' = stored + 1
    /\ hw_rx' = Advance(hw_rx)
    /\ mista' = mista \cup {"RXGD"}
    /\ UNCHANGED <<rx_skb, cur_rx, running, enrx, sched, pc, rx_cnt, logvars>>

\* The DMA meets a descriptor it does not own: it reports RDU and halts until
\* it is triggered; the frame on the wire is lost.
DmaNoDescriptor ==
    /\ running
    /\ ~ rdesc[hw_rx].own
    /\ running' = FALSE
    /\ mista' = mista \cup {"RDU"}
    /\ UNCHANGED <<ringvars, hw_rx, stored, enrx, sched, pc, rx_cnt, logvars>>

DmaBusError ==
    /\ running /\ buserrs < MaxBusErrors
    /\ buserrs' = buserrs + 1
    /\ running' = FALSE
    /\ mista' = mista \cup {"RXBERR"}
    /\ UNCHANGED <<ringvars, hw_rx, stored, enrx, sched, pc, rx_cnt,
                   up, bad, discarded, given, freed, nskb, dropped>>

-----------------------------------------------------------------------------
(* nuc970_reset_mac(dev, 1), its effect on the receive side. *)

Held(i) == rdesc[i].own = FALSE

\* nuc970_free_desc frees every buffer in rx_skb, nuc970_init_desc allocates
\* RX_DESC_SIZE new ones and gives every descriptor to the DMA; the soft
\* reset clears the status bits; every interrupt is enabled again and RX is
\* triggered.  The frames still in the ring are gone.
reset_mac ==
    /\ rdesc' = [i \in Slots |-> Fresh]
    /\ freed' = freed \cup {rx_skb[i] : i \in Slots}
    /\ rx_skb' = [i \in Slots |-> nskb + i + 1]
    /\ nskb' = nskb + N
    /\ discarded' = discarded \cup {rdesc[i].frame : i \in {j \in Slots : Held(j)}}
    /\ cur_rx' = 0 /\ hw_rx' = 0
    /\ mista' = {} /\ enrx' = TRUE /\ running' = TRUE

-----------------------------------------------------------------------------
(* nuc970_rx_interrupt *)

\* RXBERR: the rest of the status is ignored and the MAC is reset.
RxIrqBusError ==
    /\ RxIrqRaised /\ "RXBERR" \in mista
    /\ reset_mac
    /\ UNCHANGED <<sched, pc, rx_cnt, stored, up, bad, given, dropped, buserrs>>

\* RXGD: mask the RX interrupts and schedule the poll (napi_schedule does
\* nothing when it is scheduled already).  RDU is cleared and not looked at.
RxIrq ==
    /\ RxIrqRaised /\ "RXBERR" \notin mista
    /\ mista' = {}
    /\ IF "RXGD" \in mista
       THEN enrx' = FALSE /\ sched' = TRUE
       ELSE UNCHANGED <<enrx, sched>>
    /\ UNCHANGED <<ringvars, hw_rx, running, stored, pc, rx_cnt, logvars>>

-----------------------------------------------------------------------------
(* nuc970_poll *)

PollStart ==
    /\ pc = "idle" /\ sched
    /\ pc' = "check" /\ rx_cnt' = 0
    /\ UNCHANGED <<ringvars, hwvars, enrx, sched, logvars>>

PollCheck ==
    /\ pc = "check"
    /\ pc' = IF rx_cnt >= Budget THEN "trigger"
             ELSE IF rdesc[cur_rx].own THEN "complete" ELSE "frame"
    /\ UNCHANGED <<ringvars, hwvars, enrx, sched, rx_cnt, logvars>>

\* no replacement buffer: the frame stays in the ring, the poll stays
\* scheduled (goto rx_out skips napi_complete)
PollAllocFail ==
    /\ pc = "frame" /\ rdesc[cur_rx].ok
    /\ dropped < MaxAllocFails
    /\ dropped' = dropped + 1
    /\ pc' = "trigger"
    /\ UNCHANGED <<ringvars, hwvars, enrx, sched, rx_cnt,
                   up, bad, discarded, given, freed, nskb, buserrs>>

\* netif_receive_skb(s): the stack owns s while rx_skb still names it
PollDeliver ==
    /\ pc = "frame" /\ rdesc[cur_rx].ok
    /\ up' = Append(up, rdesc[cur_rx].frame)
    /\ given' = given \cup {rx_skb[cur_rx]}
    /\ pc' = "refill"
    /\ UNCHANGED <<ringvars, hwvars, enrx, sched, rx_cnt,
                   bad, discarded, freed, nskb, dropped, buserrs>>

PollRefill ==
    /\ pc = "refill"
    /\ nskb' = nskb + 1
    /\ rx_skb' = [rx_skb EXCEPT ![cur_rx] = nskb + 1]
    /\ rx_cnt' = rx_cnt + 1
    /\ pc' = "giveback"
    /\ UNCHANGED <<rdesc, cur_rx, hwvars, enrx, sched,
                   up, bad, discarded, given, freed, dropped, buserrs>>

PollError ==
    /\ pc = "frame" /\ ~ rdesc[cur_rx].ok
    /\ bad' = bad \cup {rdesc[cur_rx].frame}
    /\ pc' = "giveback"
    /\ UNCHANGED <<ringvars, hwvars, enrx, sched, rx_cnt,
                   up, discarded, given, freed, nskb, dropped, buserrs>>

PollGiveBack ==
    /\ pc = "giveback"
    /\ rdesc' = [rdesc EXCEPT ![cur_rx] = Fresh]
    /\ cur_rx' = Advance(cur_rx)
    /\ pc' = "check"
    /\ UNCHANGED <<rx_skb, hwvars, enrx, sched, rx_cnt, logvars>>

PollComplete ==
    /\ pc = "complete"
    /\ sched' = FALSE
    /\ pc' = "enable"
    /\ UNCHANGED <<ringvars, hwvars, enrx, rx_cnt, logvars>>

PollEnable ==
    /\ pc = "enable"
    /\ enrx' = TRUE
    /\ pc' = "trigger"
    /\ UNCHANGED <<ringvars, hwvars, sched, rx_cnt, logvars>>

\* ETH_TRIGGER_RX: a halted DMA looks at its descriptor again
PollTrigger ==
    /\ pc = "trigger"
    /\ running' = TRUE
    /\ pc' = "idle"
    /\ UNCHANGED <<ringvars, hw_rx, mista, stored, enrx, sched, rx_cnt, logvars>>

-----------------------------------------------------------------------------
Poll ==
    \/ PollStart \/ PollCheck \/ PollAllocFail \/ PollDeliver \/ PollRefill
    \/ PollError \/ PollGiveBack \/ PollComplete \/ PollEnable \/ PollTrigger

Irq == RxIrqBusError \/ RxIrq

Dma == (\E ok \in BOOLEAN : DmaStore(ok)) \/ DmaNoDescriptor \/ DmaBusError

RxNext == Poll \/ Irq \/ Dma

RxSpec == RxInit /\ [][RxNext]_vars

\* The CPU takes a raised interrupt and ksoftirqd keeps running a scheduled
\* poll; nothing is assumed of the network.
RxFairSpec == RxSpec /\ WF_vars(Irq) /\ WF_vars(Poll)
-----------------------------------------------------------------------------
(* Properties *)

\* Type invariant: every variable of the driver, the MAC and the logs has its
\* type and every ring index stays inside the ring.
RxTypeOK ==
    /\ rdesc \in [Slots -> Slot] /\ rx_skb \in [Slots -> Nat]
    /\ cur_rx \in Slots /\ hw_rx \in Slots
    /\ running \in BOOLEAN /\ enrx \in BOOLEAN /\ sched \in BOOLEAN
    /\ mista \subseteq {"RXGD", "RDU", "RXBERR"}
    /\ pc \in PollSteps /\ rx_cnt \in 0 .. Budget
    /\ stored \in Nat /\ up \in Seq(Nat) /\ dropped \in Nat /\ buserrs \in Nat
    /\ bad \subseteq Nat /\ discarded \subseteq Nat
    /\ given \subseteq Nat /\ freed \subseteq Nat /\ nskb \in Nat

\* Reception never stalls, whatever the order of DMA, interrupt and poll:
\* RX interrupts are masked only while a poll that will unmask them is due; a
\* halted DMA and a frame left in the ring are always covered by a poll that
\* is due or running, or by a pending status bit that will bring one.
RxAlive ==
    /\ ~ enrx => sched \/ pc = "enable"
    /\ ~ running => \/ sched \/ pc # "idle"
                    \/ mista \cap {"RXGD", "RXBERR"} # {}
    /\ \A i \in Slots : Held(i) => sched \/ "RXGD" \in mista

\* A buffer has one owner: no buffer passed to the stack is freed by the reset,
\* no freed buffer is in the ring, no two descriptors share a buffer, and a
\* buffer the stack owns is named by rx_skb only between netif_receive_skb and
\* the refill, in a descriptor the DMA does not own.
BufferOwnership ==
    /\ given \cap freed = {}
    /\ \A i \in Slots :
        /\ rx_skb[i] \notin freed
        /\ rx_skb[i] \in given => pc = "refill" /\ i = cur_rx /\ Held(i)
        /\ \A j \in Slots : rx_skb[i] = rx_skb[j] => i = j

\* nuc970_free_desc "must call with Tx/Rx stopped": the reset made by the RX
\* interrupt never rebuilds the ring while the poll is between reading a
\* descriptor and giving it back (the mask ENRXINTR keeps the handler out).
ResetOutsidePoll ==
    [][freed' # freed => pc \in {"idle", "trigger"}]_vars

\* Every frame the DMA stored is eventually handled: passed up, counted as an
\* error or thrown away by a reset.
FrameHandled ==
    \A k \in 1 .. MaxFrames :
        (stored >= k) ~> (k \in bad \cup discarded
                           \/ \E n \in 1 .. Len(up) : up[n] = k)

\* A halted receive DMA is eventually restarted.
DmaResumes == ~ running ~> running

\* Reception goes on: stored frames are handled and a halted DMA is restarted,
\* although the poll may leave early, lose a race with the DMA or be reset.
RxProgress == FrameHandled /\ DmaResumes

\* The frames in the ring that the poll has not handled yet, oldest first.
Distance(i) == IF i >= cur_rx THEN i - cur_rx ELSE i + N - cur_rx
HeldCount == IF \E i \in Slots : Held(i)
             THEN IF hw_rx = cur_rx THEN N ELSE Distance(hw_rx)
             ELSE 0
InRing == [k \in 1 .. HeldCount |->
              rdesc[CHOOSE i \in Slots : Distance(i) = k - 1].frame]
Waiting == IF pc \in {"refill", "giveback"} THEN Tail(InRing) ELSE InRing

\* The receive path implements the FIFO of RxFifo: each accepted frame is
\* passed up at most once and in order of arrival, for every interleaving of
\* DMA, interrupt, poll and reset.
Fifo == INSTANCE RxFifo WITH accepted <- stored, waiting <- Waiting
RxFifoSpec == Fifo!FifoSpec
=============================================================================

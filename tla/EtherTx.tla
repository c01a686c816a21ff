------------------------------ MODULE EtherTx ------------------------------
(***************************************************************************)
(* The transmit path of drivers/net/ethernet/nuvoton/nuc970_ether0.c while *)
(* the interface is up: the ring of TX_DESC_SIZE descriptors shared by     *)
(* nuc970_ether_start_xmit (called by the stack, one call at a time, with  *)
(* interrupts enabled), nuc970_tx_interrupt and the EMC transmit DMA.      *)
(*                                                                         *)
(* One CPU: a raised interrupt is taken before the next step of            *)
(* start_xmit, and the handler ends before start_xmit goes on.  The DMA    *)
(* works at any time; it clears the ownership bit and sets the status bit  *)
(* together.  TX bus errors, which reset the MAC, are left out.            *)
(***************************************************************************)
EXTENDS Naturals, Sequences

CONSTANTS
    TxN,     \* TX_DESC_SIZE
    MaxSkbs  \* bound: buffers the stack hands to the driver

ASSUME TxConstants == TxN \in Nat \ {0, 1} /\ MaxSkbs \in Nat

VARIABLES
    tdesc,     \* tdesc[i]: DMA ownership, TXCP of the status, the buffer it names
    tx_skb,    \* tx_skb[i]: the buffer to free when i completes, 0 for NULL
    cur_tx,    \* the next descriptor start_xmit fills
    finish_tx, \* the next descriptor the interrupt reclaims
    hw_tx,     \* the next descriptor the DMA transmits
    tx_on,     \* FALSE: the TX DMA waits for ETH_TRIGGER_TX
    tx_sta,    \* a TX completion is pending in MISTA
    stopped,   \* netif_queue_stopped
    xpc,       \* where nuc970_ether_start_xmit is
    ipc,       \* where nuc970_tx_interrupt is
    nsent,     \* buffers accepted by start_xmit; buffer k is the k-th
    onwire,    \* buffers the DMA transmitted, in order
    freed_tx,  \* buffers freed by the interrupt, in order
    tx_packets, tx_errors  \* net_device_stats

txring == <<tdesc, tx_skb, cur_tx, finish_tx>>
txhw   == <<hw_tx, tx_on, tx_sta, onwire>>
txlog  == <<nsent, freed_tx, tx_packets, tx_errors>>
txvars == <<txring, txhw, stopped, xpc, ipc, txlog>>

TxSlots == 0 .. TxN-1

XmitSteps == {"idle", "skb", "own", "trigger", "next", "stop"}

\* if (++i >= TX_DESC_SIZE) i = 0, and (i + 1) % TX_DESC_SIZE
TxAdvance(i) == IF i + 1 >= TxN THEN 0 ELSE i + 1

\* start_xmit runs: no interrupt is raised or being handled
CpuInXmit == ~ tx_sta /\ ipc = "idle"

\* the loop condition of the interrupt handler
Reclaimable == ~ tdesc[finish_tx].own /\ tx_skb[finish_tx] # 0

TxInit ==
    /\ tdesc = [i \in TxSlots |-> [own |-> FALSE, txcp |-> FALSE, buf |-> 0]]
    /\ tx_skb = [i \in TxSlots |-> 0]
    /\ cur_tx = 0 /\ finish_tx = 0 /\ hw_tx = 0
    /\ tx_on = FALSE /\ tx_sta = FALSE /\ stopped = FALSE
    /\ xpc = "idle" /\ ipc = "idle"
    /\ nsent = 0 /\ onwire = <<>> /\ freed_tx = <<>>
    /\ tx_packets = 0 /\ tx_errors = 0

-----------------------------------------------------------------------------
(* Mutants: definitions below with a plausible bug, to show that each        *)
(* property can fail.  No specification uses them.                           *)

XmitTriggerForgets ==
    /\ CpuInXmit /\ xpc = "trigger"
    /\ xpc' = "next"
    /\ UNCHANGED <<txring, txhw, stopped, ipc, txlog>>

XmitNextUnchecked ==
    /\ CpuInXmit /\ xpc = "next"
    /\ cur_tx' = TxAdvance(cur_tx)
    /\ xpc' = "idle"
    /\ UNCHANGED <<tdesc, tx_skb, finish_tx, txhw, stopped, ipc, txlog>>

TxIrqReclaimKeeps ==
    /\ ipc = "reclaim" /\ Reclaimable
    /\ Len(freed_tx) <= MaxSkbs
    /\ freed_tx' = Append(freed_tx, tx_skb[finish_tx])
    /\ tx_packets' = tx_packets + 1
    /\ finish_tx' = TxAdvance(finish_tx)
    /\ UNCHANGED <<tdesc, tx_skb, cur_tx, txhw, stopped, xpc, ipc, nsent, tx_errors>>

TxIrqExitAsleep ==
    /\ ipc = "reclaim" /\ ~ Reclaimable
    /\ ipc' = "idle"
    /\ UNCHANGED <<txring, txhw, stopped, xpc, txlog>>

-----------------------------------------------------------------------------
(* The EMC transmit DMA (hardware). *)

\* One frame leaves, with success or aborted (TXABT): the status is written
\* back, the CPU owns the descriptor again and the interrupt is raised.
DmaTransmit(ok) ==
    /\ tx_on /\ tdesc[hw_tx].own
    /\ tdesc' = [tdesc EXCEPT ![hw_tx].own = FALSE, ![hw_tx].txcp = ok]
    /\ onwire' = Append(onwire, tdesc[hw_tx].buf)
    /\ hw_tx' = TxAdvance(hw_tx)
    /\ tx_sta' = TRUE
    /\ UNCHANGED <<tx_skb, cur_tx, finish_tx, tx_on, stopped, xpc, ipc, txlog>>

DmaIdle ==
    /\ tx_on /\ ~ tdesc[hw_tx].own
    /\ tx_on' = FALSE
    /\ UNCHANGED <<txring, hw_tx, tx_sta, onwire, stopped, xpc, ipc, txlog>>

-----------------------------------------------------------------------------
(* nuc970_ether_start_xmit.  A step runs only when no interrupt is raised. *)

\* A full ring stops the queue (NETDEV_TX_BUSY); else the buffer is mapped.
XmitMap ==
    /\ CpuInXmit /\ xpc = "idle" /\ ~ stopped /\ nsent < MaxSkbs
    /\ IF tdesc[cur_tx].own
       THEN stopped' = TRUE /\ UNCHANGED <<tdesc, nsent, xpc>>
       ELSE /\ tdesc' = [tdesc EXCEPT ![cur_tx].buf = nsent + 1]
            /\ nsent' = nsent + 1
            /\ xpc' = "skb"
            /\ UNCHANGED stopped
    /\ UNCHANGED <<tx_skb, cur_tx, finish_tx, txhw, ipc,
                   freed_tx, tx_packets, tx_errors>>

\* tx_skb[cur_tx] = skb
XmitSkb ==
    /\ CpuInXmit /\ xpc = "skb"
    /\ tx_skb' = [tx_skb EXCEPT ![cur_tx] = nsent]
    /\ xpc' = "own"
    /\ UNCHANGED <<tdesc, cur_tx, finish_tx, txhw, stopped, ipc, txlog>>

\* txbd->sl = length (wipes TXCP); txbd->mode |= TX_OWEN_DMA
XmitOwn ==
    /\ CpuInXmit /\ xpc = "own"
    /\ tdesc' = [tdesc EXCEPT ![cur_tx].own = TRUE, ![cur_tx].txcp = FALSE]
    /\ xpc' = "trigger"
    /\ UNCHANGED <<tx_skb, cur_tx, finish_tx, txhw, stopped, ipc, txlog>>

\* ETH_TRIGGER_TX
XmitTrigger ==
    /\ CpuInXmit /\ xpc = "trigger"
    /\ tx_on' = TRUE
    /\ xpc' = "next"
    /\ UNCHANGED <<txring, hw_tx, tx_sta, onwire, stopped, ipc, txlog>>

\* advance cur_tx; is the next descriptor still with the DMA?
XmitNext ==
    /\ CpuInXmit /\ xpc = "next"
    /\ cur_tx' = TxAdvance(cur_tx)
    /\ xpc' = IF tdesc[TxAdvance(cur_tx)].own THEN "stop" ELSE "idle"
    /\ UNCHANGED <<tdesc, tx_skb, finish_tx, txhw, stopped, ipc, txlog>>

\* netif_stop_queue, NETDEV_TX_OK
XmitStop ==
    /\ CpuInXmit /\ xpc = "stop"
    /\ stopped' = TRUE
    /\ xpc' = "idle"
    /\ UNCHANGED <<txring, txhw, ipc, txlog>>

-----------------------------------------------------------------------------
(* nuc970_tx_interrupt *)

TxIrqEnter ==
    /\ tx_sta /\ ipc = "idle"
    /\ tx_sta' = FALSE
    /\ ipc' = "reclaim"
    /\ UNCHANGED <<txring, hw_tx, tx_on, onwire, stopped, xpc, txlog>>

\* one round of the loop: unmap, dev_kfree_skb_irq, count, go on
TxIrqReclaim ==
    /\ ipc = "reclaim" /\ Reclaimable
    /\ freed_tx' = Append(freed_tx, tx_skb[finish_tx])
    /\ tx_skb' = [tx_skb EXCEPT ![finish_tx] = 0]
    /\ IF tdesc[finish_tx].txcp
       THEN tx_packets' = tx_packets + 1 /\ UNCHANGED tx_errors
       ELSE tx_errors' = tx_errors + 1 /\ UNCHANGED tx_packets
    /\ finish_tx' = TxAdvance(finish_tx)
    /\ UNCHANGED <<tdesc, cur_tx, txhw, stopped, xpc, ipc, nsent>>

\* the loop ends; wake the queue if it is stopped
TxIrqExit ==
    /\ ipc = "reclaim" /\ ~ Reclaimable
    /\ stopped' = FALSE
    /\ ipc' = "idle"
    /\ UNCHANGED <<txring, txhw, xpc, txlog>>

-----------------------------------------------------------------------------
Xmit  == XmitMap \/ XmitSkb \/ XmitOwn \/ XmitTrigger \/ XmitNext
         \/ XmitStop
TxIrq == TxIrqEnter \/ TxIrqReclaim \/ TxIrqExit
TxDma == (\E ok \in BOOLEAN : DmaTransmit(ok)) \/ DmaIdle

TxNext == Xmit \/ TxIrq \/ TxDma

TxSpec == TxInit /\ [][TxNext]_txvars

\* The CPU takes interrupts and finishes a start_xmit it began, the DMA
\* transmits what it owns.
TxFairSpec ==
    /\ TxSpec
    /\ WF_txvars(TxIrq) /\ WF_txvars(TxDma) /\ WF_txvars(Xmit /\ xpc # "idle")
-----------------------------------------------------------------------------
(* Properties *)

TxDesc == [own : BOOLEAN, txcp : BOOLEAN, buf : Nat]

\* Type invariant: the ring, its indices and the steps of the two routines.
TxTypeOK ==
    /\ tdesc \in [TxSlots -> TxDesc] /\ tx_skb \in [TxSlots -> Nat]
    /\ cur_tx \in TxSlots /\ finish_tx \in TxSlots /\ hw_tx \in TxSlots
    /\ tx_on \in BOOLEAN /\ tx_sta \in BOOLEAN /\ stopped \in BOOLEAN
    /\ xpc \in XmitSteps /\ ipc \in {"idle", "reclaim"}
    /\ nsent \in 0 .. MaxSkbs /\ onwire \in Seq(Nat) /\ freed_tx \in Seq(Nat)
    /\ tx_packets \in Nat /\ tx_errors \in Nat

\* Every buffer start_xmit accepted is freed once and in the order it was
\* accepted, and until then exactly one entry of tx_skb names it (none between
\* the mapping and the assignment): no entry is ever overwritten.
TxFreedOnceInOrder ==
    LET inHand == IF xpc = "skb" THEN {nsent} ELSE {}
        kept == {tx_skb[i] : i \in TxSlots} \ {0}
    IN  /\ freed_tx = [k \in 1 .. Len(freed_tx) |-> k]
        /\ kept \cup inHand = Len(freed_tx) + 1 .. nsent
        /\ kept \cap inHand = {}
        /\ \A i, j \in TxSlots : tx_skb[i] # 0 /\ tx_skb[i] = tx_skb[j] => i = j

\* The DMA transmits every accepted buffer once, in the order of acceptance,
\* also when the ring wraps and when the interrupt runs inside start_xmit.
TxOnWireInOrder == onwire = [k \in 1 .. Len(onwire) |-> k]

\* Accepted buffers are sent and freed once each, in the order of acceptance,
\* for every interleaving of start_xmit, TX interrupt and DMA.
TxInOrder == TxTypeOK /\ TxFreedOnceInOrder /\ TxOnWireInOrder

\* The queue is awake only if start_xmit would find a free descriptor:
\* NETDEV_TX_BUSY is never returned (elsewhere in the tree this is reported as
\* "BUG! Tx Ring full when queue awake!").
NeverBusy ==
    CpuInXmit /\ xpc = "idle" /\ ~ stopped => ~ tdesc[cur_tx].own

\* Every accepted buffer is eventually freed, even if nothing is sent after it.
TxEventuallyFreed ==
    \A k \in 1 .. MaxSkbs : (nsent >= k) ~> (Len(freed_tx) >= k)

\* Violated.  A descriptor the DMA owns names a buffer that is not freed: the
\* interrupt may run between the assignment of tx_skb and TX_OWEN_DMA and take
\* the descriptor for one that is done.
DmaBufferLive ==
    \A i \in TxSlots : tdesc[i].own =>
        \A k \in 1 .. Len(freed_tx) : freed_tx[k] # tdesc[i].buf

\* A queue stopped while the DMA still owns a descriptor is woken, although
\* start_xmit stops it after it has tested the ownership bit and any number of
\* completions may come in between.  (Stopped after the last completion it
\* stays stopped: start_xmit does not test the bit again.)
QueueWokenByCompletion ==
    (stopped /\ \E i \in TxSlots : tdesc[i].own) ~> ~ stopped
=============================================================================

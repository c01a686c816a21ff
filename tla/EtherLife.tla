----------------------------- MODULE EtherLife -----------------------------
(***************************************************************************)
(* The life of the interface of nuc970_ether0.c: nuc970_ether_open and     *)
(* nuc970_ether_close step by step, against the NAPI poll, both interrupts *)
(* with their bus-error resets, the receive DMA and adjust_link, which the *)
(* PHY state machine (drivers/net/phy/phy.c) calls from a work queue.      *)
(*                                                                         *)
(* The descriptor ring is abstracted to its identity: ring k is the k-th   *)
(* that nuc970_init_desc made.  What happens inside a ring is EtherRx and  *)
(* EtherTx.  The stack opens and closes under rtnl_lock and calls          *)
(* start_xmit only between the two.                                        *)
(***************************************************************************)
EXTENDS Naturals, FiniteSets

CONSTANTS
    Budget,      \* NAPI weight
    MaxOpens,    \* bound: calls of nuc970_ether_open
    MaxFaults,   \* bound: bus errors, failed allocations and failed request_irq
    MaxLinks     \* bound: rounds of the PHY state machine that see the link

ASSUME LifeConstants ==
    /\ Budget \in Nat \ {0}
    /\ {MaxOpens, MaxFaults, MaxLinks} \subseteq Nat

VARIABLES
    life,     \* the next statement of open or close; "down" and "up" between
    gen,      \* rings made so far
    live,     \* rings allocated and not freed
    ring,     \* ether->rdesc and ether->tdesc
    rxdlsa,   \* ether->start_rx_ptr, and the ring the MAC was given with it
    on,       \* MCMDR: RXON and TXON
    frames,   \* some descriptor of the ring holds a frame
    mista,    \* pending RXGD, RXBERR, TXBERR, EXDEF
    enrx,     \* ENRXINTR of MIEN
    napi,     \* "free"; "queued": on the poll list; "disabled": SCHED held
    pc,       \* where nuc970_poll is
    rx_cnt,   \* its counter
    pollring, \* the ring its rxbd points into, 0 outside
    xring,    \* the ring start_xmit's txbd points into, 0 outside
    stopped,  \* netif_queue_stopped
    phy,      \* the PHY state machine was started (phy_start ... phy_stop)
    plink,    \* phydev->link
    elink,    \* ether->link
    apc,      \* adjust_link: "idle", or "on" before its second half
    xtorn,    \* a bus error reset the MAC since start_xmit took it
    torn,     \* a TX bus error reset the MAC while a poll was due or running
    early,    \* an RX interrupt was taken while NAPI was disabled
    badfree,  \* nuc970_free_desc freed a ring that was not live
    count     \* what the bounds limit

ringvars == <<gen, live, ring, rxdlsa, badfree>>
macvars  == <<on, frames, mista, enrx>>
pollvars == <<napi, pc, rx_cnt, pollring>>
phyvars  == <<phy, plink, elink, apc>>
xmitvars == <<xring, xtorn>>
vars     == <<life, ringvars, macvars, pollvars, phyvars, xmitvars, stopped,
              torn, early, count>>

OpenSteps  == {"irqtx", "irqrx", "phy", "queue", "napi", "trigger"}
CloseSteps == {"c_queue", "c_napi", "c_wait", "c_txirq", "c_rxirq",
               "c_idle", "c_free", "c_phy"}

TxRequested == life \in (OpenSteps \ {"irqtx"})
                        \cup {"up", "c_queue", "c_napi", "c_wait", "c_txirq"}
RxRequested == life \in (OpenSteps \ {"irqtx", "irqrx"})
                        \cup (CloseSteps \ {"c_idle", "c_free", "c_phy"}) \cup {"up"}

FaultsLeft == count.buserrs + count.nomem + count.noskb + count.noirq < MaxFaults
Bump(f) == count' = [count EXCEPT ![f] = @ + 1]

LifeInit ==
    /\ life = "down" /\ gen = 0 /\ live = {} /\ ring = 0 /\ rxdlsa = 0
    /\ on = FALSE /\ frames = FALSE /\ mista = {} /\ enrx = FALSE
    /\ napi = "disabled" /\ pc = "idle" /\ rx_cnt = 0 /\ pollring = 0
    /\ xring = 0 /\ xtorn = FALSE /\ stopped = TRUE
    /\ phy = FALSE /\ plink = FALSE /\ elink = FALSE /\ apc = "idle"
    /\ torn = FALSE /\ early = FALSE /\ badfree = FALSE
    /\ count = [opens |-> 0, buserrs |-> 0, nomem |-> 0, noskb |-> 0, noirq |-> 0,
                 links |-> 0]

-----------------------------------------------------------------------------
(* nuc970_reset_mac *)

\* nuc970_init_desc: a new ring, whose address goes to start_rx_ptr last.  On
\* failure the descriptors are freed again (or never were), ether->rdesc and
\* ether->tdesc still name them and start_rx_ptr keeps its old value.
init_desc(ok, kept) ==
    /\ gen' = gen + 1 /\ ring' = gen + 1
    /\ IF ok THEN live' = kept \cup {gen + 1} /\ rxdlsa' = gen + 1
             ELSE live' = kept /\ UNCHANGED rxdlsa

\* Stop, soft reset, free the ring if need_free, make a new one (its failure
\* is ignored), start again with every interrupt enabled, wake the queue.
reset_mac(need_free, ok) ==
    /\ init_desc(ok, IF need_free THEN live \ {ring} ELSE live)
    /\ badfree' = (badfree \/ (need_free /\ ring \notin live))
    /\ on' = TRUE /\ frames' = FALSE /\ mista' = {} /\ enrx' = TRUE
    /\ stopped' = FALSE

\* a reset counted as one that ran out of memory, or not
ResetOutcome(need_free, also) ==
    \/ reset_mac(need_free, TRUE) /\ Bump(also)
    \/ /\ FaultsLeft
       /\ reset_mac(need_free, FALSE)
       /\ count' = [count EXCEPT !.nomem = @ + 1, ![also] = @ + 1]

-----------------------------------------------------------------------------
(* Mutants: definitions below with a plausible bug, to show that each        *)
(* property can fail.  No specification uses them.                           *)

\* napi_disable forgotten when close runs
CloseNapiSkipped ==
    /\ life = "c_napi" /\ life' = "c_txirq"
    /\ UNCHANGED <<ringvars, macvars, pollvars, phyvars, xmitvars, stopped,
                   torn, early, count>>

\* complete without unmasking
PollEnableForgets ==
    /\ pc = "enable" /\ pc' = "trigger"
    /\ UNCHANGED <<life, ringvars, macvars, napi, rx_cnt, pollring, phyvars,
                   xmitvars, stopped, torn, early, count>>

\* close leaves the ring for the next open, which does not free one
CloseFreeForgets ==
    /\ life = "c_free" /\ life' = "c_phy"
    /\ UNCHANGED <<ringvars, macvars, pollvars, phyvars, xmitvars, stopped,
                   torn, early, count>>

\* close disables NAPI a second time
CloseTxIrqAfterDisable ==
    /\ life = "c_txirq" /\ napi = "free" /\ life' = "c_rxirq"
    /\ UNCHANGED <<ringvars, macvars, pollvars, phyvars, xmitvars, stopped,
                   torn, early, count>>

-----------------------------------------------------------------------------
(* nuc970_ether_open *)

\* nuc970_reset_mac(dev, 0) and the register writes after it
Open ==
    /\ life = "down" /\ count.opens < MaxOpens
    /\ ResetOutcome(FALSE, "opens")
    /\ life' = "irqtx"
    /\ early' = FALSE
    /\ UNCHANGED <<pollvars, phyvars, xmitvars, torn>>

\* request_irq; on failure -EAGAIN, with the MAC running and the ring kept
OpenIrqTx ==
    /\ life = "irqtx"
    /\ \/ life' = "irqrx" /\ UNCHANGED count
       \/ FaultsLeft /\ Bump("noirq") /\ life' = "down"
    /\ UNCHANGED <<ringvars, macvars, pollvars, phyvars, xmitvars, stopped,
                   torn, early>>

OpenIrqRx ==
    /\ life = "irqrx"
    /\ \/ life' = "phy" /\ UNCHANGED count
       \/ FaultsLeft /\ Bump("noirq") /\ life' = "down"
    /\ UNCHANGED <<ringvars, macvars, pollvars, phyvars, xmitvars, stopped,
                   torn, early>>

\* phy_start takes the lock under which the state machine runs
OpenPhy ==
    /\ life = "phy" /\ apc = "idle"
    /\ phy' = TRUE /\ life' = "queue"
    /\ UNCHANGED <<ringvars, macvars, pollvars, plink, elink, apc, xmitvars,
                   stopped, torn, early, count>>

OpenQueue ==
    /\ life = "queue"
    /\ stopped' = FALSE /\ life' = "napi"
    /\ UNCHANGED <<ringvars, macvars, pollvars, phyvars, xmitvars, torn, early, count>>

OpenNapi ==
    /\ life = "napi"
    /\ napi' = "free" /\ life' = "trigger"
    /\ UNCHANGED <<ringvars, macvars, pc, rx_cnt, pollring, phyvars, xmitvars,
                   stopped, torn, early, count>>

OpenTrigger ==
    /\ life = "trigger" /\ life' = "up"
    /\ UNCHANGED <<ringvars, macvars, pollvars, phyvars, xmitvars, stopped,
                   torn, early, count>>

-----------------------------------------------------------------------------
(* nuc970_ether_close; the stack has let start_xmit end *)

Close ==
    /\ life = "up" /\ xring = 0
    /\ on' = FALSE /\ life' = "c_queue"
    /\ UNCHANGED <<ringvars, frames, mista, enrx, pollvars, phyvars, xmitvars,
                   stopped, torn, early, count>>

CloseQueue ==
    /\ life = "c_queue"
    /\ stopped' = TRUE /\ life' = "c_napi"
    /\ UNCHANGED <<ringvars, macvars, pollvars, phyvars, xmitvars, torn, early, count>>

\* napi_disable announces itself (NAPI_STATE_DISABLE) ...
CloseNapi ==
    /\ life = "c_napi" /\ life' = "c_wait"
    /\ UNCHANGED <<ringvars, macvars, pollvars, phyvars, xmitvars, stopped,
                   torn, early, count>>

\* ... and sleeps until it gets NAPI_STATE_SCHED
CloseWait ==
    /\ life = "c_wait" /\ napi = "free"
    /\ napi' = "disabled" /\ life' = "c_txirq"
    /\ UNCHANGED <<ringvars, macvars, pc, rx_cnt, pollring, phyvars, xmitvars,
                   stopped, torn, early, count>>

CloseTxIrq ==
    /\ life = "c_txirq" /\ life' = "c_rxirq"
    /\ UNCHANGED <<ringvars, macvars, pollvars, phyvars, xmitvars, stopped,
                   torn, early, count>>

CloseRxIrq ==
    /\ life = "c_rxirq" /\ life' = "c_idle"
    /\ UNCHANGED <<ringvars, macvars, pollvars, phyvars, xmitvars, stopped,
                   torn, early, count>>

\* nuc970_return_default_idle: the soft reset stops the MAC
CloseIdle ==
    /\ life = "c_idle" /\ life' = "c_free"
    /\ on' = FALSE /\ mista' = {}
    /\ UNCHANGED <<ringvars, frames, enrx, pollvars, phyvars, xmitvars, stopped,
                   torn, early, count>>

\* nuc970_free_desc; ether->rdesc keeps its value
CloseFree ==
    /\ life = "c_free" /\ life' = "c_phy"
    /\ live' = live \ {ring}
    /\ badfree' = (badfree \/ ring \notin live)
    /\ UNCHANGED <<gen, ring, rxdlsa, macvars, pollvars, phyvars, xmitvars,
                   stopped, torn, early, count>>

ClosePhy ==
    /\ life = "c_phy" /\ apc = "idle"
    /\ phy' = FALSE /\ life' = "down"
    /\ UNCHANGED <<ringvars, macvars, pollvars, plink, elink, apc, xmitvars,
                   stopped, torn, early, count>>

-----------------------------------------------------------------------------
(* start_xmit between its first and its last use of txbd; see EtherTx *)

Xmit ==
    /\ life = "up"
    /\ \/ xring = 0 /\ ~ stopped /\ xring' = ring
       \/ xring # 0 /\ xring' = 0
    /\ xtorn' = FALSE
    /\ UNCHANGED <<life, ringvars, macvars, pollvars, phyvars, stopped,
                   torn, early, count>>

-----------------------------------------------------------------------------
(* The MAC (hardware): a frame arrives or is deferred for too long, the bus  *)
(* refuses an access                                                         *)

DmaStore ==
    /\ on
    /\ frames' = TRUE /\ mista' = mista \cup {"RXGD"}
    /\ UNCHANGED <<life, ringvars, on, enrx, pollvars, phyvars, xmitvars, stopped,
                   torn, early, count>>

\* a frame was deferred for too long
DmaDefer ==
    /\ on
    /\ mista' = mista \cup {"EXDEF"}
    /\ UNCHANGED <<life, ringvars, on, frames, enrx, pollvars, phyvars, xmitvars,
                   stopped, torn, early, count>>

DmaBusError(err) ==
    /\ on /\ FaultsLeft
    /\ mista' = mista \cup {err} /\ Bump("buserrs")
    /\ UNCHANGED <<life, ringvars, on, frames, enrx, pollvars, phyvars, xmitvars,
                   stopped, torn, early>>

-----------------------------------------------------------------------------
(* The interrupt handlers, each one step *)

\* a reset from a handler: the bus error was counted when it arose
IrqReset ==
    /\ \/ reset_mac(TRUE, TRUE) /\ UNCHANGED count
       \/ FaultsLeft /\ reset_mac(TRUE, FALSE) /\ Bump("nomem")
    /\ xtorn' = (xring # 0)
    /\ UNCHANGED xring

\* nuc970_rx_interrupt, RXBERR
RxIrqBusError ==
    /\ RxRequested /\ enrx /\ "RXBERR" \in mista
    /\ IrqReset
    /\ early' = FALSE
    /\ UNCHANGED <<life, pollvars, phyvars, torn>>

\* nuc970_rx_interrupt: mask; napi_schedule does nothing while SCHED is set or
\* napi_disable waits for it
RxIrq ==
    /\ RxRequested /\ enrx /\ mista \cap {"RXGD", "RXBERR"} = {"RXGD"}
    /\ mista' = mista \ {"RXGD"}
    /\ enrx' = FALSE
    /\ napi' = IF napi = "free" /\ life # "c_wait" THEN "queued" ELSE napi
    /\ early' = (early \/ (life \in OpenSteps /\ napi = "disabled"))
    /\ UNCHANGED <<life, ringvars, on, frames, pc, rx_cnt, pollring, phyvars,
                   xmitvars, stopped, torn, count>>

\* nuc970_tx_interrupt, TXBERR: not masked by ENRXINTR
TxIrqBusError ==
    /\ TxRequested /\ "TXBERR" \in mista /\ "EXDEF" \notin mista
    /\ IrqReset
    /\ torn' = (torn \/ napi = "queued" \/ pc # "idle")
    /\ early' = FALSE
    /\ UNCHANGED <<life, pollvars, phyvars>>

\* nuc970_tx_interrupt, EXDEF (which MIEN does not enable: it is seen when a
\* frame was completed or the bus failed): a message only, also for a bus error
\* that came with it, whose status bit is cleared all the same
TxIrqDefer ==
    /\ TxRequested /\ "EXDEF" \in mista
    /\ mista' = mista \ {"EXDEF", "TXBERR"}
    /\ stopped' = FALSE
    /\ UNCHANGED <<life, ringvars, on, frames, enrx, pollvars, phyvars, xmitvars,
                   torn, early, count>>

\* nuc970_tx_interrupt after a completed frame: the last lines wake the queue
TxIrqDone ==
    /\ TxRequested /\ stopped /\ mista \cap {"TXBERR", "EXDEF"} = {}
    /\ stopped' = FALSE
    /\ UNCHANGED <<life, ringvars, macvars, pollvars, phyvars, xmitvars,
                   torn, early, count>>

-----------------------------------------------------------------------------
(* nuc970_poll, as in EtherRx but for the content of the ring *)

PollStart ==
    /\ pc = "idle" /\ napi = "queued"
    /\ pc' = "look" /\ rx_cnt' = 0 /\ pollring' = ring
    /\ UNCHANGED <<life, ringvars, macvars, napi, phyvars, xmitvars, stopped,
                   torn, early, count>>

\* one frame out of rxbd, then rxbd = ether->rdesc + ether->cur_rx; there may
\* be more frames, and a ring that is gone may hold anything
PollFrame ==
    /\ pc = "look" /\ (frames \/ pollring # ring)
    /\ frames' \in {frames, FALSE}
    /\ rx_cnt' = rx_cnt + 1 /\ pollring' = ring
    /\ IF rx_cnt + 1 < Budget THEN UNCHANGED pc ELSE pc' = "budget"
    /\ UNCHANGED <<life, ringvars, on, mista, enrx, napi, phyvars, xmitvars,
                   stopped, torn, early, count>>

\* no descriptor to handle: napi_complete
PollNone ==
    /\ pc = "look" /\ (~ frames \/ pollring # ring)
    /\ pc' = "enable" /\ pollring' = 0 /\ napi' = "free"
    /\ UNCHANGED <<life, ringvars, macvars, rx_cnt, phyvars, xmitvars, stopped,
                   torn, early, count>>

PollEnable ==
    /\ pc = "enable" /\ pc' = "trigger"
    /\ enrx' = TRUE
    /\ UNCHANGED <<life, ringvars, on, frames, mista, napi, rx_cnt, pollring,
                   phyvars, xmitvars, stopped, torn, early, count>>

\* dev_alloc_skb fails: rx_out, still queued
PollAllocFail ==
    /\ pc = "look" /\ frames /\ FaultsLeft
    /\ Bump("noskb")
    /\ pc' = "trigger" /\ pollring' = 0
    /\ UNCHANGED <<life, ringvars, macvars, napi, rx_cnt, phyvars, xmitvars, stopped,
                   torn, early>>

\* Back in net_rx_action.  A poll that used its whole budget is queued again,
\* unless napi_disable waits: then net_rx_action completes it.
PollReturn ==
    /\ pc \in {"trigger", "budget"}
    /\ pc' = "idle" /\ pollring' = 0
    /\ napi' = IF pc = "budget" /\ life = "c_wait" THEN "free" ELSE napi
    /\ torn' = (torn /\ napi' = "queued")
    /\ UNCHANGED <<life, ringvars, macvars, rx_cnt, phyvars, xmitvars, stopped,
                   early, count>>

-----------------------------------------------------------------------------
(* The PHY state machine and adjust_link *)

\* First half, interrupts off: the link that went is answered by clearing RXON
\* and TXON; a link that came (or changed its speed) by the second half.
adjust_link(l, changed) ==
    /\ plink' = l /\ elink' = l
    /\ on' = (on /\ l)
    /\ apc' = IF l /\ (~ elink \/ changed) THEN "on" ELSE "idle"

PhyLink(l, changed) ==
    /\ phy /\ apc = "idle" /\ count.links < MaxLinks
    /\ adjust_link(l, changed) /\ Bump("links")
    /\ UNCHANGED <<life, ringvars, frames, mista, enrx, pollvars, phy, xmitvars,
                   stopped, torn, early>>

\* PHY_HALTED: a link that was up is taken down
PhyHalted ==
    /\ ~ phy /\ apc = "idle" /\ plink
    /\ adjust_link(FALSE, FALSE)
    /\ UNCHANGED <<life, ringvars, frames, mista, enrx, pollvars, phy, xmitvars,
                   stopped, torn, early, count>>

AdjustOn ==
    /\ apc = "on" /\ apc' = "idle"
    /\ on' = TRUE
    /\ UNCHANGED <<life, ringvars, frames, mista, enrx, pollvars, phy, plink,
                   elink, xmitvars, stopped, torn, early, count>>

-----------------------------------------------------------------------------
OpenNext  == Open \/ OpenIrqTx \/ OpenIrqRx \/ OpenPhy \/ OpenQueue \/ OpenNapi
             \/ OpenTrigger
CloseNext == Close \/ CloseQueue \/ CloseNapi \/ CloseWait \/ CloseTxIrq
             \/ CloseRxIrq \/ CloseIdle \/ CloseFree \/ ClosePhy
MacNext   == DmaStore \/ DmaDefer \/ \E err \in {"RXBERR", "TXBERR"} : DmaBusError(err)
IrqNext   == RxIrqBusError \/ RxIrq \/ TxIrqBusError \/ TxIrqDefer \/ TxIrqDone
PollNext  == PollStart \/ PollFrame \/ PollNone \/ PollEnable \/ PollAllocFail
             \/ PollReturn
PhyNext   == (\E l, changed \in BOOLEAN : PhyLink(l, changed)) \/ PhyHalted \/ AdjustOn

\* One CPU: the poll runs with softirqs disabled, start_xmit too, in a process
\* or inside the poll; a process goes on only when neither is under way.
Softirq == xring = 0 /\ PollNext
Process == pc = "idle" /\ xring = 0 /\ (OpenNext \/ CloseNext \/ PhyNext)

LifeNext == Process \/ Softirq \/ Xmit \/ IrqNext \/ MacNext

LifeSpec == LifeInit /\ [][LifeNext]_vars

\* The softirq runs the queued poll and a start_xmit that has begun ends; an
\* open, close or round of the PHY machine that has begun goes on even if polls
\* come again and again, since ksoftirqd shares the CPU with it.
LifeFairSpec ==
    /\ LifeSpec
    /\ SF_vars(Process /\ (life \notin {"down", "up"} \/ apc = "on"))
    /\ WF_vars(Softirq) /\ WF_vars(Xmit /\ xring # 0)
-----------------------------------------------------------------------------
(* Properties *)

\* Type invariant: rings are numbered in the order they were made, the poll
\* holds a ring exactly while it looks at one, within its budget.
LifeTypeOK ==
    /\ life \in OpenSteps \cup CloseSteps \cup {"down", "up"}
    /\ gen \in Nat /\ live \subseteq 1 .. gen /\ ring \in 0 .. gen /\ rxdlsa \in 0 .. gen
    /\ {on, frames, enrx, stopped, phy, plink, elink, xtorn, torn, early,
        badfree} \subseteq BOOLEAN
    /\ mista \subseteq {"RXGD", "RXBERR", "TXBERR", "EXDEF"}
    /\ napi \in {"free", "queued", "disabled"}
    /\ pc \in {"idle", "look", "enable", "trigger", "budget"}
    /\ rx_cnt \in 0 .. Budget /\ pollring \in 0 .. gen /\ xring \in 0 .. gen
    /\ apc \in {"idle", "on"}

\* The MAC is on only with a ring that is allocated, through every open, close
\* and reset, but in two cases the code leaves open: memory ran out in
\* nuc970_init_desc, whose result nuc970_reset_mac ignores; and a link that
\* comes up after close reset the MAC and before phy_stop, until PHY_HALTED
\* takes it down.
DmaOnLiveRing ==
    on /\ rxdlsa \notin live =>
        \/ count.nomem > 0
        \/ life \in {"c_phy", "down"} /\ plink

\* The poll works on an allocated ring, whatever resets and closes happen
\* around it, unless a TX bus error reset the MAC under it (or memory ran out):
\* nuc970_free_desc's "must call with Tx/Rx stopped" is kept by every caller but
\* nuc970_tx_interrupt.
PollOnLiveRing ==
    pollring # 0 /\ pollring \notin live => torn \/ count.nomem > 0

\* So does start_xmit, unless a bus error of either direction reset the MAC
\* after it took its txbd (or memory ran out): it disables no interrupt.
XmitOnLiveRing ==
    xring # 0 /\ xring \notin live => xtorn \/ count.nomem > 0

\* Neither the MAC, nor the poll, nor start_xmit works on a freed ring, but for
\* the cases named above.
OnLiveRing == LifeTypeOK /\ DmaOnLiveRing /\ PollOnLiveRing /\ XmitOnLiveRing

\* No ring is freed twice while memory lasts, also when open failed half way
\* or a bus error is handled during close.
FreedOnce == badfree => count.nomem > 0

\* Rings leak only through an open that failed in request_irq: one each.
LeakOnlyByFailedOpen ==
    Cardinality(live \ {ring}) <= count.noirq

\* Every ring nuc970_init_desc made is freed once, by a reset or by close.
RingsFreedOnce == FreedOnce /\ LeakOnlyByFailedOpen

\* While the interface is up, RX interrupts are masked only if a poll will
\* unmask them; the exception is an interrupt that came while NAPI was still
\* disabled by nuc970_ether_open.  napi_enable is reached with SCHED set only
\* (it has a BUG_ON).
DeafOnlyFromOpen ==
    /\ life = "up" /\ ~ enrx => napi = "queued" \/ pc = "enable" \/ early
    /\ life = "napi" => napi = "disabled"

\* The MAC is on whenever the interface is up and the PHY reported a link, for
\* every order of link changes, resets, closes and reopens.
OnWithLink == life = "up" /\ plink /\ apc = "idle" => on

\* An interface that is up receives: its MAC is on and its interrupts reach it.
HearsWhenUp == DeafOnlyFromOpen /\ OnWithLink

\* Close returns: napi_disable gets NAPI_STATE_SCHED from the poll.
CloseReturns == life = "c_queue" ~> life = "down"
=============================================================================

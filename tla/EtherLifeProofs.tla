-------------------------- MODULE EtherLifeProofs --------------------------
(***************************************************************************)
(* Proofs about EtherLife for every NAPI weight and every number of opens, *)
(* faults and link changes: OnLiveRing, RingsFreedOnce and HearsWhenUp.    *)
(***************************************************************************)
EXTENDS EtherLife, FiniteSetTheorems, TLAPS

Counts == [opens : Nat, buserrs : Nat, nomem : Nat, noskb : Nat, noirq : Nat, links : Nat]

\* the steps of open and close between napi_enable and napi_disable, and those
\* at which the interface is coming up or is up
NapiEnabled == {"trigger", "up", "c_queue", "c_napi", "c_wait"}
ComingUp    == OpenSteps \cup {"up"}

LifeTypes == LifeTypeOK /\ count \in Counts

\* While memory lasts the MAC has the driver's own ring, which is allocated but
\* between nuc970_free_desc of a close and the next open; in between only a
\* link that came up can have switched the MAC on.
RingKnows ==
    count.nomem = 0 =>
        /\ rxdlsa = ring /\ ~ badfree
        /\ life \notin {"down", "c_phy"} => ring \in live
        /\ on /\ (life \in {"c_free", "c_phy"} \/ (life = "down" /\ ring \notin live))
              => plink

\* A scheduled poll excludes RX interrupts unless a TX bus error enabled them
\* again (torn); so no other reset meets a poll that holds a ring.
PollKnows ==
    /\ napi # "disabled" <=> life \in NapiEnabled
    /\ pc \in {"look", "budget"} => napi = "queued"
    /\ pc = "look" => rx_cnt < Budget
    /\ pollring # 0 => pc \in {"look", "budget"}
    /\ ~ torn => /\ napi = "queued" \/ pc = "enable" => ~ enrx
                 /\ pc = "enable" => napi # "queued"
                 /\ count.nomem = 0 /\ pollring # 0 => pollring \in live

\* start_xmit holds the driver's own ring, on an interface that is up, unless a
\* bus error replaced it.
XmitKnows ==
    xring # 0 => life = "up" /\ (xtorn \/ count.nomem > 0 \/ xring = ring)

\* DeafOnlyFromOpen, from the reset of open on
DeafKnows ==
    life \in ComingUp /\ ~ enrx => napi = "queued" \/ pc = "enable" \/ early

\* OnWithLink, from the reset of open on; the driver's copy of the link
LinkKnows ==
    /\ elink = plink /\ (apc = "on" => plink)
    /\ life \in ComingUp /\ plink /\ apc = "idle" => on

\* LeakOnlyByFailedOpen; with no ring in use there is none beside the leaks
LeakKnows ==
    /\ Cardinality(live \ {ring}) <= count.noirq
    /\ life \in {"down", "c_phy"} => Cardinality(live) <= count.noirq

LifeInv ==
    /\ LifeTypes
    /\ RingKnows
    /\ PollKnows
    /\ XmitKnows
    /\ DeafKnows
    /\ LinkKnows
    /\ LeakKnows
-----------------------------------------------------------------------------
\* A finite set and what is left of it without one element.
LEMMA WithoutOne ==
  ASSUME NEW n \in Nat, NEW S \in SUBSET (1 .. n), NEW x
  PROVE  /\ Cardinality(S) \in Nat /\ Cardinality(S \ {x}) \in Nat
         /\ Cardinality(S \ {x}) <= Cardinality(S)
         /\ Cardinality(S) <= Cardinality(S \ {x}) + 1
  <1>1. IsFiniteSet(1 .. n)
    BY FS_Interval
  <1>2. IsFiniteSet(S)
    BY <1>1, FS_Subset
  <1>3. /\ IsFiniteSet(S \ {x})
        /\ Cardinality(S \ {x}) = IF x \in S THEN Cardinality(S) - 1 ELSE Cardinality(S)
    BY <1>2, FS_RemoveElement
  <1>4. Cardinality(S) \in Nat /\ Cardinality(S \ {x}) \in Nat
    BY <1>2, <1>3, FS_CardinalityType
  <1> QED
    BY <1>3, <1>4

\* What nuc970_reset_mac leaves: the new ring is the newest, it is in use by the
\* driver and, if memory lasted, allocated and known to the MAC; of the others
\* the old one is gone if it was to be freed.
LEMMA ResetFacts ==
  ASSUME LifeTypes, NEW need_free \in BOOLEAN, NEW ok \in BOOLEAN,
         reset_mac(need_free, ok)
  PROVE  /\ gen' = gen + 1 /\ gen' \in Nat /\ live' \subseteq 1 .. gen'
         /\ ring' = gen' /\ ring' \in 0 .. gen' /\ rxdlsa' \in 0 .. gen'
         /\ live' \ {ring'} = IF need_free THEN live \ {ring} ELSE live
         /\ ok => ring' \in live' /\ rxdlsa' = ring'
         /\ badfree' = (badfree \/ (need_free /\ ring \notin live))
         /\ badfree' \in BOOLEAN
         /\ on' = TRUE /\ frames' = FALSE /\ mista' = {} /\ enrx' = TRUE
         /\ stopped' = FALSE
  <1>1. gen \in Nat /\ live \subseteq 1 .. gen /\ rxdlsa \in 0 .. gen /\ gen + 1 \notin live
        /\ badfree \in BOOLEAN
    BY DEF LifeTypes, LifeTypeOK
  <1>2. live' \subseteq 1 .. gen'
    <2>1. gen' = gen + 1 /\ live' \subseteq live \cup {gen + 1}
      BY DEF reset_mac, init_desc
    <2>2. live \cup {gen + 1} \subseteq 1 .. gen + 1
      BY <1>1
    <2> QED
      BY <2>1, <2>2
  <1>3. live' \ {ring'} = IF need_free THEN live \ {ring} ELSE live
    BY <1>1 DEF reset_mac, init_desc
  <1> QED
    BY <1>1, <1>2, <1>3 DEF reset_mac, init_desc

\* The interface that was never opened satisfies the invariant.
LEMMA LifeInitInv == LifeInit => LifeInv
  <1> SUFFICES ASSUME LifeInit PROVE LifeInv
    OBVIOUS
  <1> USE LifeConstants DEF LifeInit
  <1>1. LifeTypes
    <2>1. count \in Counts
      BY DEF Counts
    <2>2. rx_cnt \in 0 .. Budget /\ live \subseteq 1 .. gen
      OBVIOUS
    <2>3. {on, frames, enrx, stopped, phy, plink, elink, xtorn, torn, early,
          badfree} \subseteq BOOLEAN
      OBVIOUS
    <2> QED
      BY <2>1, <2>2, <2>3 DEF LifeTypes, LifeTypeOK
  <1>2. RingKnows /\ PollKnows /\ XmitKnows /\ DeafKnows /\ LinkKnows
    BY DEF RingKnows, PollKnows, XmitKnows, DeafKnows, LinkKnows, NapiEnabled, ComingUp, OpenSteps
  <1>3. LeakKnows
    <2>1. live \ {ring} = {}
      OBVIOUS
    <2> QED
      BY <2>1, FS_EmptySet DEF LeakKnows
  <1> QED
    BY <1>1, <1>2, <1>3 DEF LifeInv

\* Every step of open, close, PHY machine, poll, interrupts and MAC preserves
\* the invariant.
LEMMA LifeStepInv == LifeInv /\ [LifeNext]_vars => LifeInv'
  <1> SUFFICES ASSUME LifeInv, [LifeNext]_vars PROVE LifeInv'
    OBVIOUS
  <1> USE DEF LifeInv
  <1>a. /\ count \in Counts /\ Cardinality(live) \in Nat
        /\ Cardinality(live \ {ring}) \in Nat
        /\ Cardinality(live \ {ring}) <= Cardinality(live)
        /\ Cardinality(live) <= Cardinality(live \ {ring}) + 1
    BY WithoutOne DEF LifeTypes, LifeTypeOK
  <1>1. CASE OpenIrqTx /\ pc = "idle"
    <2> USE <1>1 DEF OpenIrqTx, Bump, ringvars, macvars, pollvars, phyvars, xmitvars
    <2>1. LifeTypes'
      BY LifeConstants DEF LifeTypes, LifeTypeOK, Counts, OpenSteps, CloseSteps, PollKnows
    <2>2. RingKnows'
      BY DEF LifeTypes, LifeTypeOK, Counts, RingKnows, LinkKnows
    <2>3. PollKnows'
      BY DEF LifeTypes, LifeTypeOK, Counts, PollKnows, RingKnows, NapiEnabled
    <2>4. DeafKnows' /\ LinkKnows'
      BY DEF LifeTypes, LifeTypeOK, DeafKnows, LinkKnows, PollKnows, NapiEnabled,
         ComingUp, OpenSteps
    <2>5. LeakKnows'
      BY <1>a DEF LeakKnows, Counts
    <2>6. XmitKnows'
      BY <1>a DEF Counts, XmitKnows
    <2> QED
      BY <2>1, <2>2, <2>3, <2>4, <2>5, <2>6
  <1>2. CASE OpenIrqRx /\ pc = "idle"
    <2> USE <1>2 DEF OpenIrqRx, Bump, ringvars, macvars, pollvars, phyvars, xmitvars
    <2>1. LifeTypes'
      BY LifeConstants DEF LifeTypes, LifeTypeOK, Counts, OpenSteps, CloseSteps, PollKnows
    <2>2. RingKnows'
      BY DEF LifeTypes, LifeTypeOK, Counts, RingKnows, LinkKnows
    <2>3. PollKnows'
      BY DEF LifeTypes, LifeTypeOK, Counts, PollKnows, RingKnows, NapiEnabled
    <2>4. DeafKnows' /\ LinkKnows'
      BY DEF LifeTypes, LifeTypeOK, DeafKnows, LinkKnows, PollKnows, NapiEnabled,
         ComingUp, OpenSteps
    <2>5. LeakKnows'
      BY <1>a DEF LeakKnows, Counts
    <2>6. XmitKnows'
      BY <1>a DEF Counts, XmitKnows
    <2> QED
      BY <2>1, <2>2, <2>3, <2>4, <2>5, <2>6
  <1>3. CASE OpenPhy /\ pc = "idle"
    <2> USE <1>3 DEF OpenPhy, Bump, ringvars, macvars, pollvars, phyvars, xmitvars
    <2>1. LifeTypes'
      BY LifeConstants DEF LifeTypes, LifeTypeOK, Counts, OpenSteps, CloseSteps, PollKnows
    <2>2. RingKnows'
      BY DEF LifeTypes, LifeTypeOK, Counts, RingKnows, LinkKnows
    <2>3. PollKnows'
      BY DEF LifeTypes, LifeTypeOK, Counts, PollKnows, RingKnows, NapiEnabled
    <2>4. DeafKnows' /\ LinkKnows'
      BY DEF LifeTypes, LifeTypeOK, DeafKnows, LinkKnows, PollKnows, NapiEnabled,
         ComingUp, OpenSteps
    <2>5. LeakKnows'
      BY <1>a DEF LeakKnows, Counts
    <2>6. XmitKnows'
      BY <1>a DEF Counts, XmitKnows
    <2> QED
      BY <2>1, <2>2, <2>3, <2>4, <2>5, <2>6
  <1>4. CASE OpenQueue /\ pc = "idle"
    <2> USE <1>4 DEF OpenQueue, Bump, ringvars, macvars, pollvars, phyvars, xmitvars
    <2>1. LifeTypes'
      BY LifeConstants DEF LifeTypes, LifeTypeOK, Counts, OpenSteps, CloseSteps, PollKnows
    <2>2. RingKnows'
      BY DEF LifeTypes, LifeTypeOK, Counts, RingKnows, LinkKnows
    <2>3. PollKnows'
      BY DEF LifeTypes, LifeTypeOK, Counts, PollKnows, RingKnows, NapiEnabled
    <2>4. DeafKnows' /\ LinkKnows'
      BY DEF LifeTypes, LifeTypeOK, DeafKnows, LinkKnows, PollKnows, NapiEnabled,
         ComingUp, OpenSteps
    <2>5. LeakKnows'
      BY <1>a DEF LeakKnows, Counts
    <2>6. XmitKnows'
      BY <1>a DEF Counts, XmitKnows
    <2> QED
      BY <2>1, <2>2, <2>3, <2>4, <2>5, <2>6
  <1>5. CASE OpenNapi /\ pc = "idle"
    <2> USE <1>5 DEF OpenNapi, Bump, ringvars, macvars, pollvars, phyvars, xmitvars
    <2>1. LifeTypes'
      BY LifeConstants DEF LifeTypes, LifeTypeOK, Counts, OpenSteps, CloseSteps, PollKnows
    <2>2. RingKnows'
      BY DEF LifeTypes, LifeTypeOK, Counts, RingKnows, LinkKnows
    <2>3. PollKnows'
      BY DEF LifeTypes, LifeTypeOK, Counts, PollKnows, RingKnows, NapiEnabled
    <2>4. DeafKnows' /\ LinkKnows'
      BY DEF LifeTypes, LifeTypeOK, DeafKnows, LinkKnows, PollKnows, NapiEnabled,
         ComingUp, OpenSteps
    <2>5. LeakKnows'
      BY <1>a DEF LeakKnows, Counts
    <2>6. XmitKnows'
      BY <1>a DEF Counts, XmitKnows
    <2> QED
      BY <2>1, <2>2, <2>3, <2>4, <2>5, <2>6
  <1>6. CASE OpenTrigger /\ pc = "idle"
    <2> USE <1>6 DEF OpenTrigger, Bump, ringvars, macvars, pollvars, phyvars, xmitvars
    <2>1. LifeTypes'
      BY LifeConstants DEF LifeTypes, LifeTypeOK, Counts, OpenSteps, CloseSteps, PollKnows
    <2>2. RingKnows'
      BY DEF LifeTypes, LifeTypeOK, Counts, RingKnows, LinkKnows
    <2>3. PollKnows'
      BY DEF LifeTypes, LifeTypeOK, Counts, PollKnows, RingKnows, NapiEnabled
    <2>4. DeafKnows' /\ LinkKnows'
      BY DEF LifeTypes, LifeTypeOK, DeafKnows, LinkKnows, PollKnows, NapiEnabled,
         ComingUp, OpenSteps
    <2>5. LeakKnows'
      BY <1>a DEF LeakKnows, Counts
    <2>6. XmitKnows'
      BY <1>a DEF Counts, XmitKnows
    <2> QED
      BY <2>1, <2>2, <2>3, <2>4, <2>5, <2>6
  <1>7. CASE Close /\ pc = "idle"
    <2> USE <1>7 DEF Close, Bump, ringvars, macvars, pollvars, phyvars, xmitvars
    <2>1. LifeTypes'
      BY LifeConstants DEF LifeTypes, LifeTypeOK, Counts, OpenSteps, CloseSteps, PollKnows
    <2>2. RingKnows'
      BY DEF LifeTypes, LifeTypeOK, Counts, RingKnows, LinkKnows
    <2>3. PollKnows'
      BY DEF LifeTypes, LifeTypeOK, Counts, PollKnows, RingKnows, NapiEnabled
    <2>4. DeafKnows' /\ LinkKnows'
      BY DEF LifeTypes, LifeTypeOK, DeafKnows, LinkKnows, PollKnows, NapiEnabled,
         ComingUp, OpenSteps
    <2>5. LeakKnows'
      BY <1>a DEF LeakKnows, Counts
    <2>6. XmitKnows'
      BY <1>a DEF Counts, XmitKnows
    <2> QED
      BY <2>1, <2>2, <2>3, <2>4, <2>5, <2>6
  <1>8. CASE CloseQueue /\ pc = "idle"
    <2> USE <1>8 DEF CloseQueue, Bump, ringvars, macvars, pollvars, phyvars, xmitvars
    <2>1. LifeTypes'
      BY LifeConstants DEF LifeTypes, LifeTypeOK, Counts, OpenSteps, CloseSteps, PollKnows
    <2>2. RingKnows'
      BY DEF LifeTypes, LifeTypeOK, Counts, RingKnows, LinkKnows
    <2>3. PollKnows'
      BY DEF LifeTypes, LifeTypeOK, Counts, PollKnows, RingKnows, NapiEnabled
    <2>4. DeafKnows' /\ LinkKnows'
      BY DEF LifeTypes, LifeTypeOK, DeafKnows, LinkKnows, PollKnows, NapiEnabled,
         ComingUp, OpenSteps
    <2>5. LeakKnows'
      BY <1>a DEF LeakKnows, Counts
    <2>6. XmitKnows'
      BY <1>a DEF Counts, XmitKnows
    <2> QED
      BY <2>1, <2>2, <2>3, <2>4, <2>5, <2>6
  <1>9. CASE CloseNapi /\ pc = "idle"
    <2> USE <1>9 DEF CloseNapi, Bump, ringvars, macvars, pollvars, phyvars, xmitvars
    <2>1. LifeTypes'
      BY LifeConstants DEF LifeTypes, LifeTypeOK, Counts, OpenSteps, CloseSteps, PollKnows
    <2>2. RingKnows'
      BY DEF LifeTypes, LifeTypeOK, Counts, RingKnows, LinkKnows
    <2>3. PollKnows'
      BY DEF LifeTypes, LifeTypeOK, Counts, PollKnows, RingKnows, NapiEnabled
    <2>4. DeafKnows' /\ LinkKnows'
      BY DEF LifeTypes, LifeTypeOK, DeafKnows, LinkKnows, PollKnows, NapiEnabled,
         ComingUp, OpenSteps
    <2>5. LeakKnows'
      BY <1>a DEF LeakKnows, Counts
    <2>6. XmitKnows'
      BY <1>a DEF Counts, XmitKnows
    <2> QED
      BY <2>1, <2>2, <2>3, <2>4, <2>5, <2>6
  <1>10. CASE CloseWait /\ pc = "idle"
    <2> USE <1>10 DEF CloseWait, Bump, ringvars, macvars, pollvars, phyvars, xmitvars
    <2>1. LifeTypes'
      BY LifeConstants DEF LifeTypes, LifeTypeOK, Counts, OpenSteps, CloseSteps, PollKnows
    <2>2. RingKnows'
      BY DEF LifeTypes, LifeTypeOK, Counts, RingKnows, LinkKnows
    <2>3. PollKnows'
      BY DEF LifeTypes, LifeTypeOK, Counts, PollKnows, RingKnows, NapiEnabled
    <2>4. DeafKnows' /\ LinkKnows'
      BY DEF LifeTypes, LifeTypeOK, DeafKnows, LinkKnows, PollKnows, NapiEnabled,
         ComingUp, OpenSteps
    <2>5. LeakKnows'
      BY <1>a DEF LeakKnows, Counts
    <2>6. XmitKnows'
      BY <1>a DEF Counts, XmitKnows
    <2> QED
      BY <2>1, <2>2, <2>3, <2>4, <2>5, <2>6
  <1>11. CASE CloseTxIrq /\ pc = "idle"
    <2> USE <1>11 DEF CloseTxIrq, Bump, ringvars, macvars, pollvars, phyvars, xmitvars
    <2>1. LifeTypes'
      BY LifeConstants DEF LifeTypes, LifeTypeOK, Counts, OpenSteps, CloseSteps, PollKnows
    <2>2. RingKnows'
      BY DEF LifeTypes, LifeTypeOK, Counts, RingKnows, LinkKnows
    <2>3. PollKnows'
      BY DEF LifeTypes, LifeTypeOK, Counts, PollKnows, RingKnows, NapiEnabled
    <2>4. DeafKnows' /\ LinkKnows'
      BY DEF LifeTypes, LifeTypeOK, DeafKnows, LinkKnows, PollKnows, NapiEnabled,
         ComingUp, OpenSteps
    <2>5. LeakKnows'
      BY <1>a DEF LeakKnows, Counts
    <2>6. XmitKnows'
      BY <1>a DEF Counts, XmitKnows
    <2> QED
      BY <2>1, <2>2, <2>3, <2>4, <2>5, <2>6
  <1>12. CASE CloseRxIrq /\ pc = "idle"
    <2> USE <1>12 DEF CloseRxIrq, Bump, ringvars, macvars, pollvars, phyvars, xmitvars
    <2>1. LifeTypes'
      BY LifeConstants DEF LifeTypes, LifeTypeOK, Counts, OpenSteps, CloseSteps, PollKnows
    <2>2. RingKnows'
      BY DEF LifeTypes, LifeTypeOK, Counts, RingKnows, LinkKnows
    <2>3. PollKnows'
      BY DEF LifeTypes, LifeTypeOK, Counts, PollKnows, RingKnows, NapiEnabled
    <2>4. DeafKnows' /\ LinkKnows'
      BY DEF LifeTypes, LifeTypeOK, DeafKnows, LinkKnows, PollKnows, NapiEnabled,
         ComingUp, OpenSteps
    <2>5. LeakKnows'
      BY <1>a DEF LeakKnows, Counts
    <2>6. XmitKnows'
      BY <1>a DEF Counts, XmitKnows
    <2> QED
      BY <2>1, <2>2, <2>3, <2>4, <2>5, <2>6
  <1>13. CASE CloseIdle /\ pc = "idle"
    <2> USE <1>13 DEF CloseIdle, Bump, ringvars, macvars, pollvars, phyvars, xmitvars
    <2>1. LifeTypes'
      BY LifeConstants DEF LifeTypes, LifeTypeOK, Counts, OpenSteps, CloseSteps, PollKnows
    <2>2. RingKnows'
      BY DEF LifeTypes, LifeTypeOK, Counts, RingKnows, LinkKnows
    <2>3. PollKnows'
      BY DEF LifeTypes, LifeTypeOK, Counts, PollKnows, RingKnows, NapiEnabled
    <2>4. DeafKnows' /\ LinkKnows'
      BY DEF LifeTypes, LifeTypeOK, DeafKnows, LinkKnows, PollKnows, NapiEnabled,
         ComingUp, OpenSteps
    <2>5. LeakKnows'
      BY <1>a DEF LeakKnows, Counts
    <2>6. XmitKnows'
      BY <1>a DEF Counts, XmitKnows
    <2> QED
      BY <2>1, <2>2, <2>3, <2>4, <2>5, <2>6
  <1>14. CASE CloseFree /\ pc = "idle"
    <2> USE <1>14 DEF CloseFree, Bump, ringvars, macvars, pollvars, phyvars, xmitvars
    <2>1. LifeTypes'
      BY LifeConstants DEF LifeTypes, LifeTypeOK, Counts, OpenSteps, CloseSteps, PollKnows
    <2>2. RingKnows'
      BY DEF LifeTypes, LifeTypeOK, Counts, RingKnows, LinkKnows
    <2>3. PollKnows'
      BY DEF LifeTypes, LifeTypeOK, Counts, PollKnows, RingKnows, NapiEnabled
    <2>4. DeafKnows' /\ LinkKnows'
      BY DEF LifeTypes, LifeTypeOK, DeafKnows, LinkKnows, PollKnows, NapiEnabled,
         ComingUp, OpenSteps
    <2>5. LeakKnows'
      BY <1>a DEF LeakKnows, Counts
    <2>6. XmitKnows'
      BY <1>a DEF Counts, XmitKnows
    <2> QED
      BY <2>1, <2>2, <2>3, <2>4, <2>5, <2>6
  <1>15. CASE ClosePhy /\ pc = "idle"
    <2> USE <1>15 DEF ClosePhy, Bump, ringvars, macvars, pollvars, phyvars, xmitvars
    <2>1. LifeTypes'
      BY LifeConstants DEF LifeTypes, LifeTypeOK, Counts, OpenSteps, CloseSteps, PollKnows
    <2>2. RingKnows'
      BY DEF LifeTypes, LifeTypeOK, Counts, RingKnows, LinkKnows
    <2>3. PollKnows'
      BY DEF LifeTypes, LifeTypeOK, Counts, PollKnows, RingKnows, NapiEnabled
    <2>4. DeafKnows' /\ LinkKnows'
      BY DEF LifeTypes, LifeTypeOK, DeafKnows, LinkKnows, PollKnows, NapiEnabled,
         ComingUp, OpenSteps
    <2>5. LeakKnows'
      BY <1>a DEF LeakKnows, Counts
    <2>6. XmitKnows'
      BY <1>a DEF Counts, XmitKnows
    <2> QED
      BY <2>1, <2>2, <2>3, <2>4, <2>5, <2>6
  <1>16. ASSUME NEW l \in BOOLEAN, NEW changed \in BOOLEAN, PhyLink(l, changed), pc = "idle" PROVE LifeInv'
    <2> USE <1>16 DEF PhyLink, adjust_link, Bump, ringvars, macvars, pollvars, phyvars, xmitvars
    <2>1. LifeTypes'
      BY LifeConstants DEF LifeTypes, LifeTypeOK, Counts, OpenSteps, CloseSteps, PollKnows
    <2>2. RingKnows'
      BY DEF LifeTypes, LifeTypeOK, Counts, RingKnows, LinkKnows
    <2>3. PollKnows'
      BY DEF LifeTypes, LifeTypeOK, Counts, PollKnows, RingKnows, NapiEnabled
    <2>4. DeafKnows' /\ LinkKnows'
      BY DEF LifeTypes, LifeTypeOK, DeafKnows, LinkKnows, PollKnows, NapiEnabled,
         ComingUp, OpenSteps
    <2>5. LeakKnows'
      BY <1>a DEF LeakKnows, Counts
    <2>6. XmitKnows'
      BY <1>a DEF Counts, XmitKnows
    <2> QED
      BY <2>1, <2>2, <2>3, <2>4, <2>5, <2>6
  <1>17. CASE PhyHalted /\ pc = "idle"
    <2> USE <1>17 DEF PhyHalted, adjust_link, Bump, ringvars, macvars, pollvars, phyvars, xmitvars
    <2>1. LifeTypes'
      BY LifeConstants DEF LifeTypes, LifeTypeOK, Counts, OpenSteps, CloseSteps, PollKnows
    <2>2. RingKnows'
      BY DEF LifeTypes, LifeTypeOK, Counts, RingKnows, LinkKnows
    <2>3. PollKnows'
      BY DEF LifeTypes, LifeTypeOK, Counts, PollKnows, RingKnows, NapiEnabled
    <2>4. DeafKnows' /\ LinkKnows'
      BY DEF LifeTypes, LifeTypeOK, DeafKnows, LinkKnows, PollKnows, NapiEnabled,
         ComingUp, OpenSteps
    <2>5. LeakKnows'
      BY <1>a DEF LeakKnows, Counts
    <2>6. XmitKnows'
      BY <1>a DEF Counts, XmitKnows
    <2> QED
      BY <2>1, <2>2, <2>3, <2>4, <2>5, <2>6
  <1>18. CASE AdjustOn /\ pc = "idle"
    <2> USE <1>18 DEF AdjustOn, Bump, ringvars, macvars, pollvars, phyvars, xmitvars
    <2>1. LifeTypes'
      BY LifeConstants DEF LifeTypes, LifeTypeOK, Counts, OpenSteps, CloseSteps, PollKnows
    <2>2. RingKnows'
      BY DEF LifeTypes, LifeTypeOK, Counts, RingKnows, LinkKnows
    <2>3. PollKnows'
      BY DEF LifeTypes, LifeTypeOK, Counts, PollKnows, RingKnows, NapiEnabled
    <2>4. DeafKnows' /\ LinkKnows'
      BY DEF LifeTypes, LifeTypeOK, DeafKnows, LinkKnows, PollKnows, NapiEnabled,
         ComingUp, OpenSteps
    <2>5. LeakKnows'
      BY <1>a DEF LeakKnows, Counts
    <2>6. XmitKnows'
      BY <1>a DEF Counts, XmitKnows
    <2> QED
      BY <2>1, <2>2, <2>3, <2>4, <2>5, <2>6
  <1>19. CASE PollStart
    <2> USE <1>19 DEF PollStart, Bump, ringvars, macvars, pollvars, phyvars, xmitvars
    <2>1. LifeTypes'
      BY LifeConstants DEF LifeTypes, LifeTypeOK, Counts, OpenSteps, CloseSteps, PollKnows
    <2>2. RingKnows'
      BY DEF LifeTypes, LifeTypeOK, Counts, RingKnows, LinkKnows
    <2>3. PollKnows'
      BY LifeConstants DEF LifeTypes, LifeTypeOK, Counts, PollKnows, RingKnows,
         NapiEnabled
    <2>4. DeafKnows' /\ LinkKnows'
      BY DEF LifeTypes, LifeTypeOK, DeafKnows, LinkKnows, PollKnows, NapiEnabled,
         ComingUp, OpenSteps
    <2>5. LeakKnows'
      BY <1>a DEF LeakKnows, Counts
    <2>6. XmitKnows'
      BY <1>a DEF Counts, XmitKnows
    <2> QED
      BY <2>1, <2>2, <2>3, <2>4, <2>5, <2>6
  <1>20. CASE PollFrame
    <2> USE <1>20 DEF PollFrame, Bump, ringvars, macvars, pollvars, phyvars, xmitvars
    <2>1. LifeTypes'
      <3>1. rx_cnt' \in 0 .. Budget
        BY LifeConstants DEF LifeTypes, LifeTypeOK, PollKnows
      <3>2. pollring' \in 0 .. gen' /\ frames' \in BOOLEAN
        BY DEF LifeTypes, LifeTypeOK
      <3> QED
        BY <3>1, <3>2 DEF LifeTypes, LifeTypeOK
    <2>2. RingKnows'
      BY DEF LifeTypes, LifeTypeOK, Counts, RingKnows, LinkKnows
    <2>3. PollKnows'
      BY DEF LifeTypes, LifeTypeOK, Counts, PollKnows, RingKnows, NapiEnabled
    <2>4. DeafKnows' /\ LinkKnows'
      BY DEF LifeTypes, LifeTypeOK, DeafKnows, LinkKnows, PollKnows, NapiEnabled,
         ComingUp, OpenSteps
    <2>5. LeakKnows'
      BY <1>a DEF LeakKnows, Counts
    <2>6. XmitKnows'
      BY <1>a DEF Counts, XmitKnows
    <2> QED
      BY <2>1, <2>2, <2>3, <2>4, <2>5, <2>6
  <1>21. CASE PollNone
    <2> USE <1>21 DEF PollNone, Bump, ringvars, macvars, pollvars, phyvars, xmitvars
    <2>1. LifeTypes'
      BY LifeConstants DEF LifeTypes, LifeTypeOK, Counts, OpenSteps, CloseSteps, PollKnows
    <2>2. RingKnows'
      BY DEF LifeTypes, LifeTypeOK, Counts, RingKnows, LinkKnows
    <2>3. PollKnows'
      BY DEF LifeTypes, LifeTypeOK, Counts, PollKnows, RingKnows, NapiEnabled
    <2>4. DeafKnows' /\ LinkKnows'
      BY DEF LifeTypes, LifeTypeOK, DeafKnows, LinkKnows, PollKnows, NapiEnabled,
         ComingUp, OpenSteps
    <2>5. LeakKnows'
      BY <1>a DEF LeakKnows, Counts
    <2>6. XmitKnows'
      BY <1>a DEF Counts, XmitKnows
    <2> QED
      BY <2>1, <2>2, <2>3, <2>4, <2>5, <2>6
  <1>22. CASE PollEnable
    <2> USE <1>22 DEF PollEnable, Bump, ringvars, macvars, pollvars, phyvars, xmitvars
    <2>1. LifeTypes'
      BY LifeConstants DEF LifeTypes, LifeTypeOK, Counts, OpenSteps, CloseSteps, PollKnows
    <2>2. RingKnows'
      BY DEF LifeTypes, LifeTypeOK, Counts, RingKnows, LinkKnows
    <2>3. PollKnows'
      BY DEF LifeTypes, LifeTypeOK, Counts, PollKnows, RingKnows, NapiEnabled
    <2>4. DeafKnows' /\ LinkKnows'
      BY DEF LifeTypes, LifeTypeOK, DeafKnows, LinkKnows, PollKnows, NapiEnabled,
         ComingUp, OpenSteps
    <2>5. LeakKnows'
      BY <1>a DEF LeakKnows, Counts
    <2>6. XmitKnows'
      BY <1>a DEF Counts, XmitKnows
    <2> QED
      BY <2>1, <2>2, <2>3, <2>4, <2>5, <2>6
  <1>23. CASE PollAllocFail
    <2> USE <1>23 DEF PollAllocFail, Bump, ringvars, macvars, pollvars, phyvars, xmitvars
    <2>1. LifeTypes'
      BY LifeConstants DEF LifeTypes, LifeTypeOK, Counts, OpenSteps, CloseSteps, PollKnows
    <2>2. RingKnows'
      BY DEF LifeTypes, LifeTypeOK, Counts, RingKnows, LinkKnows
    <2>3. PollKnows'
      BY DEF LifeTypes, LifeTypeOK, Counts, PollKnows, RingKnows, NapiEnabled
    <2>4. DeafKnows' /\ LinkKnows'
      BY DEF LifeTypes, LifeTypeOK, DeafKnows, LinkKnows, PollKnows, NapiEnabled,
         ComingUp, OpenSteps
    <2>5. LeakKnows'
      BY <1>a DEF LeakKnows, Counts
    <2>6. XmitKnows'
      BY <1>a DEF Counts, XmitKnows
    <2> QED
      BY <2>1, <2>2, <2>3, <2>4, <2>5, <2>6
  <1>24. CASE PollReturn
    <2> USE <1>24 DEF PollReturn, Bump, ringvars, macvars, pollvars, phyvars, xmitvars
    <2>1. LifeTypes'
      BY LifeConstants DEF LifeTypes, LifeTypeOK, Counts, OpenSteps, CloseSteps, PollKnows
    <2>2. RingKnows'
      BY DEF LifeTypes, LifeTypeOK, Counts, RingKnows, LinkKnows
    <2>3. PollKnows'
      BY DEF LifeTypes, LifeTypeOK, Counts, PollKnows, RingKnows, NapiEnabled
    <2>4. DeafKnows' /\ LinkKnows'
      BY DEF LifeTypes, LifeTypeOK, DeafKnows, LinkKnows, PollKnows, NapiEnabled,
         ComingUp, OpenSteps
    <2>5. LeakKnows'
      BY <1>a DEF LeakKnows, Counts
    <2>6. XmitKnows'
      BY <1>a DEF Counts, XmitKnows
    <2> QED
      BY <2>1, <2>2, <2>3, <2>4, <2>5, <2>6
  <1>25. CASE Xmit
    <2> USE <1>25 DEF Xmit, Bump, ringvars, macvars, pollvars, phyvars, xmitvars
    <2>1. LifeTypes'
      <3>1. xring' \in 0 .. gen /\ gen' = gen /\ live' = live /\ ring' = ring /\ xtorn' = FALSE
        BY DEF LifeTypes, LifeTypeOK
      <3> QED
        BY <3>1 DEF LifeTypes, LifeTypeOK
    <2>2. RingKnows'
      BY DEF LifeTypes, LifeTypeOK, Counts, RingKnows, LinkKnows
    <2>3. PollKnows'
      BY DEF LifeTypes, LifeTypeOK, Counts, PollKnows, RingKnows, NapiEnabled
    <2>4. DeafKnows' /\ LinkKnows'
      BY DEF LifeTypes, LifeTypeOK, DeafKnows, LinkKnows, PollKnows, NapiEnabled,
         ComingUp, OpenSteps
    <2>5. LeakKnows'
      BY <1>a DEF LeakKnows, Counts
    <2>6. XmitKnows'
      BY <1>a DEF Counts, XmitKnows
    <2> QED
      BY <2>1, <2>2, <2>3, <2>4, <2>5, <2>6
  <1>26. CASE RxIrq
    <2> USE <1>26 DEF RxIrq, RxRequested, Bump, ringvars, macvars, pollvars, phyvars, xmitvars
    <2>1. LifeTypes'
      BY LifeConstants, ZenonT(60) DEF LifeTypes, LifeTypeOK, Counts, OpenSteps, CloseSteps, PollKnows
    <2>2. RingKnows'
      BY DEF LifeTypes, LifeTypeOK, Counts, RingKnows, LinkKnows
    <2>3. PollKnows'
      BY DEF LifeTypes, LifeTypeOK, Counts, PollKnows, RingKnows, NapiEnabled
    <2>4. DeafKnows' /\ LinkKnows'
      BY DEF LifeTypes, LifeTypeOK, DeafKnows, LinkKnows, PollKnows, NapiEnabled,
         ComingUp, OpenSteps
    <2>5. LeakKnows'
      BY <1>a DEF LeakKnows, Counts
    <2>6. XmitKnows'
      BY <1>a DEF Counts, XmitKnows
    <2> QED
      BY <2>1, <2>2, <2>3, <2>4, <2>5, <2>6
  <1>27. CASE TxIrqDone
    <2> USE <1>27 DEF TxIrqDone, TxRequested, Bump, ringvars, macvars, pollvars, phyvars, xmitvars
    <2>1. LifeTypes'
      BY LifeConstants DEF LifeTypes, LifeTypeOK, Counts, OpenSteps, CloseSteps, PollKnows
    <2>2. RingKnows'
      BY DEF LifeTypes, LifeTypeOK, Counts, RingKnows, LinkKnows
    <2>3. PollKnows'
      BY DEF LifeTypes, LifeTypeOK, Counts, PollKnows, RingKnows, NapiEnabled
    <2>4. DeafKnows' /\ LinkKnows'
      BY DEF LifeTypes, LifeTypeOK, DeafKnows, LinkKnows, PollKnows, NapiEnabled,
         ComingUp, OpenSteps
    <2>5. LeakKnows'
      BY <1>a DEF LeakKnows, Counts
    <2>6. XmitKnows'
      BY <1>a DEF Counts, XmitKnows
    <2> QED
      BY <2>1, <2>2, <2>3, <2>4, <2>5, <2>6
  <1>28. CASE DmaStore
    <2> USE <1>28 DEF DmaStore, Bump, ringvars, macvars, pollvars, phyvars, xmitvars
    <2>1. LifeTypes'
      BY LifeConstants DEF LifeTypes, LifeTypeOK, Counts, OpenSteps, CloseSteps, PollKnows
    <2>2. RingKnows'
      BY DEF LifeTypes, LifeTypeOK, Counts, RingKnows, LinkKnows
    <2>3. PollKnows'
      BY DEF LifeTypes, LifeTypeOK, Counts, PollKnows, RingKnows, NapiEnabled
    <2>4. DeafKnows' /\ LinkKnows'
      BY DEF LifeTypes, LifeTypeOK, DeafKnows, LinkKnows, PollKnows, NapiEnabled,
         ComingUp, OpenSteps
    <2>5. LeakKnows'
      BY <1>a DEF LeakKnows, Counts
    <2>6. XmitKnows'
      BY <1>a DEF Counts, XmitKnows
    <2> QED
      BY <2>1, <2>2, <2>3, <2>4, <2>5, <2>6
  <1>29. ASSUME NEW err \in {"RXBERR", "TXBERR"}, DmaBusError(err) PROVE LifeInv'
    <2> USE <1>29 DEF DmaBusError, Bump, ringvars, macvars, pollvars, phyvars, xmitvars
    <2>1. LifeTypes'
      BY LifeConstants DEF LifeTypes, LifeTypeOK, Counts, OpenSteps, CloseSteps, PollKnows
    <2>2. RingKnows'
      BY DEF LifeTypes, LifeTypeOK, Counts, RingKnows, LinkKnows
    <2>3. PollKnows'
      BY DEF LifeTypes, LifeTypeOK, Counts, PollKnows, RingKnows, NapiEnabled
    <2>4. DeafKnows' /\ LinkKnows'
      BY DEF LifeTypes, LifeTypeOK, DeafKnows, LinkKnows, PollKnows, NapiEnabled,
         ComingUp, OpenSteps
    <2>5. LeakKnows'
      BY <1>a DEF LeakKnows, Counts
    <2>6. XmitKnows'
      BY <1>a DEF Counts, XmitKnows
    <2> QED
      BY <2>1, <2>2, <2>3, <2>4, <2>5, <2>6
  <1>30. CASE Open /\ pc = "idle"
    <2>0. PICK ok \in BOOLEAN :
            /\ reset_mac(FALSE, ok) /\ count' \in Counts
            /\ count'.nomem = IF ok THEN count.nomem ELSE count.nomem + 1
            /\ count'.noirq = count.noirq
      <3>1. CASE reset_mac(FALSE, TRUE) /\ count' = [count EXCEPT !.opens = @ + 1]
        <4>1. count' \in Counts /\ count'.nomem = count.nomem /\ count'.noirq = count.noirq
          BY <1>a, <3>1 DEF Counts
        <4> QED
          BY <3>1, <4>1
      <3>2. CASE reset_mac(FALSE, FALSE) /\ count' = [count EXCEPT !.nomem = @ + 1, !.opens = @ + 1]
        <4>1. count' \in Counts /\ count'.nomem = count.nomem + 1 /\ count'.noirq = count.noirq
          <5>1. count.nomem + 1 \in Nat /\ count.opens + 1 \in Nat
            BY <1>a DEF Counts
          <5> QED
            BY <1>a, <3>2, <5>1 DEF Counts
        <4> QED
          BY <3>2, <4>1
      <3> QED
        BY <1>30, <3>1, <3>2 DEF Open, ResetOutcome, Bump
    <2>1. early' = FALSE /\ life = "down" /\ life' = "irqtx" /\ UNCHANGED <<pollvars, phyvars, xmitvars, torn>>
      BY <1>30 DEF Open
    <2>2. life \notin NapiEnabled /\ life' \notin NapiEnabled \cup {"down", "c_phy", "c_free"}
      BY <1>30 DEF Open, OpenSteps, CloseSteps, NapiEnabled
    <2>r. /\ gen' = gen + 1 /\ ring' = gen' /\ on' = TRUE /\ enrx' = TRUE
          /\ ok => ring' \in live' /\ rxdlsa' = ring'
          /\ badfree' = (badfree \/ (FALSE /\ ring \notin live))
      BY <2>0, ResetFacts
    <2>3. LifeTypes'
      <3>1. gen \in Nat /\ pollring \in 0 .. gen /\ xring \in 0 .. gen
        BY DEF LifeTypes, LifeTypeOK
      <3>2. pollring' \in 0 .. gen' /\ xring' \in 0 .. gen'
        BY <2>1, <2>r, <3>1 DEF pollvars, xmitvars
      <3> QED
        BY <2>0, <2>1, <3>2, ResetFacts DEF LifeTypes, LifeTypeOK, OpenSteps, pollvars,
           phyvars, xmitvars
    <2>4. RingKnows'
      <3>1. count'.nomem = 0 => ok /\ count.nomem = 0
        BY <1>a, <2>0 DEF Counts
      <3> QED
        BY <2>1, <2>2, <2>r, <3>1 DEF RingKnows
    <2>5. PollKnows'
      BY <1>a, <1>30, <2>0, <2>1, <2>2, ResetFacts DEF PollKnows, pollvars, NapiEnabled,
         Counts, LifeTypes, LifeTypeOK
    <2>6. DeafKnows' /\ LinkKnows'
      BY <2>0, <2>1, ResetFacts DEF DeafKnows, LinkKnows, phyvars
    <2>7. LeakKnows'
      BY <1>a, <2>0, <2>1, <2>2, ResetFacts DEF LeakKnows
    <2>8. XmitKnows'
      BY <2>1 DEF XmitKnows, xmitvars
    <2> QED
      BY <2>3, <2>4, <2>5, <2>6, <2>7, <2>8
  <1>31. CASE RxIrqBusError
    <2>0. PICK ok \in BOOLEAN :
            /\ reset_mac(TRUE, ok) /\ count' \in Counts
            /\ count'.nomem = IF ok THEN count.nomem ELSE count.nomem + 1
            /\ count'.noirq = count.noirq
      <3>1. CASE reset_mac(TRUE, TRUE) /\ count' = count
        <4>1. count' \in Counts /\ count'.nomem = count.nomem /\ count'.noirq = count.noirq
          BY <1>a, <3>1 DEF Counts
        <4> QED
          BY <3>1, <4>1
      <3>2. CASE reset_mac(TRUE, FALSE) /\ count' = [count EXCEPT !.nomem = @ + 1]
        <4>1. count' \in Counts /\ count'.nomem = count.nomem + 1 /\ count'.noirq = count.noirq
          BY <1>a, <3>2 DEF Counts
        <4> QED
          BY <3>2, <4>1
      <3> QED
        BY <1>31, <3>1, <3>2 DEF RxIrqBusError, IrqReset, Bump
    <2>1. early' = FALSE /\ enrx /\ UNCHANGED <<life, pollvars, phyvars, xring, torn>>
          /\ xtorn' = (xring # 0)
      BY <1>31 DEF RxIrqBusError, IrqReset
    <2>2. life \notin {"down", "c_phy", "c_free"}
      BY <1>31 DEF RxIrqBusError, IrqReset, RxRequested, OpenSteps, CloseSteps
    <2>r. /\ gen' = gen + 1 /\ ring' = gen' /\ on' = TRUE /\ enrx' = TRUE
          /\ ok => ring' \in live' /\ rxdlsa' = ring'
          /\ badfree' = (badfree \/ (TRUE /\ ring \notin live))
      BY <2>0, ResetFacts
    <2>3. LifeTypes'
      <3>1. gen \in Nat /\ pollring \in 0 .. gen /\ xring \in 0 .. gen
        BY DEF LifeTypes, LifeTypeOK
      <3>2. pollring' \in 0 .. gen' /\ xring' \in 0 .. gen'
        BY <2>1, <2>r, <3>1 DEF pollvars
      <3> QED
        BY <2>0, <2>1, <3>2, ResetFacts, ZenonT(60) DEF LifeTypes, LifeTypeOK, OpenSteps, pollvars,
           phyvars
    <2>4. RingKnows'
      <3>1. count'.nomem = 0 => ok /\ count.nomem = 0
        BY <1>a, <2>0 DEF Counts
      <3> QED
        BY <2>1, <2>2, <2>r, <3>1 DEF RingKnows
    <2>5. PollKnows'
      BY <1>a, <1>31, <2>0, <2>1, <2>2, ResetFacts DEF PollKnows, pollvars, NapiEnabled,
         Counts, LifeTypes, LifeTypeOK
    <2>6. DeafKnows' /\ LinkKnows'
      BY <2>0, <2>1, ResetFacts DEF DeafKnows, LinkKnows, phyvars
    <2>7. LeakKnows'
      BY <1>a, <2>0, <2>1, <2>2, ResetFacts DEF LeakKnows
    <2>8. XmitKnows'
      BY <1>a, <2>0, <2>1 DEF XmitKnows, Counts
    <2> QED
      BY <2>3, <2>4, <2>5, <2>6, <2>7, <2>8
  <1>32. CASE TxIrqBusError
    <2>0. PICK ok \in BOOLEAN :
            /\ reset_mac(TRUE, ok) /\ count' \in Counts
            /\ count'.nomem = IF ok THEN count.nomem ELSE count.nomem + 1
            /\ count'.noirq = count.noirq
      <3>1. CASE reset_mac(TRUE, TRUE) /\ count' = count
        <4>1. count' \in Counts /\ count'.nomem = count.nomem /\ count'.noirq = count.noirq
          BY <1>a, <3>1 DEF Counts
        <4> QED
          BY <3>1, <4>1
      <3>2. CASE reset_mac(TRUE, FALSE) /\ count' = [count EXCEPT !.nomem = @ + 1]
        <4>1. count' \in Counts /\ count'.nomem = count.nomem + 1 /\ count'.noirq = count.noirq
          BY <1>a, <3>2 DEF Counts
        <4> QED
          BY <3>2, <4>1
      <3> QED
        BY <1>32, <3>1, <3>2 DEF TxIrqBusError, IrqReset, Bump
    <2>1. early' = FALSE /\ torn' = (torn \/ napi = "queued" \/ pc # "idle")
          /\ UNCHANGED <<life, pollvars, phyvars, xring>>
          /\ xtorn' = (xring # 0)
      BY <1>32 DEF TxIrqBusError, IrqReset
    <2>2. life \notin {"down", "c_phy", "c_free"}
      BY <1>32 DEF TxIrqBusError, IrqReset, TxRequested, OpenSteps, CloseSteps
    <2>r. /\ gen' = gen + 1 /\ ring' = gen' /\ on' = TRUE /\ enrx' = TRUE
          /\ ok => ring' \in live' /\ rxdlsa' = ring'
          /\ badfree' = (badfree \/ (TRUE /\ ring \notin live))
      BY <2>0, ResetFacts
    <2>3. LifeTypes'
      <3>1. gen \in Nat /\ pollring \in 0 .. gen /\ xring \in 0 .. gen
        BY DEF LifeTypes, LifeTypeOK
      <3>2. pollring' \in 0 .. gen' /\ xring' \in 0 .. gen'
        BY <2>1, <2>r, <3>1 DEF pollvars
      <3> QED
        BY <2>0, <2>1, <3>2, ResetFacts, ZenonT(60) DEF LifeTypes, LifeTypeOK, OpenSteps, pollvars,
           phyvars
    <2>4. RingKnows'
      <3>1. count'.nomem = 0 => ok /\ count.nomem = 0
        BY <1>a, <2>0 DEF Counts
      <3> QED
        BY <2>1, <2>2, <2>r, <3>1 DEF RingKnows
    <2>5. PollKnows'
      BY <1>a, <1>32, <2>0, <2>1, <2>2, ResetFacts DEF PollKnows, pollvars, NapiEnabled,
         Counts, LifeTypes, LifeTypeOK
    <2>6. DeafKnows' /\ LinkKnows'
      BY <2>0, <2>1, ResetFacts DEF DeafKnows, LinkKnows, phyvars
    <2>7. LeakKnows'
      BY <1>a, <2>0, <2>1, <2>2, ResetFacts DEF LeakKnows
    <2>8. XmitKnows'
      BY <1>a, <2>0, <2>1 DEF XmitKnows, Counts
    <2> QED
      BY <2>3, <2>4, <2>5, <2>6, <2>7, <2>8
  <1>33. CASE TxIrqDefer
    <2> USE <1>33 DEF TxIrqDefer, TxRequested, Bump, ringvars, macvars, pollvars, phyvars, xmitvars
    <2>1. LifeTypes'
      BY LifeConstants DEF LifeTypes, LifeTypeOK, Counts, OpenSteps, CloseSteps, PollKnows
    <2>2. RingKnows'
      BY DEF LifeTypes, LifeTypeOK, Counts, RingKnows, LinkKnows
    <2>3. PollKnows'
      BY DEF LifeTypes, LifeTypeOK, Counts, PollKnows, RingKnows, NapiEnabled
    <2>4. DeafKnows' /\ LinkKnows'
      BY DEF LifeTypes, LifeTypeOK, DeafKnows, LinkKnows, PollKnows, NapiEnabled,
         ComingUp, OpenSteps
    <2>5. LeakKnows'
      BY <1>a DEF LeakKnows, Counts
    <2>6. XmitKnows'
      BY <1>a DEF Counts, XmitKnows
    <2> QED
      BY <2>1, <2>2, <2>3, <2>4, <2>5, <2>6
  <1>34. CASE DmaDefer
    <2> USE <1>34 DEF DmaDefer, Bump, ringvars, macvars, pollvars, phyvars, xmitvars
    <2>1. LifeTypes'
      BY LifeConstants DEF LifeTypes, LifeTypeOK, Counts, OpenSteps, CloseSteps, PollKnows
    <2>2. RingKnows'
      BY DEF LifeTypes, LifeTypeOK, Counts, RingKnows, LinkKnows
    <2>3. PollKnows'
      BY DEF LifeTypes, LifeTypeOK, Counts, PollKnows, RingKnows, NapiEnabled
    <2>4. DeafKnows' /\ LinkKnows'
      BY DEF LifeTypes, LifeTypeOK, DeafKnows, LinkKnows, PollKnows, NapiEnabled,
         ComingUp, OpenSteps
    <2>5. LeakKnows'
      BY <1>a DEF LeakKnows, Counts
    <2>6. XmitKnows'
      BY <1>a DEF Counts, XmitKnows
    <2> QED
      BY <2>1, <2>2, <2>3, <2>4, <2>5, <2>6
  <1>35. CASE UNCHANGED vars
    BY <1>35 DEF vars, ringvars, macvars, pollvars, phyvars, xmitvars, LifeTypes,
       LifeTypeOK, RingKnows, PollKnows, XmitKnows,
       DeafKnows, LinkKnows, LeakKnows
  <1> QED
    BY <1>1, <1>2, <1>3, <1>4, <1>5, <1>6, <1>7, <1>8, <1>9, <1>10, <1>11, <1>12, <1>13,
       <1>14, <1>15, <1>16, <1>17, <1>18, <1>19, <1>20, <1>21, <1>22, <1>23, <1>24,
       <1>25, <1>26, <1>27, <1>28, <1>29, <1>30, <1>31, <1>32, <1>33, <1>34, <1>35
       DEF LifeNext, Process, Softirq, OpenNext, CloseNext, MacNext, IrqNext, PollNext, PhyNext

\* The invariant holds in every reachable state.
THEOREM LifeInvariant == LifeSpec => []LifeInv
  <1> QED
    BY LifeInitInv, LifeStepInv, PTL DEF LifeSpec

\* Neither the MAC, nor the poll, nor start_xmit works on a freed ring, through every
\* open, close, reset and link change, but for the exceptions OnLiveRing names.
THEOREM LifeOnLiveRing == LifeSpec => []OnLiveRing
  <1>1. LifeInv => OnLiveRing
    BY DEF LifeInv, LifeTypes, Counts, RingKnows, PollKnows, XmitKnows, OnLiveRing,
       DmaOnLiveRing, PollOnLiveRing, XmitOnLiveRing
  <1> QED
    BY <1>1, LifeInvariant, PTL

\* No ring is freed twice while memory lasts, and each failed request_irq of
\* nuc970_ether_open leaks one ring at most; nothing else leaks.
THEOREM LifeRingsFreedOnce == LifeSpec => []RingsFreedOnce
  <1>1. LifeInv => RingsFreedOnce
    BY DEF LifeInv, LifeTypes, Counts, RingKnows, LeakKnows, RingsFreedOnce, FreedOnce,
       LeakOnlyByFailedOpen
  <1> QED
    BY <1>1, LifeInvariant, PTL

\* An interface that is up has its MAC on when there is a link, and its RX
\* interrupts masked only under a poll that will unmask them (or by the
\* interrupt that came too early in nuc970_ether_open).
THEOREM LifeHearsWhenUp == LifeSpec => []HearsWhenUp
  <1>1. LifeInv => HearsWhenUp
    BY DEF LifeInv, PollKnows, NapiEnabled, DeafKnows, LinkKnows, ComingUp, HearsWhenUp,
       DeafOnlyFromOpen, OnWithLink
  <1> QED
    BY <1>1, LifeInvariant, PTL
=============================================================================

---------------------------- MODULE EtherProofs -----------------------------
(***************************************************************************)
(* Proofs about the two halves of the Ethernet driver.                     *)
(*                                                                         *)
(* EtherRx, for every ring size, NAPI weight and bound: the type           *)
(* invariant, RxAlive, BufferOwnership, ResetOutsidePoll, and that the     *)
(* receive path implements RxFifo.                                         *)
(*                                                                         *)
(* EtherTx, for every ring size and number of buffers: the type invariant, *)
(* TxInOrder and NeverBusy.  The two ends of the ring are described by     *)
(* counts.  The DMA's end: of the buffers given to it, Len(onwire) are     *)
(* sent and InFlight are not.  The interrupt's end: of the buffers entered *)
(* in tx_skb, Len(freed_tx) are freed and Kept are not.                    *)
(***************************************************************************)
EXTENDS EtherRx, EtherTx, SequenceTheorems, TLAPS

-----------------------------------------------------------------------------
\* The receive path.

\* Number of descriptors the DMA filled and the poll has not given back,
\* computed from the two indices and the ownership bit at cur_rx.
Filled == IF ~ Held(cur_rx) THEN 0
          ELSE IF hw_rx > cur_rx THEN hw_rx - cur_rx ELSE hw_rx + N - cur_rx

\* The descriptors the DMA gave to the CPU are those from cur_rx up to hw_rx.
Window ==
    /\ \A i \in Slots : Held(i) <=> Distance(i) < Filled
    /\ ~ Held(cur_rx) => hw_rx = cur_rx

\* What the poll knows at each of its steps, and that a scheduled poll and
\* unmasked RX interrupts exclude each other.
PollKnows ==
    /\ sched => ~ enrx
    /\ pc \in {"check", "frame", "refill", "giveback", "complete"} => sched
    /\ pc = "enable" => ~ enrx /\ ~ sched
    /\ pc \in {"frame", "refill", "giveback"} => Held(cur_rx)
    /\ pc \in {"frame", "refill"} => rx_cnt < Budget
    /\ pc = "complete" => \A i \in Slots : Held(i) => "RXGD" \in mista

\* Buffers are numbered in order of allocation.
BuffersNumbered ==
    /\ \A i \in Slots : rx_skb[i] <= nskb
    /\ \A b \in given \cup freed : b <= nskb

RxInv ==
    /\ RxTypeOK
    /\ Window
    /\ PollKnows
    /\ RxAlive
    /\ BuffersNumbered
    /\ BufferOwnership

-----------------------------------------------------------------------------
\* The initial ring satisfies the invariant.
LEMMA RxInitInv == RxInit => RxInv
  <1> SUFFICES ASSUME RxInit PROVE RxInv
    OBVIOUS
  <1> USE RxConstants DEF RxInit, Slots, Held, Fresh
  <1>1. RxTypeOK
    <2>1. /\ rdesc \in [Slots -> Slot] /\ rx_skb \in [Slots -> Nat]
          /\ cur_rx \in Slots /\ hw_rx \in Slots /\ rx_cnt \in 0 .. Budget
      BY DEF Slot
    <2>2. up \in Seq(Nat) /\ nskb \in Nat /\ stored \in Nat
          /\ dropped \in Nat /\ buserrs \in Nat
      OBVIOUS
    <2> QED
      BY <2>1, <2>2 DEF RxTypeOK, PollSteps
  <1>2. Window
    BY DEF Window, Filled, Distance
  <1>3. PollKnows
    BY DEF PollKnows
  <1>4. RxAlive /\ BuffersNumbered /\ BufferOwnership
    BY DEF RxAlive, BuffersNumbered, BufferOwnership
  <1> QED
    BY <1>1, <1>2, <1>3, <1>4 DEF RxInv

\* Every step of DMA, interrupt handler and poll preserves the invariant.
LEMMA RxStepInv == RxInv /\ [RxNext]_vars => RxInv'
  <1> SUFFICES ASSUME RxInv, [RxNext]_vars PROVE RxInv'
    OBVIOUS
  <1> USE RxConstants
  <1> USE DEF RxInv
  <1>1. CASE PollStart
    <2> USE <1>1 DEF PollStart
    <2> USE DEF Slots, Held, Advance, Fresh, ringvars, hwvars, logvars
    <2>1. RxTypeOK'
      BY SMTT(60) DEF RxTypeOK, Slot, PollSteps, PollKnows
    <2>2. Window'
      BY DEF RxTypeOK, Slot, Window, Filled, Distance, PollKnows
    <2>3. PollKnows'
      BY DEF RxTypeOK, Slot, PollKnows, Window, Filled, Distance, RxAlive
    <2>4. RxAlive'
      BY DEF RxTypeOK, Slot, RxAlive, PollKnows
    <2>5. BuffersNumbered'
      BY DEF RxTypeOK, Slot, BuffersNumbered
    <2>6. BufferOwnership'
      BY DEF RxTypeOK, Slot, BufferOwnership, BuffersNumbered, PollKnows
    <2> QED
      BY <2>1, <2>2, <2>3, <2>4, <2>5, <2>6
  <1>2. CASE PollCheck
    <2> USE <1>2 DEF PollCheck
    <2> USE DEF Slots, Held, Advance, Fresh, ringvars, hwvars, logvars
    <2>1. RxTypeOK'
      BY DEF RxTypeOK, Slot, PollSteps, PollKnows
    <2>2. Window'
      BY DEF RxTypeOK, Slot, Window, Filled, Distance, PollKnows
    <2>3. PollKnows'
      BY SMTT(60) DEF RxTypeOK, Slot, PollKnows, Window, Filled, Distance, RxAlive
    <2>4. RxAlive'
      BY DEF RxTypeOK, Slot, RxAlive, PollKnows
    <2>5. BuffersNumbered'
      BY DEF RxTypeOK, Slot, BuffersNumbered
    <2>6. BufferOwnership'
      BY DEF RxTypeOK, Slot, BufferOwnership, BuffersNumbered, PollKnows
    <2> QED
      BY <2>1, <2>2, <2>3, <2>4, <2>5, <2>6
  <1>3. CASE PollAllocFail
    <2> USE <1>3 DEF PollAllocFail
    <2> USE DEF Slots, Held, Advance, Fresh, ringvars, hwvars, logvars
    <2>1. RxTypeOK'
      <3>1. dropped' \in Nat
        BY DEF RxTypeOK
      <3> QED
        BY <3>1 DEF RxTypeOK, PollSteps
    <2>2. Window'
      BY DEF RxTypeOK, Slot, Window, Filled, Distance, PollKnows
    <2>3. PollKnows'
      BY DEF RxTypeOK, Slot, PollKnows, Window, Filled, Distance, RxAlive
    <2>4. RxAlive'
      BY DEF RxTypeOK, Slot, RxAlive, PollKnows
    <2>5. BuffersNumbered'
      BY DEF RxTypeOK, Slot, BuffersNumbered
    <2>6. BufferOwnership'
      BY DEF RxTypeOK, Slot, BufferOwnership, BuffersNumbered, PollKnows
    <2> QED
      BY <2>1, <2>2, <2>3, <2>4, <2>5, <2>6
  <1>4. CASE PollDeliver
    <2> USE <1>4 DEF PollDeliver
    <2> USE DEF Slots, Held, Advance, Fresh, ringvars, hwvars, logvars
    <2>1. RxTypeOK'
      <3>1. rdesc[cur_rx].frame \in Nat /\ rx_skb[cur_rx] \in Nat
        BY DEF RxTypeOK, Slot
      <3>2. up' \in Seq(Nat)
        BY <3>1 DEF RxTypeOK
      <3>3. given' \subseteq Nat
        BY <3>1 DEF RxTypeOK
      <3> QED
        BY <3>2, <3>3 DEF RxTypeOK, PollSteps
    <2>2. Window'
      BY DEF RxTypeOK, Slot, Window, Filled, Distance, PollKnows
    <2>3. PollKnows'
      BY DEF RxTypeOK, Slot, PollKnows, Window, Filled, Distance, RxAlive
    <2>4. RxAlive'
      BY DEF RxTypeOK, Slot, RxAlive, PollKnows
    <2>5. BuffersNumbered'
      BY DEF RxTypeOK, Slot, BuffersNumbered
    <2>6. BufferOwnership'
      <3>1. cur_rx \in Slots /\ Held(cur_rx) /\ rx_skb[cur_rx] \notin freed
        BY DEF RxTypeOK, PollKnows, BufferOwnership
      <3>2. given' \cap freed' = {}
        BY <3>1 DEF BufferOwnership
      <3>3. ASSUME NEW i \in Slots PROVE
              /\ (rx_skb[i] \notin freed)'
              /\ (rx_skb[i] \in given => pc = "refill" /\ i = cur_rx /\ Held(i))'
              /\ \A j \in Slots : (rx_skb[i] = rx_skb[j] => i = j)'
        BY <3>1, <3>3 DEF BufferOwnership
      <3> QED
        BY <3>2, <3>3 DEF BufferOwnership
    <2> QED
      BY <2>1, <2>2, <2>3, <2>4, <2>5, <2>6
  <1>5. CASE PollRefill
    <2> USE <1>5 DEF PollRefill
    <2> USE DEF Slots, Held, Advance, Fresh, ringvars, hwvars, logvars
    <2>1. RxTypeOK'
      <3>1. nskb' \in Nat /\ rx_skb' \in [Slots -> Nat] /\ rx_cnt' \in 0 .. Budget
        BY DEF RxTypeOK, PollKnows
      <3> QED
        BY <3>1 DEF RxTypeOK, PollSteps
    <2>2. Window'
      BY DEF RxTypeOK, Slot, Window, Filled, Distance, PollKnows
    <2>3. PollKnows'
      BY DEF RxTypeOK, Slot, PollKnows, Window, Filled, Distance, RxAlive
    <2>4. RxAlive'
      BY DEF RxTypeOK, Slot, RxAlive, PollKnows
    <2>5. BuffersNumbered'
      BY DEF RxTypeOK, Slot, BuffersNumbered
    <2>6. BufferOwnership'
      BY SMTT(60) DEF RxTypeOK, Slot, BufferOwnership, BuffersNumbered, PollKnows
    <2> QED
      BY <2>1, <2>2, <2>3, <2>4, <2>5, <2>6
  <1>6. CASE PollError
    <2> USE <1>6 DEF PollError
    <2> USE DEF Slots, Held, Advance, Fresh, ringvars, hwvars, logvars
    <2>1. RxTypeOK'
      BY DEF RxTypeOK, Slot, PollSteps, PollKnows
    <2>2. Window'
      BY DEF RxTypeOK, Slot, Window, Filled, Distance, PollKnows
    <2>3. PollKnows'
      BY DEF RxTypeOK, Slot, PollKnows, Window, Filled, Distance, RxAlive
    <2>4. RxAlive'
      BY DEF RxTypeOK, Slot, RxAlive, PollKnows
    <2>5. BuffersNumbered'
      BY DEF RxTypeOK, Slot, BuffersNumbered
    <2>6. BufferOwnership'
      BY DEF RxTypeOK, Slot, BufferOwnership, BuffersNumbered, PollKnows
    <2> QED
      BY <2>1, <2>2, <2>3, <2>4, <2>5, <2>6
  <1>7. CASE PollGiveBack
    <2> USE <1>7 DEF PollGiveBack
    <2> USE DEF Slots, Held, Advance, Fresh, ringvars, hwvars, logvars
    <2>1. RxTypeOK'
      BY SMTT(60) DEF RxTypeOK, Slot, PollSteps, PollKnows
    <2>2. Window'
      <3>1. Held(cur_rx) /\ cur_rx \in Slots /\ hw_rx \in Slots
        BY DEF RxTypeOK, PollKnows
      <3>2. cur_rx' \in Slots /\ hw_rx' = hw_rx
        BY <3>1
      <3>3. \A i \in Slots : Held(i)' <=> Held(i) /\ i # cur_rx
        BY <3>1 DEF RxTypeOK, Slot
      <3>4. \A i \in Slots : Held(i) <=> Distance(i) < Filled
        BY DEF Window
      <3>5. \A i \in Slots \ {cur_rx} : Distance(i)' = Distance(i) - 1
        BY <3>1 DEF Distance
      <3>6. (\A i \in {cur_rx} : Distance(i)' = N - 1) /\ Filled \in 1 .. N
        BY <3>1 DEF Distance, Filled
      <3>7. Filled' = Filled - 1
        BY <3>1, <3>2, <3>3, <3>4 DEF Filled, Distance
      <3>8. \A i \in Slots : Held(i)' <=> Distance(i)' < Filled'
        BY <3>1, <3>3, <3>4, <3>5, <3>6, <3>7 DEF Distance
      <3>9. ~ Held(cur_rx)' => hw_rx' = cur_rx'
        BY <3>1, <3>2, <3>3, <3>4 DEF Filled, Distance
      <3> QED
        BY <3>8, <3>9 DEF Window
    <2>3. PollKnows'
      BY DEF RxTypeOK, Slot, PollKnows, Window, Filled, Distance, RxAlive
    <2>4. RxAlive'
      BY DEF RxTypeOK, Slot, RxAlive, PollKnows
    <2>5. BuffersNumbered'
      BY DEF RxTypeOK, Slot, BuffersNumbered
    <2>6. BufferOwnership'
      BY DEF RxTypeOK, Slot, BufferOwnership, BuffersNumbered, PollKnows
    <2> QED
      BY <2>1, <2>2, <2>3, <2>4, <2>5, <2>6
  <1>8. CASE PollComplete
    <2> USE <1>8 DEF PollComplete
    <2> USE DEF Slots, Held, Advance, Fresh, ringvars, hwvars, logvars
    <2>1. RxTypeOK'
      BY DEF RxTypeOK, Slot, PollSteps, PollKnows
    <2>2. Window'
      BY DEF RxTypeOK, Slot, Window, Filled, Distance, PollKnows
    <2>3. PollKnows'
      BY DEF RxTypeOK, Slot, PollKnows, Window, Filled, Distance, RxAlive
    <2>4. RxAlive'
      BY DEF RxTypeOK, Slot, RxAlive, PollKnows
    <2>5. BuffersNumbered'
      BY DEF RxTypeOK, Slot, BuffersNumbered
    <2>6. BufferOwnership'
      BY DEF RxTypeOK, Slot, BufferOwnership, BuffersNumbered, PollKnows
    <2> QED
      BY <2>1, <2>2, <2>3, <2>4, <2>5, <2>6
  <1>9. CASE PollEnable
    <2> USE <1>9 DEF PollEnable
    <2> USE DEF Slots, Held, Advance, Fresh, ringvars, hwvars, logvars
    <2>1. RxTypeOK'
      BY DEF RxTypeOK, Slot, PollSteps, PollKnows
    <2>2. Window'
      BY DEF RxTypeOK, Slot, Window, Filled, Distance, PollKnows
    <2>3. PollKnows'
      BY DEF RxTypeOK, Slot, PollKnows, Window, Filled, Distance, RxAlive
    <2>4. RxAlive'
      BY DEF RxTypeOK, Slot, RxAlive, PollKnows
    <2>5. BuffersNumbered'
      BY DEF RxTypeOK, Slot, BuffersNumbered
    <2>6. BufferOwnership'
      BY DEF RxTypeOK, Slot, BufferOwnership, BuffersNumbered, PollKnows
    <2> QED
      BY <2>1, <2>2, <2>3, <2>4, <2>5, <2>6
  <1>10. CASE PollTrigger
    <2> USE <1>10 DEF PollTrigger
    <2> USE DEF Slots, Held, Advance, Fresh, ringvars, hwvars, logvars
    <2>1. RxTypeOK'
      BY DEF RxTypeOK, Slot, PollSteps, PollKnows
    <2>2. Window'
      BY DEF RxTypeOK, Slot, Window, Filled, Distance, PollKnows
    <2>3. PollKnows'
      BY DEF RxTypeOK, Slot, PollKnows, Window, Filled, Distance, RxAlive
    <2>4. RxAlive'
      BY DEF RxTypeOK, Slot, RxAlive, PollKnows
    <2>5. BuffersNumbered'
      BY DEF RxTypeOK, Slot, BuffersNumbered
    <2>6. BufferOwnership'
      BY DEF RxTypeOK, Slot, BufferOwnership, BuffersNumbered, PollKnows
    <2> QED
      BY <2>1, <2>2, <2>3, <2>4, <2>5, <2>6
  <1>11. CASE RxIrqBusError
    <2> USE <1>11 DEF RxIrqBusError, reset_mac, RxIrqRaised
    <2> USE DEF Slots, Held, Advance, Fresh, ringvars, hwvars, logvars
    <2>1. RxTypeOK'
      <3>1. /\ nskb' \in Nat /\ rx_skb' \in [Slots -> Nat]
            /\ cur_rx' \in Slots /\ hw_rx' \in Slots
        BY DEF RxTypeOK
      <3>2. rdesc' \in [Slots -> Slot]
        BY DEF Slot
      <3>3. freed' \subseteq Nat /\ discarded' \subseteq Nat
        BY DEF RxTypeOK, Slot
      <3> QED
        BY <3>1, <3>2, <3>3 DEF RxTypeOK, PollSteps
    <2>2. Window'
      BY DEF RxTypeOK, Slot, Window, Filled, Distance, PollKnows
    <2>3. PollKnows'
      BY DEF RxTypeOK, Slot, PollKnows, Window, Filled, Distance, RxAlive
    <2>4. RxAlive'
      BY DEF RxTypeOK, Slot, RxAlive, PollKnows
    <2>5. BuffersNumbered'
      BY DEF RxTypeOK, Slot, BuffersNumbered
    <2>6. BufferOwnership'
      <3>1. \A i \in Slots : rx_skb[i] \notin given
        BY DEF BufferOwnership, PollKnows
      <3>2. given' \cap freed' = {}
        BY <3>1 DEF BufferOwnership
      <3>3. \A i \in Slots : rx_skb'[i] > nskb
        BY DEF RxTypeOK
      <3>4. \A b \in given' \cup freed' : b <= nskb
        BY DEF BuffersNumbered
      <3>5. \A i \in Slots : rx_skb'[i] \notin given' \cup freed'
        BY <3>3, <3>4 DEF RxTypeOK
      <3>6. \A i, j \in Slots : rx_skb'[i] = rx_skb'[j] => i = j
        BY DEF RxTypeOK
      <3> QED
        BY <3>2, <3>5, <3>6 DEF BufferOwnership
    <2> QED
      BY <2>1, <2>2, <2>3, <2>4, <2>5, <2>6
  <1>12. CASE RxIrq
    <2> USE <1>12 DEF RxIrq, RxIrqRaised
    <2> USE DEF Slots, Held, Advance, Fresh, ringvars, hwvars, logvars
    <2>1. RxTypeOK'
      BY DEF RxTypeOK, Slot, PollSteps, PollKnows
    <2>2. Window'
      BY DEF RxTypeOK, Slot, Window, Filled, Distance, PollKnows
    <2>3. PollKnows'
      BY DEF RxTypeOK, Slot, PollKnows, Window, Filled, Distance, RxAlive
    <2>4. RxAlive'
      BY ZenonT(60) DEF RxTypeOK, Slot, RxAlive, PollKnows
    <2>5. BuffersNumbered'
      BY DEF RxTypeOK, Slot, BuffersNumbered
    <2>6. BufferOwnership'
      BY DEF RxTypeOK, Slot, BufferOwnership, BuffersNumbered, PollKnows
    <2> QED
      BY <2>1, <2>2, <2>3, <2>4, <2>5, <2>6
  <1>13. CASE DmaNoDescriptor
    <2> USE <1>13 DEF DmaNoDescriptor
    <2> USE DEF Slots, Held, Advance, Fresh, ringvars, hwvars, logvars
    <2>1. RxTypeOK'
      BY DEF RxTypeOK, Slot, PollSteps, PollKnows
    <2>2. Window'
      BY DEF RxTypeOK, Slot, Window, Filled, Distance, PollKnows
    <2>3. PollKnows'
      BY DEF RxTypeOK, Slot, PollKnows, Window, Filled, Distance, RxAlive
    <2>4. RxAlive'
      BY DEF RxTypeOK, Slot, RxAlive, PollKnows
    <2>5. BuffersNumbered'
      BY DEF RxTypeOK, Slot, BuffersNumbered
    <2>6. BufferOwnership'
      BY DEF RxTypeOK, Slot, BufferOwnership, BuffersNumbered, PollKnows
    <2> QED
      BY <2>1, <2>2, <2>3, <2>4, <2>5, <2>6
  <1>14. CASE DmaBusError
    <2> USE <1>14 DEF DmaBusError
    <2> USE DEF Slots, Held, Advance, Fresh, ringvars, hwvars, logvars
    <2>1. RxTypeOK'
      <3>1. buserrs' \in Nat
        BY DEF RxTypeOK
      <3> QED
        BY <3>1 DEF RxTypeOK, PollSteps
    <2>2. Window'
      BY DEF RxTypeOK, Slot, Window, Filled, Distance, PollKnows
    <2>3. PollKnows'
      BY DEF RxTypeOK, Slot, PollKnows, Window, Filled, Distance, RxAlive
    <2>4. RxAlive'
      BY DEF RxTypeOK, Slot, RxAlive, PollKnows
    <2>5. BuffersNumbered'
      BY DEF RxTypeOK, Slot, BuffersNumbered
    <2>6. BufferOwnership'
      BY DEF RxTypeOK, Slot, BufferOwnership, BuffersNumbered, PollKnows
    <2> QED
      BY <2>1, <2>2, <2>3, <2>4, <2>5, <2>6
  <1>15. ASSUME NEW ok \in BOOLEAN, DmaStore(ok) PROVE RxInv'
    <2> USE <1>15 DEF DmaStore
    <2> USE DEF Slots, Held, Advance, Fresh, ringvars, hwvars, logvars
    <2>1. RxTypeOK'
      <3>1. stored' \in Nat /\ hw_rx' \in Slots
        BY DEF RxTypeOK
      <3>2. rdesc' \in [Slots -> Slot]
        BY <3>1 DEF RxTypeOK, Slot
      <3> QED
        BY <3>1, <3>2 DEF RxTypeOK, PollSteps
    <2>2. Window'
      <3>1. cur_rx \in Slots /\ hw_rx \in Slots /\ ~ Held(hw_rx)
        BY DEF RxTypeOK
      <3>2. hw_rx' \in Slots /\ cur_rx' = cur_rx
        BY <3>1
      <3>3. \A i \in Slots : Held(i)' <=> Held(i) \/ i = hw_rx
        BY <3>1 DEF RxTypeOK, Slot
      <3>4. \A i \in Slots : Held(i) <=> Distance(i) < Filled
        BY DEF Window
      <3>5. ~ Held(cur_rx) => hw_rx = cur_rx
        BY DEF Window
      <3>6. Filled = Distance(hw_rx)
        BY <3>1, <3>4, <3>5 DEF Filled, Distance
      <3>7. Filled' = Filled + 1
        BY <3>1, <3>2, <3>3, <3>5, <3>6 DEF Filled, Distance
      <3>8. \A i \in Slots : Held(i)' <=> Distance(i)' < Filled'
        BY <3>1, <3>2, <3>3, <3>4, <3>6, <3>7 DEF Distance
      <3>9. Held(cur_rx)'
        BY <3>1, <3>2, <3>3, <3>5
      <3> QED
        BY <3>8, <3>9 DEF Window
    <2>3. PollKnows'
      BY DEF RxTypeOK, Slot, PollKnows, Window, Filled, Distance, RxAlive
    <2>4. RxAlive'
      BY DEF RxTypeOK, Slot, RxAlive, PollKnows
    <2>5. BuffersNumbered'
      BY DEF RxTypeOK, Slot, BuffersNumbered
    <2>6. BufferOwnership'
      BY DEF RxTypeOK, Slot, BufferOwnership, BuffersNumbered, PollKnows
    <2> QED
      BY <2>1, <2>2, <2>3, <2>4, <2>5, <2>6
  <1>16. CASE UNCHANGED vars
    BY <1>16 DEF vars, ringvars, hwvars, logvars, RxTypeOK, Window, Filled, Distance,
       Held, PollKnows, RxAlive, BuffersNumbered, BufferOwnership
  <1> QED
    BY <1>1, <1>2, <1>3, <1>4, <1>5, <1>6, <1>7, <1>8, <1>9, <1>10, <1>11, <1>12, <1>13, <1>14, <1>15, <1>16 DEF RxNext, Poll, Irq, Dma

\* The conjunction RxInv holds in every reachable state.
THEOREM RxInvariant == RxSpec => []RxInv
  BY RxInitInv, RxStepInv, PTL DEF RxSpec

\* Reception never stalls (RxAlive) and the types hold, for every ring size,
\* weight and number of frames, allocation failures and bus errors.
THEOREM RxNeverStalls == RxSpec => [](RxTypeOK /\ RxAlive)
  <1>1. RxInv => RxTypeOK /\ RxAlive
    BY DEF RxInv
  <1> QED
    BY <1>1, RxInvariant, PTL

\* No receive buffer is freed twice, shared or written by the DMA while the
\* stack owns it.
THEOREM RxBuffersOwnedOnce == RxSpec => []BufferOwnership
  <1>1. RxInv => BufferOwnership
    BY DEF RxInv
  <1> QED
    BY <1>1, RxInvariant, PTL

\* The reset the RX interrupt makes never meets a poll that holds a descriptor.
THEOREM RxResetOutsidePoll == RxSpec => ResetOutsidePoll
  <1>1. ASSUME RxInv, [RxNext]_vars
        PROVE  [freed' # freed => pc \in {"idle", "trigger"}]_vars
    <2>1. CASE RxIrqBusError
      BY <1>1, <2>1 DEF RxInv, RxTypeOK, PollSteps, PollKnows, RxIrqBusError,
                        RxIrqRaised
    <2>2. CASE RxNext /\ ~ RxIrqBusError
      BY <2>2 DEF RxNext, Poll, Irq, Dma, PollStart, PollCheck, PollAllocFail,
         PollDeliver, PollRefill, PollError, PollGiveBack, PollComplete,
         PollEnable, PollTrigger, RxIrq, DmaStore, DmaNoDescriptor,
         DmaBusError, logvars
    <2> QED
      BY <1>1, <2>1, <2>2
  <1> QED
    BY <1>1, RxInvariant, PTL DEF RxSpec, ResetOutsidePoll
-----------------------------------------------------------------------------
(* The receive path implements RxFifo. *)

\* the descriptor d places after c, and the frames of the n descriptors from c on
SlotAt(c, d) == IF c + d >= N THEN c + d - N ELSE c + d
FramesFrom(ring, c, n) == [k \in 1 .. n |-> ring[SlotAt(c, k - 1)].frame]

\* InRing, which the mapping takes from the ownership bits, read off the indices
RingRead == Filled \in 0 .. N /\ InRing = FramesFrom(rdesc, cur_rx, Filled)

\* SlotAt is the inverse of Distance.
LEMMA SlotAtFacts ==
  ASSUME NEW c \in Slots, NEW d \in 0 .. N - 1
  PROVE  /\ SlotAt(c, d) \in Slots /\ SlotAt(c, 0) = c
         /\ \A i \in Slots :
              (IF i >= c THEN i - c ELSE i + N - c) = d <=> i = SlotAt(c, d)
         /\ d > 0 => SlotAt(c, d) # c /\ SlotAt(Advance(c), d - 1) = SlotAt(c, d)
  BY RxConstants DEF Slots, SlotAt, Advance

\* A sequence with one element more, and with one less.
LEMMA AppendTail ==
  ASSUME NEW s \in Seq(Nat), NEW e \in Nat
  PROVE  /\ Append(s, e) = [k \in 1 .. Len(s) + 1 |-> IF k <= Len(s) THEN s[k] ELSE e]
         /\ Len(s) >= 1 => /\ s # <<>> /\ Head(s) = s[1]
                           /\ Tail(s) = [k \in 1 .. Len(s) - 1 |-> s[k + 1]]
                           /\ Tail(Append(s, e)) = Append(Tail(s), e)
  <1>1. Append(s, e) = [k \in 1 .. Len(s) + 1 |-> IF k <= Len(s) THEN s[k] ELSE e]
    <2>1. Append(s, e) \in Seq(Nat) /\ Len(Append(s, e)) = Len(s) + 1
      OBVIOUS
    <2>2. Append(s, e) \in [1 .. Len(s) + 1 -> Nat]
      BY <2>1, LenProperties
    <2>3. \A k \in 1 .. Len(s) + 1 : Append(s, e)[k] = IF k <= Len(s) THEN s[k] ELSE e
      OBVIOUS
    <2> QED
      BY <2>2, <2>3
  <1>2. ASSUME Len(s) >= 1
        PROVE  s # <<>> /\ Head(s) = s[1] /\ Tail(s) = [k \in 1 .. Len(s) - 1 |-> s[k + 1]]
    <2>1. s # <<>> /\ Head(s) = s[1]
      BY <1>2
    <2>2. /\ Tail(s) \in Seq(Nat) /\ Len(Tail(s)) = Len(s) - 1
          /\ \A k \in 1 .. Len(s) - 1 : Tail(s)[k] = s[k + 1]
      BY <2>1, HeadTailProperties
    <2>3. Tail(s) \in [1 .. Len(s) - 1 -> Nat]
      BY <2>2, LenProperties
    <2> QED
      BY <2>1, <2>2, <2>3
  <1>3. ASSUME Len(s) >= 1
        PROVE  Tail(Append(s, e)) = Append(Tail(s), e)
    <2>1. /\ Tail(Append(s, e)) \in Seq(Nat) /\ Append(Tail(s), e) \in Seq(Nat)
          /\ Len(Tail(Append(s, e))) = Len(s) /\ Len(Append(Tail(s), e)) = Len(s)
      BY <1>3
    <2>2. ASSUME NEW k \in 1 .. Len(s) PROVE Tail(Append(s, e))[k] = Append(Tail(s), e)[k]
      BY <1>3
    <2> QED
      BY <2>1, <2>2, SeqEqual
  <1> QED
    BY <1>1, <1>2, <1>3

\* The frames in the ring are those of the Filled descriptors from cur_rx on.
LEMMA InRingFrames == RxInv => RingRead
  <1> SUFFICES ASSUME RxInv
               PROVE  Filled \in 0 .. N /\ InRing = FramesFrom(rdesc, cur_rx, Filled)
    BY DEF RingRead
  <1>1. N \in Nat /\ N > 0 /\ cur_rx \in Slots /\ hw_rx \in Slots
    BY RxConstants DEF RxInv, RxTypeOK
  <1>2. Filled \in 0 .. N
    BY <1>1 DEF Filled, Slots
  <1>3. HeldCount = Filled
    <2>1. (\E i \in Slots : Held(i)) <=> Held(cur_rx)
      <3>1. ASSUME NEW i \in Slots, Held(i) PROVE Held(cur_rx)
        <4>1. Distance(i) < Filled
          BY <3>1 DEF RxInv, Window
        <4>2. Distance(i) \in Nat
          BY <1>1 DEF Distance, Slots
        <4> QED
          BY <1>1, <4>1, <4>2 DEF Filled
      <3> QED
        BY <1>1, <3>1
    <2> QED
      BY <1>1, <2>1 DEF HeldCount, Filled, Distance, Slots
  <1>4. ASSUME NEW k \in 1 .. Filled
        PROVE  (CHOOSE i \in Slots : Distance(i) = k - 1) = SlotAt(cur_rx, k - 1)
    <2>1. k - 1 \in 0 .. N - 1
      BY <1>1, <1>2
    <2>2. /\ SlotAt(cur_rx, k - 1) \in Slots
          /\ \A i \in Slots : Distance(i) = k - 1 <=> i = SlotAt(cur_rx, k - 1)
      BY <1>1, <2>1, SlotAtFacts DEF Distance
    <2> HIDE DEF Distance
    <2> QED
      BY <2>2, Zenon
  <1>5. \A k \in 1 .. Filled : rdesc[CHOOSE i \in Slots : Distance(i) = k - 1].frame
                                 = rdesc[SlotAt(cur_rx, k - 1)].frame
    BY <1>4, Zenon
  <1> QED
    BY <1>2, <1>3, <1>5, Zenon DEF InRing, FramesFrom

\* Every initial state is an empty FIFO.
LEMMA FifoInitially == RxInit => Fifo!FifoInit
  <1> SUFFICES ASSUME RxInit PROVE Fifo!FifoInit
    OBVIOUS
  <1>1. ~ Held(cur_rx) /\ RxInv
    BY RxConstants, RxInitInv DEF RxInit, Fresh, Held, Slots
  <1>2. InRing = <<>>
    BY <1>1, InRingFrames DEF RingRead, FramesFrom, Filled
  <1> QED
    BY <1>2 DEF RxInit, Waiting, Fifo!FifoInit

\* Every step of DMA, interrupt handler and poll is a step of the FIFO or leaves
\* it unchanged.
LEMMA FifoStep ==
  /\ RxInv /\ RingRead /\ RxInv' /\ RingRead' /\ [RxNext]_vars
  => [Fifo!FifoNext]_(Fifo!fifovars)
  <1> SUFFICES ASSUME RxInv, RingRead, RxInv', RingRead', [RxNext]_vars
               PROVE  Fifo!FifoNext \/ UNCHANGED Fifo!fifovars
    OBVIOUS
  <1>a. /\ N \in Nat /\ N > 0 /\ cur_rx \in Slots /\ hw_rx \in Slots
        /\ Filled \in 0 .. N /\ InRing = FramesFrom(rdesc, cur_rx, Filled)
        /\ Filled' \in 0 .. N /\ InRing' = FramesFrom(rdesc', cur_rx', Filled')
        /\ cur_rx' \in Slots /\ hw_rx' \in Slots
    BY RxConstants DEF RingRead, RxInv, RxTypeOK, Slots
  <1>b. Held(cur_rx) <=> Filled >= 1
    BY <1>a DEF Filled, Slots
  <1>c. InRing \in Seq(Nat) /\ Len(InRing) = Filled /\ stored \in Nat /\ up \in Seq(Nat)
    <2>1. ASSUME NEW k \in 1 .. Filled PROVE rdesc[SlotAt(cur_rx, k - 1)].frame \in Nat
      <3>1. SlotAt(cur_rx, k - 1) \in Slots
        BY <1>a DEF SlotAt, Slots
      <3> QED
        BY <3>1 DEF RxInv, RxTypeOK, Slot
    <2> QED
      BY <1>a, <2>1 DEF FramesFrom, RxInv, RxTypeOK
  <1>d. ASSUME UNCHANGED <<rdesc, cur_rx, hw_rx>> PROVE InRing' = InRing
    <2>1. Filled' = Filled
      BY <1>d DEF Filled, Held
    <2> QED
      BY <1>a, <1>d, <2>1
  <1>e. ASSUME UNCHANGED <<rdesc, cur_rx, hw_rx, stored, up>>,
               pc \in {"refill", "giveback"} <=> pc' \in {"refill", "giveback"}
        PROVE  UNCHANGED Fifo!fifovars
    BY <1>d, <1>e DEF Waiting, Fifo!fifovars
  <1>1. ASSUME NEW ok \in BOOLEAN, DmaStore(ok) PROVE Fifo!Accept
    <2>1. /\ rdesc[hw_rx].own
          /\ rdesc' = [rdesc EXCEPT ![hw_rx] = [own |-> FALSE, frame |-> stored + 1, ok |-> ok]]
          /\ hw_rx' = Advance(hw_rx) /\ stored' = stored + 1
          /\ cur_rx' = cur_rx /\ pc' = pc /\ up' = up
      BY <1>1 DEF DmaStore, logvars
    <2>2. /\ Held(cur_rx)' /\ Filled < N /\ Filled' = Filled + 1
          /\ hw_rx = SlotAt(cur_rx, Filled)
      <3>1. Filled = Distance(hw_rx) /\ (~ Held(cur_rx) => hw_rx = cur_rx)
        <4>1. ~ (Distance(hw_rx) < Filled) /\ (~ Held(cur_rx) => hw_rx = cur_rx)
          BY <1>a, <2>1 DEF RxInv, Window, Held
        <4> QED
          BY <1>a, <4>1 DEF Filled, Distance, Slots
      <3>2. hw_rx = SlotAt(cur_rx, Filled) /\ Filled < N
        BY <1>a, <3>1 DEF Distance, SlotAt, Slots
      <3>3. Held(cur_rx)'
        BY <1>a, <2>1, <3>1 DEF Held, RxInv, RxTypeOK, Slot
      <3> QED
        BY <1>a, <2>1, <3>1, <3>2, <3>3 DEF Filled, Distance, Advance, Slots
    <2>3. ASSUME NEW k \in 1 .. Filled
          PROVE  SlotAt(cur_rx, k - 1) \in Slots /\ SlotAt(cur_rx, k - 1) # hw_rx
      BY <1>a, <2>2 DEF SlotAt, Slots
    <2>4. InRing' = Append(InRing, stored + 1)
      <3>1. ASSUME NEW k \in 1 .. Filled + 1
            PROVE  rdesc'[SlotAt(cur_rx, k - 1)].frame
                     = IF k <= Filled THEN rdesc[SlotAt(cur_rx, k - 1)].frame ELSE stored + 1
        <4>1. CASE k <= Filled
          BY <1>a, <2>1, <2>3, <4>1 DEF RxInv, RxTypeOK
        <4>2. CASE k = Filled + 1
          BY <1>a, <2>1, <2>2, <4>2 DEF RxInv, RxTypeOK
        <4> QED
          BY <1>a, <4>1, <4>2
      <3>2. InRing' = [k \in 1 .. Filled + 1 |->
                         IF k <= Filled THEN rdesc[SlotAt(cur_rx, k - 1)].frame ELSE stored + 1]
        BY <1>a, <2>1, <2>2, <3>1 DEF FramesFrom
      <3>3. ASSUME NEW k \in 1 .. Filled + 1, k <= Filled
            PROVE  InRing[k] = rdesc[SlotAt(cur_rx, k - 1)].frame
        BY <1>a, <3>3 DEF FramesFrom
      <3>4. Append(InRing, stored + 1)
              = [k \in 1 .. Filled + 1 |-> IF k <= Filled THEN InRing[k] ELSE stored + 1]
        BY <1>c, AppendTail
      <3> QED
        BY <3>2, <3>3, <3>4
    <2>5. pc \in {"refill", "giveback"} => InRing # <<>>
      BY <1>a, <1>b, <1>c DEF RxInv, PollKnows
    <2>6. Waiting' = Append(Waiting, stored + 1)
      BY <1>c, <2>1, <2>4, <2>5, AppendTail DEF Waiting
    <2> QED
      BY <2>1, <2>6 DEF Fifo!Accept
  <1>2. CASE PollDeliver
    <2>1. /\ pc = "frame" /\ pc' = "refill" /\ up' = Append(up, rdesc[cur_rx].frame)
          /\ UNCHANGED <<rdesc, cur_rx, hw_rx, stored>>
      BY <1>2 DEF PollDeliver, ringvars, hwvars
    <2>2. InRing' = InRing /\ Waiting = InRing /\ Waiting' = Tail(InRing)
      BY <1>d, <2>1 DEF Waiting
    <2>3. InRing # <<>> /\ Head(InRing) = rdesc[cur_rx].frame
      <3>1. Filled >= 1 /\ SlotAt(cur_rx, 0) = cur_rx
        BY <1>a, <1>b, <2>1 DEF RxInv, PollKnows, SlotAt, Slots
      <3>2. InRing[1] = rdesc[SlotAt(cur_rx, 0)].frame
        BY <1>a, <3>1 DEF FramesFrom
      <3> QED
        BY <1>c, <3>1, <3>2, AppendTail
    <2> QED
      BY <2>1, <2>2, <2>3 DEF Fifo!FifoNext, Fifo!Deliver
  <1>3. CASE PollError
    <2>1. /\ pc = "frame" /\ pc' = "giveback"
          /\ UNCHANGED <<rdesc, cur_rx, hw_rx, stored, up>>
      BY <1>3 DEF PollError, ringvars, hwvars
    <2>2. Waiting = InRing /\ Waiting' = Tail(InRing)
      BY <1>d, <2>1 DEF Waiting
    <2>3. InRing # <<>>
      BY <1>a, <1>b, <1>c, <2>1 DEF RxInv, PollKnows
    <2> QED
      BY <2>1, <2>2, <2>3 DEF Fifo!FifoNext, Fifo!Refuse
  <1>4. CASE PollGiveBack
    <2>1. /\ pc = "giveback" /\ pc' = "check" /\ rdesc' = [rdesc EXCEPT ![cur_rx] = Fresh]
          /\ cur_rx' = Advance(cur_rx) /\ hw_rx' = hw_rx /\ stored' = stored /\ up' = up
      BY <1>4 DEF PollGiveBack, hwvars, logvars
    <2>2. Filled >= 1
      BY <1>a, <1>b, <2>1 DEF RxInv, PollKnows
    <2>3. Filled' = Filled - 1
      <3>1. Held(cur_rx)' <=> Filled >= 2
        <4>1. Held(cur_rx)' <=> Held(Advance(cur_rx)) /\ Advance(cur_rx) # cur_rx
          BY <1>a, <2>1 DEF Held, Fresh, RxInv, RxTypeOK, Slot
        <4>2. Held(Advance(cur_rx)) <=> Distance(Advance(cur_rx)) < Filled
          BY <1>a, <2>1 DEF RxInv, Window
        <4> QED
          BY <1>a, <2>2, <4>1, <4>2 DEF Distance, Advance, Slots
      <3> QED
        BY <1>a, <1>b, <2>1, <2>2, <3>1 DEF Filled, Advance, Slots
    <2>4. ASSUME NEW k \in 1 .. Filled - 1
          PROVE  rdesc'[SlotAt(cur_rx', k - 1)].frame = rdesc[SlotAt(cur_rx, k)].frame
      <3>1. /\ SlotAt(cur_rx', k - 1) = SlotAt(cur_rx, k)
            /\ SlotAt(cur_rx, k) \in Slots /\ SlotAt(cur_rx, k) # cur_rx
        BY <1>a, <2>1 DEF SlotAt, Advance, Slots
      <3> QED
        BY <1>a, <2>1, <3>1 DEF RxInv, RxTypeOK
    <2>5. InRing' = Tail(InRing)
      <3>1. InRing' = [k \in 1 .. Filled - 1 |-> rdesc[SlotAt(cur_rx, k)].frame]
        BY <1>a, <2>3, <2>4 DEF FramesFrom
      <3>2. Tail(InRing) = [k \in 1 .. Filled - 1 |-> InRing[k + 1]]
        BY <1>c, <2>2, AppendTail
      <3>3. ASSUME NEW k \in 1 .. Filled - 1
            PROVE  InRing[k + 1] = rdesc[SlotAt(cur_rx, k)].frame
        BY <1>a DEF FramesFrom
      <3> QED
        BY <3>1, <3>2, <3>3
    <2>6. Waiting' = Waiting
      BY <2>1, <2>5 DEF Waiting
    <2> QED
      BY <2>1, <2>6 DEF Fifo!fifovars
  <1>5. CASE RxIrqBusError
    <2>1. /\ pc' = pc /\ stored' = stored /\ up' = up
          /\ rdesc' = [i \in Slots |-> Fresh] /\ cur_rx' = 0
      BY <1>5 DEF RxIrqBusError, reset_mac
    <2>2. pc \notin {"refill", "giveback"}
      BY <1>5 DEF RxIrqBusError, RxIrqRaised, RxInv, PollKnows
    <2>3. Filled' = 0
      BY <1>a, <2>1 DEF Filled, Held, Fresh
    <2>4. Waiting' = <<>>
      BY <1>a, <2>1, <2>2, <2>3 DEF Waiting, FramesFrom
    <2> QED
      BY <2>1, <2>4 DEF Fifo!FifoNext, Fifo!Flush
  <1>6. CASE \/ PollStart \/ PollCheck \/ PollAllocFail \/ PollRefill \/ PollComplete
             \/ PollEnable \/ PollTrigger \/ RxIrq \/ DmaNoDescriptor \/ DmaBusError
             \/ UNCHANGED vars
    <2>1. UNCHANGED <<rdesc, cur_rx, hw_rx, stored, up>>
      BY <1>6 DEF PollStart, PollCheck, PollAllocFail, PollRefill, PollComplete, PollEnable,
         PollTrigger, RxIrq, DmaNoDescriptor, DmaBusError, vars, ringvars, hwvars, logvars
    <2>2. pc \in {"refill", "giveback"} <=> pc' \in {"refill", "giveback"}
      BY <1>6 DEF PollStart, PollCheck, PollAllocFail, PollRefill, PollComplete, PollEnable,
         PollTrigger, RxIrq, DmaNoDescriptor, DmaBusError, vars
    <2> QED
      BY <1>e, <2>1, <2>2
  <1> QED
    BY <1>1, <1>2, <1>3, <1>4, <1>5, <1>6 DEF RxNext, Poll, Irq, Dma, Fifo!FifoNext

\* The receive path implements the FIFO for every ring size and weight: each
\* frame the MAC accepted reaches the stack at most once and in order.
THEOREM RxImplementsFifo == RxSpec => RxFifoSpec
  <1> QED
    BY RxInvariant, InRingFrames, FifoInitially, FifoStep, PTL DEF RxSpec, RxFifoSpec, Fifo!FifoSpec

-----------------------------------------------------------------------------
\* The transmit path.

\* descriptor d places after i, for d up to the ring size, and its inverse
Ahead(i, d) == IF i + d >= TxN THEN i + d - TxN ELSE i + d
Dist(i, j)  == IF j >= i THEN j - i ELSE j + TxN - i

\* buffers with the DMA; the descriptor that gets the next one
InFlight == nsent - (IF xpc \in {"skb", "own"} THEN 1 ELSE 0) - Len(onwire)
NextOwn  == IF xpc \in {"trigger", "next"} THEN TxAdvance(cur_tx) ELSE cur_tx

\* buffers in tx_skb; the entry that gets the next one
Kept    == nsent - (IF xpc = "skb" THEN 1 ELSE 0) - Len(freed_tx)
NextSkb == IF xpc \in {"own", "trigger", "next"} THEN TxAdvance(cur_tx) ELSE cur_tx

\* The DMA owns the InFlight descriptors from hw_tx on, and they name the
\* buffers after the last one sent.
DmaWindow ==
    /\ InFlight \in 0 .. TxN
    /\ Ahead(hw_tx, InFlight) = NextOwn
    /\ \A i \in TxSlots :
        /\ tdesc[i].own <=> Dist(hw_tx, i) < InFlight
        /\ tdesc[i].own => tdesc[i].buf = Len(onwire) + Dist(hw_tx, i) + 1

\* tx_skb has the Kept entries from finish_tx on, which name the buffers after
\* the last one freed.
SkbWindow ==
    /\ Kept \in 0 .. TxN
    /\ Ahead(finish_tx, Kept) = NextSkb
    /\ \A i \in TxSlots :
        tx_skb[i] = IF Dist(finish_tx, i) < Kept
                    THEN Len(freed_tx) + Dist(finish_tx, i) + 1 ELSE 0

\* start_xmit has the descriptor at cur_tx for itself until it gives it away.
XmitKnows ==
    xpc \in {"skb", "own"} => ~ tdesc[cur_tx].own /\ tdesc[cur_tx].buf = nsent

\* With no interrupt pending every buffer sent has been freed (and maybe the
\* one start_xmit has just entered).
Reclaimed == CpuInXmit => Len(onwire) <= Len(freed_tx)

\* The queue sleeps, or no interrupt is pending that would wake it, as long as
\* the descriptor at cur_tx is with the DMA.
QueueKnows ==
    xpc \in {"idle", "stop"} /\ tdesc[cur_tx].own =>
        CpuInXmit /\ (xpc = "idle" => stopped)

TxLogs ==
    /\ freed_tx = [k \in 1 .. Len(freed_tx) |-> k]
    /\ onwire = [k \in 1 .. Len(onwire) |-> k]

TxInv ==
    /\ TxTypeOK
    /\ DmaWindow
    /\ SkbWindow
    /\ XmitKnows
    /\ Reclaimed
    /\ QueueKnows
    /\ TxLogs
-----------------------------------------------------------------------------
\* A log that names the first buffers in order is extended by the next one.
LEMMA LogAppend ==
  ASSUME NEW s \in Seq(Nat), s = [k \in 1 .. Len(s) |-> k]
  PROVE  /\ Append(s, Len(s) + 1) \in Seq(Nat)
         /\ Len(Append(s, Len(s) + 1)) = Len(s) + 1
         /\ Append(s, Len(s) + 1)
              = [k \in 1 .. Len(Append(s, Len(s) + 1)) |-> k]
  OBVIOUS

\* The distance of two descriptors, and how it changes when the first advances.
LEMMA DistFacts ==
  ASSUME NEW i \in TxSlots, NEW j \in TxSlots
  PROVE  /\ TxAdvance(i) \in TxSlots
         /\ Dist(i, j) \in 0 .. TxN - 1 /\ Dist(i, i) = 0
         /\ i # j => Dist(TxAdvance(i), j) = Dist(i, j) - 1
         /\ Dist(TxAdvance(i), i) = TxN - 1
  BY TxConstants DEF TxSlots, TxAdvance, Dist

\* Ahead is the inverse of Dist, and follows an index that advances.
LEMMA AheadFacts ==
  ASSUME NEW i \in TxSlots, NEW d \in 0 .. TxN
  PROVE  /\ d < TxN => \A j \in TxSlots : Ahead(i, d) = j <=> Dist(i, j) = d
         /\ d = TxN => Ahead(i, d) = i
         /\ d > 0 => Ahead(TxAdvance(i), d - 1) = Ahead(i, d)
         /\ d < TxN => Ahead(i, d + 1) = TxAdvance(Ahead(i, d))
  BY TxConstants DEF TxSlots, TxAdvance, Ahead, Dist

\* The empty ring satisfies the invariant.
LEMMA TxInitInv == TxInit => TxInv
  <1> SUFFICES ASSUME TxInit PROVE TxInv
    OBVIOUS
  <1> USE TxConstants DEF TxInit, TxSlots
  <1>1. TxTypeOK
    <2>1. tdesc \in [TxSlots -> TxDesc] /\ tx_skb \in [TxSlots -> Nat] /\ 0 \in TxSlots
      BY DEF TxDesc
    <2>2. onwire \in Seq(Nat) /\ freed_tx \in Seq(Nat) /\ nsent \in 0 .. MaxSkbs
      OBVIOUS
    <2> QED
      BY <2>1, <2>2 DEF TxTypeOK, XmitSteps
  <1>2. DmaWindow
    BY DEF DmaWindow, InFlight, NextOwn, Ahead, Dist
  <1>3. SkbWindow
    BY DEF SkbWindow, Kept, NextSkb, Ahead, Dist
  <1>4. XmitKnows /\ Reclaimed /\ QueueKnows /\ TxLogs
    BY DEF XmitKnows, Reclaimed, QueueKnows, TxLogs
  <1> QED
    BY <1>1, <1>2, <1>3, <1>4 DEF TxInv

\* Every step of start_xmit, interrupt handler and DMA preserves the invariant.
LEMMA TxStepInv == TxInv /\ [TxNext]_txvars => TxInv'
  <1> SUFFICES ASSUME TxInv, [TxNext]_txvars PROVE TxInv'
    OBVIOUS
  <1> USE DEF TxInv
  <1>a. /\ TxN \in Nat /\ TxN > 1
        /\ hw_tx \in TxSlots /\ cur_tx \in TxSlots /\ finish_tx \in TxSlots
        /\ TxAdvance(cur_tx) \in TxSlots
        /\ nsent \in Nat /\ Len(onwire) \in Nat /\ Len(freed_tx) \in Nat
    BY TxConstants, DistFacts DEF TxTypeOK
  <1>b. ASSUME UNCHANGED <<tdesc, hw_tx, onwire>>, InFlight' = InFlight, NextOwn' = NextOwn
        PROVE  DmaWindow'
    BY <1>b DEF DmaWindow, Ahead, Dist
  <1>c. ASSUME UNCHANGED <<tx_skb, finish_tx, freed_tx>>, Kept' = Kept, NextSkb' = NextSkb
        PROVE  SkbWindow'
    BY <1>c DEF SkbWindow, Ahead, Dist
  <1>1. ASSUME NEW ok \in BOOLEAN, DmaTransmit(ok) PROVE TxInv'
    <2>0. /\ tdesc[hw_tx].buf = Len(onwire) + 1 /\ InFlight \in 1 .. TxN
          /\ Len(onwire') = Len(onwire) + 1 /\ onwire' \in Seq(Nat)
          /\ onwire' = [k \in 1 .. Len(onwire') |-> k]
      <3>1. Dist(hw_tx, hw_tx) = 0
        BY <1>a, DistFacts
      <3>2. tdesc[hw_tx].buf = Len(onwire) + 1 /\ InFlight \in 1 .. TxN
        BY <1>a, <1>1, <3>1 DEF DmaWindow, DmaTransmit
      <3> QED
        BY <1>1, <3>2, LogAppend DEF TxTypeOK, TxLogs, DmaTransmit
    <2>1. TxTypeOK'
      <3>1. tdesc' \in [TxSlots -> TxDesc]
        BY <1>a, <1>1 DEF TxTypeOK, TxDesc, DmaTransmit
      <3>2. hw_tx' \in TxSlots
        BY <1>a, <1>1, DistFacts DEF DmaTransmit
      <3> QED
        BY <1>1, <2>0, <3>1, <3>2 DEF TxTypeOK, DmaTransmit, txlog
    <2>2. DmaWindow'
      <3>1. InFlight' = InFlight - 1 /\ NextOwn' = NextOwn /\ hw_tx' = TxAdvance(hw_tx)
        BY <1>a, <1>1, <2>0 DEF InFlight, NextOwn, DmaTransmit, txlog
      <3>2. Ahead(hw_tx', InFlight') = NextOwn'
        <4> HIDE DEF TxInv
        <4>1. Ahead(TxAdvance(hw_tx), InFlight - 1) = Ahead(hw_tx, InFlight)
          BY <1>a, <2>0, AheadFacts
        <4> QED
          BY <3>1, <4>1 DEF DmaWindow, TxInv
      <3>3. ASSUME NEW i \in TxSlots
            PROVE  /\ tdesc'[i].own <=> Dist(hw_tx', i) < InFlight'
                   /\ tdesc'[i].own => tdesc'[i].buf = Len(onwire') + Dist(hw_tx', i) + 1
        <4>1. i # hw_tx => tdesc'[i] = tdesc[i]
          BY <1>1 DEF TxTypeOK, DmaTransmit
        <4>2. i = hw_tx => ~ tdesc'[i].own
          BY <1>1 DEF TxTypeOK, TxDesc, DmaTransmit
        <4>3. /\ Dist(hw_tx, i) \in 0 .. TxN - 1
              /\ i # hw_tx => Dist(hw_tx', i) = Dist(hw_tx, i) - 1
              /\ i = hw_tx => Dist(hw_tx', i) = TxN - 1
          BY <1>a, <3>1, DistFacts
        <4>4. CASE i = hw_tx
          BY <1>a, <2>0, <3>1, <4>2, <4>3, <4>4
        <4>5. CASE i # hw_tx
          <5>1. /\ tdesc[i].own <=> Dist(hw_tx, i) < InFlight
                /\ tdesc[i].own => tdesc[i].buf = Len(onwire) + Dist(hw_tx, i) + 1
            BY DEF DmaWindow
          <5>2. /\ Dist(hw_tx, i) < InFlight <=> Dist(hw_tx', i) < InFlight'
                /\ Len(onwire') + Dist(hw_tx', i) + 1 = Len(onwire) + Dist(hw_tx, i) + 1
            BY <1>a, <2>0, <3>1, <4>3, <4>5
          <5> QED
            BY <4>1, <4>5, <5>1, <5>2
        <4> QED
          BY <4>4, <4>5
      <3>4. InFlight' \in 0 .. TxN
        BY <1>a, <2>0, <3>1
      <3> QED
        BY <3>2, <3>3, <3>4 DEF DmaWindow, Ahead, Dist
    <2>3. SkbWindow'
      BY <1>c, <1>1 DEF Kept, NextSkb, DmaTransmit, txlog
    <2>4. XmitKnows'
      BY <1>a, <1>1 DEF TxTypeOK, TxDesc, XmitKnows, DmaTransmit, txlog
    <2>5. Reclaimed'
      BY <1>1 DEF Reclaimed, CpuInXmit, DmaTransmit
    <2>6. QueueKnows'
      <3>1. ASSUME xpc \in {"idle", "stop"}, tdesc[cur_tx].own PROVE hw_tx = cur_tx
        <4>1. Ahead(hw_tx, InFlight) = cur_tx /\ Dist(hw_tx, cur_tx) < InFlight
          BY <1>a, <3>1 DEF DmaWindow, NextOwn
        <4>2. InFlight < TxN => Dist(hw_tx, cur_tx) = InFlight
          BY <1>a, <2>0, <4>1, AheadFacts
        <4>3. InFlight = TxN
          BY <1>a, <2>0, <4>1, <4>2
        <4> QED
          BY <1>a, <4>1, <4>3, AheadFacts
      <3>2. cur_tx' = cur_tx /\ xpc' = xpc /\ (tdesc'[cur_tx].own => tdesc[cur_tx].own /\ hw_tx # cur_tx)
        BY <1>a, <1>1 DEF TxTypeOK, TxDesc, DmaTransmit
      <3> QED
        BY <3>1, <3>2 DEF QueueKnows
    <2>7. TxLogs'
      BY <1>1, <2>0 DEF TxLogs, DmaTransmit, txlog
    <2> QED
      BY <2>1, <2>2, <2>3, <2>4, <2>5, <2>6, <2>7
  <1>2. CASE DmaIdle
    <2> USE <1>2 DEF DmaIdle, txring, txhw, txlog
    <2>1. TxTypeOK'
      BY DEF TxTypeOK
    <2>2. DmaWindow'
      BY <1>a, <1>b DEF InFlight, NextOwn
    <2>3. SkbWindow'
      BY <1>a, <1>c DEF Kept, NextSkb
    <2>4. XmitKnows'
      BY <1>a DEF XmitKnows
    <2>5. Reclaimed'
      BY DEF Reclaimed, CpuInXmit
    <2>6. QueueKnows'
      BY DEF QueueKnows, CpuInXmit
    <2>7. TxLogs'
      BY DEF TxLogs
    <2> QED
      BY <2>1, <2>2, <2>3, <2>4, <2>5, <2>6, <2>7
  <1>3. CASE XmitMap
    <2>0. /\ ~ tdesc[cur_tx].own /\ nsent' = nsent + 1 /\ xpc = "idle" /\ xpc' = "skb"
          /\ tdesc' = [tdesc EXCEPT ![cur_tx].buf = nsent + 1]
          /\ nsent' \in 0 .. MaxSkbs
          /\ UNCHANGED <<stopped, tx_skb, cur_tx, finish_tx, hw_tx, tx_on, tx_sta, onwire,
                         ipc, freed_tx, tx_packets, tx_errors>>
      BY <1>3, TxConstants DEF QueueKnows, TxTypeOK, XmitMap, txhw
    <2>1. TxTypeOK'
      <3>1. tdesc' \in [TxSlots -> TxDesc]
        <4>1. tdesc[cur_tx] \in TxDesc /\ nsent + 1 \in Nat
          BY <1>a DEF TxTypeOK
        <4>2. [tdesc[cur_tx] EXCEPT !.buf = nsent + 1] \in TxDesc
          BY <4>1 DEF TxDesc
        <4> QED
          BY <1>a, <2>0, <4>2 DEF TxTypeOK
      <3> QED
        BY <2>0, <3>1 DEF TxTypeOK, XmitSteps
    <2>2. DmaWindow'
      <3>1. InFlight' = InFlight /\ NextOwn' = NextOwn
        BY <1>a, <2>0 DEF InFlight, NextOwn
      <3>2. ASSUME NEW i \in TxSlots
            PROVE  tdesc'[i].own = tdesc[i].own /\ (tdesc[i].own => tdesc'[i] = tdesc[i])
        BY <1>a, <2>0 DEF TxTypeOK, TxDesc
      <3> QED
        BY <2>0, <3>1, <3>2 DEF DmaWindow, Ahead, Dist
    <2>3. SkbWindow'
      BY <1>a, <1>c, <2>0 DEF Kept, NextSkb
    <2>4. XmitKnows'
      BY <1>a, <2>0 DEF TxTypeOK, TxDesc, XmitKnows
    <2>5. Reclaimed'
      BY <2>0 DEF Reclaimed, CpuInXmit
    <2>6. QueueKnows'
      BY <2>0 DEF QueueKnows
    <2>7. TxLogs'
      BY <2>0 DEF TxLogs
    <2> QED
      BY <2>1, <2>2, <2>3, <2>4, <2>5, <2>6, <2>7
  <1>4. CASE XmitSkb
    <2>0. /\ xpc = "skb" /\ xpc' = "own" /\ tx_skb' = [tx_skb EXCEPT ![cur_tx] = nsent]
          /\ Len(onwire) <= Len(freed_tx)
          /\ UNCHANGED <<tdesc, cur_tx, finish_tx, hw_tx, tx_on, tx_sta, onwire, stopped, ipc,
                         nsent, freed_tx, tx_packets, tx_errors>>
      BY <1>4 DEF XmitSkb, txhw, txlog, Reclaimed
    <2>1. TxTypeOK'
      <3>1. tx_skb' \in [TxSlots -> Nat]
        BY <1>a, <2>0 DEF TxTypeOK
      <3> QED
        BY <2>0, <3>1 DEF TxTypeOK, XmitSteps
    <2>2. DmaWindow'
      BY <1>a, <1>b, <2>0 DEF InFlight, NextOwn
    <2>3. SkbWindow'
      <3>1. InFlight \in 0 .. TxN - 1
        <4>1. /\ InFlight \in 0 .. TxN /\ Ahead(hw_tx, InFlight) = cur_tx
              /\ ~ (Dist(hw_tx, cur_tx) < InFlight)
          BY <1>a, <2>0 DEF DmaWindow, NextOwn, XmitKnows
        <4>2. Dist(hw_tx, cur_tx) \in 0 .. TxN - 1
          BY <1>a, <4>1, DistFacts
        <4> QED
          BY <1>a, <4>1, <4>2
      <3>2. /\ Kept \in 0 .. TxN - 1 /\ Kept' = Kept + 1 /\ nsent = Len(freed_tx) + Kept + 1
            /\ Ahead(finish_tx, Kept) = cur_tx /\ NextSkb' = TxAdvance(cur_tx)
        BY <1>a, <2>0, <3>1 DEF SkbWindow, InFlight, Kept, NextSkb
      <3>3. Ahead(finish_tx, Kept + 1) = TxAdvance(cur_tx) /\ Dist(finish_tx, cur_tx) = Kept
        <4> HIDE DEF TxInv
        <4> QED
          BY <1>a, <3>2, AheadFacts
      <3>4. ASSUME NEW i \in TxSlots
            PROVE  tx_skb'[i] = IF Dist(finish_tx, i) < Kept + 1
                                THEN Len(freed_tx) + Dist(finish_tx, i) + 1 ELSE 0
        <4>1. /\ Dist(finish_tx, i) \in 0 .. TxN - 1
              /\ Dist(finish_tx, i) = Kept <=> i = cur_tx
          <5>1. Dist(finish_tx, i) \in 0 .. TxN - 1
            BY <1>a, DistFacts
          <5>2. \A j \in TxSlots : Ahead(finish_tx, Kept) = j <=> Dist(finish_tx, j) = Kept
            BY <1>a, <3>2, AheadFacts
          <5> QED
            BY <3>2, <5>1, <5>2
        <4>2. tx_skb'[i] = IF i = cur_tx THEN nsent ELSE tx_skb[i]
          BY <1>a, <2>0 DEF TxTypeOK
        <4>3. tx_skb[i] = IF Dist(finish_tx, i) < Kept
                          THEN Len(freed_tx) + Dist(finish_tx, i) + 1 ELSE 0
          BY DEF SkbWindow
        <4> QED
          BY <1>a, <3>2, <4>1, <4>2, <4>3
      <3>5. Kept' \in 0 .. TxN
        BY <1>a, <3>2
      <3> QED
        BY <2>0, <3>2, <3>3, <3>4, <3>5 DEF SkbWindow, Ahead, Dist
    <2>4. XmitKnows'
      BY <2>0 DEF XmitKnows
    <2>5. Reclaimed'
      BY <2>0 DEF Reclaimed, CpuInXmit
    <2>6. QueueKnows'
      BY <2>0 DEF QueueKnows
    <2>7. TxLogs'
      BY <2>0 DEF TxLogs
    <2> QED
      BY <2>1, <2>2, <2>3, <2>4, <2>5, <2>6, <2>7
  <1>5. CASE XmitOwn
    <2>0. /\ xpc = "own" /\ xpc' = "trigger"
          /\ tdesc' = [tdesc EXCEPT ![cur_tx].own = TRUE, ![cur_tx].txcp = FALSE]
          /\ UNCHANGED <<tx_skb, cur_tx, finish_tx, hw_tx, tx_on, tx_sta, onwire, stopped, ipc,
                         nsent, freed_tx, tx_packets, tx_errors>>
      BY <1>5 DEF XmitOwn, txhw, txlog
    <2>1. TxTypeOK'
      <3>1. tdesc' \in [TxSlots -> TxDesc]
        BY <1>a, <2>0 DEF TxTypeOK, TxDesc
      <3> QED
        BY <2>0, <3>1 DEF TxTypeOK, XmitSteps
    <2>2. DmaWindow'
      <3>1. InFlight \in 0 .. TxN - 1 /\ Ahead(hw_tx, InFlight) = cur_tx
        <4>1. /\ InFlight \in 0 .. TxN /\ Ahead(hw_tx, InFlight) = cur_tx
              /\ ~ (Dist(hw_tx, cur_tx) < InFlight)
          BY <1>a, <2>0 DEF DmaWindow, NextOwn, XmitKnows
        <4>2. Dist(hw_tx, cur_tx) \in 0 .. TxN - 1
          BY <1>a, <4>1, DistFacts
        <4> QED
          BY <1>a, <4>1, <4>2
      <3>2. InFlight' = InFlight + 1 /\ NextOwn' = TxAdvance(cur_tx)
            /\ nsent = Len(onwire) + InFlight + 1
        BY <1>a, <2>0 DEF InFlight, NextOwn
      <3>3. Ahead(hw_tx, InFlight + 1) = TxAdvance(cur_tx) /\ Dist(hw_tx, cur_tx) = InFlight
        <4> HIDE DEF TxInv
        <4> QED
          BY <1>a, <3>1, AheadFacts
      <3>4. ASSUME NEW i \in TxSlots
            PROVE  /\ tdesc'[i].own <=> Dist(hw_tx, i) < InFlight + 1
                   /\ tdesc'[i].own => tdesc'[i].buf = Len(onwire) + Dist(hw_tx, i) + 1
        <4>1. /\ Dist(hw_tx, i) \in 0 .. TxN - 1
              /\ Dist(hw_tx, i) = InFlight <=> i = cur_tx
          <5>1. Dist(hw_tx, i) \in 0 .. TxN - 1
            BY <1>a, DistFacts
          <5>2. \A j \in TxSlots : Ahead(hw_tx, InFlight) = j <=> Dist(hw_tx, j) = InFlight
            BY <1>a, <3>1, AheadFacts
          <5> QED
            BY <3>1, <5>1, <5>2
        <4>2. i # cur_tx => tdesc'[i] = tdesc[i]
          BY <1>a, <2>0 DEF TxTypeOK
        <4>3. i = cur_tx => tdesc'[i].own /\ tdesc'[i].buf = nsent
          BY <1>a, <2>0 DEF TxTypeOK, TxDesc, XmitKnows
        <4>4. /\ tdesc[i].own <=> Dist(hw_tx, i) < InFlight
              /\ tdesc[i].own => tdesc[i].buf = Len(onwire) + Dist(hw_tx, i) + 1
          BY DEF DmaWindow
        <4>5. CASE i = cur_tx
          BY <1>a, <3>1, <3>2, <4>1, <4>3, <4>5
        <4>6. CASE i # cur_tx
          BY <1>a, <3>1, <4>1, <4>2, <4>4, <4>6
        <4> QED
          BY <4>5, <4>6
      <3>5. InFlight' \in 0 .. TxN
        BY <1>a, <3>1, <3>2
      <3> QED
        BY <2>0, <3>2, <3>3, <3>4, <3>5 DEF DmaWindow, Ahead, Dist
    <2>3. SkbWindow'
      BY <1>c, <2>0 DEF Kept, NextSkb
    <2>4. XmitKnows' /\ QueueKnows'
      BY <2>0 DEF XmitKnows, QueueKnows
    <2>5. Reclaimed'
      BY <2>0 DEF Reclaimed, CpuInXmit
    <2>6. TxLogs'
      BY <2>0 DEF TxLogs
    <2> QED
      BY <2>1, <2>2, <2>3, <2>4, <2>5, <2>6
  <1>6. CASE XmitTrigger
    <2> USE <1>6 DEF XmitTrigger, txring, txhw, txlog
    <2>1. TxTypeOK'
      BY DEF TxTypeOK, XmitSteps
    <2>2. DmaWindow'
      BY <1>a, <1>b DEF InFlight, NextOwn
    <2>3. SkbWindow'
      BY <1>a, <1>c DEF Kept, NextSkb
    <2>4. XmitKnows'
      BY <1>a DEF XmitKnows
    <2>5. Reclaimed'
      BY DEF Reclaimed, CpuInXmit
    <2>6. QueueKnows'
      BY DEF QueueKnows
    <2>7. TxLogs'
      BY DEF TxLogs
    <2> QED
      BY <2>1, <2>2, <2>3, <2>4, <2>5, <2>6, <2>7
  <1>7. CASE XmitNext
    <2> USE <1>7 DEF XmitNext, txring, txhw, txlog
    <2>1. TxTypeOK'
      BY <1>a DEF TxTypeOK, XmitSteps
    <2>2. DmaWindow'
      BY <1>a, <1>b DEF InFlight, NextOwn
    <2>3. SkbWindow'
      BY <1>a, <1>c DEF Kept, NextSkb
    <2>4. XmitKnows'
      BY <1>a DEF XmitKnows
    <2>5. Reclaimed'
      BY DEF Reclaimed, CpuInXmit
    <2>6. QueueKnows'
      BY <1>a DEF QueueKnows, CpuInXmit
    <2>7. TxLogs'
      BY DEF TxLogs
    <2> QED
      BY <2>1, <2>2, <2>3, <2>4, <2>5, <2>6, <2>7
  <1>8. CASE XmitStop
    <2> USE <1>8 DEF XmitStop, txring, txhw, txlog
    <2>1. TxTypeOK'
      BY DEF TxTypeOK, XmitSteps
    <2>2. DmaWindow'
      BY <1>a, <1>b DEF InFlight, NextOwn
    <2>3. SkbWindow'
      BY <1>a, <1>c DEF Kept, NextSkb
    <2>4. XmitKnows'
      BY <1>a DEF XmitKnows
    <2>5. Reclaimed'
      BY DEF Reclaimed, CpuInXmit
    <2>6. QueueKnows'
      BY DEF QueueKnows, CpuInXmit
    <2>7. TxLogs'
      BY DEF TxLogs
    <2> QED
      BY <2>1, <2>2, <2>3, <2>4, <2>5, <2>6, <2>7
  <1>9. CASE TxIrqEnter
    <2> USE <1>9 DEF TxIrqEnter, txring, txhw, txlog
    <2>1. TxTypeOK'
      BY DEF TxTypeOK
    <2>2. DmaWindow'
      BY <1>a, <1>b DEF InFlight, NextOwn
    <2>3. SkbWindow'
      BY <1>a, <1>c DEF Kept, NextSkb
    <2>4. XmitKnows'
      BY <1>a DEF XmitKnows
    <2>5. Reclaimed'
      BY DEF Reclaimed, CpuInXmit
    <2>6. QueueKnows'
      BY DEF QueueKnows, CpuInXmit
    <2>7. TxLogs'
      BY DEF TxLogs
    <2> QED
      BY <2>1, <2>2, <2>3, <2>4, <2>5, <2>6, <2>7
  <1>10. CASE TxIrqReclaim
    <2>0. /\ ipc = "reclaim" /\ tx_skb[finish_tx] # 0
          /\ freed_tx' = Append(freed_tx, tx_skb[finish_tx])
          /\ tx_skb' = [tx_skb EXCEPT ![finish_tx] = 0]
          /\ finish_tx' = TxAdvance(finish_tx)
          /\ tx_packets' \in Nat /\ tx_errors' \in Nat
          /\ UNCHANGED <<tdesc, cur_tx, hw_tx, tx_on, tx_sta, onwire, stopped, xpc, ipc, nsent>>
      BY <1>10 DEF TxIrqReclaim, Reclaimable, txhw, TxTypeOK
    <2>1. /\ tx_skb[finish_tx] = Len(freed_tx) + 1 /\ Kept \in 1 .. TxN
          /\ Len(freed_tx') = Len(freed_tx) + 1 /\ freed_tx' \in Seq(Nat)
          /\ freed_tx' = [k \in 1 .. Len(freed_tx') |-> k]
      <3>1. Dist(finish_tx, finish_tx) = 0
        BY <1>a, DistFacts
      <3>2. tx_skb[finish_tx] = Len(freed_tx) + 1 /\ Kept \in 1 .. TxN
        BY <1>a, <2>0, <3>1 DEF SkbWindow
      <3> QED
        BY <2>0, <3>2, LogAppend DEF TxTypeOK, TxLogs
    <2>2. TxTypeOK'
      <3>1. tx_skb' \in [TxSlots -> Nat]
        BY <1>a, <2>0 DEF TxTypeOK
      <3>2. finish_tx' \in TxSlots
        BY <1>a, <2>0, DistFacts
      <3> QED
        BY <2>0, <2>1, <3>1, <3>2 DEF TxTypeOK
    <2>3. DmaWindow'
      BY <1>b, <2>0 DEF InFlight, NextOwn
    <2>4. SkbWindow'
      <3>1. Kept' = Kept - 1 /\ NextSkb' = NextSkb
        BY <1>a, <2>0, <2>1 DEF Kept, NextSkb
      <3>2. Ahead(finish_tx', Kept') = NextSkb'
        <4> HIDE DEF TxInv
        <4>1. Ahead(TxAdvance(finish_tx), Kept - 1) = Ahead(finish_tx, Kept)
          BY <1>a, <2>1, AheadFacts
        <4> QED
          BY <2>0, <3>1, <4>1 DEF SkbWindow, TxInv
      <3>3. ASSUME NEW i \in TxSlots
            PROVE  tx_skb'[i] = IF Dist(finish_tx', i) < Kept'
                                THEN Len(freed_tx') + Dist(finish_tx', i) + 1 ELSE 0
        <4>1. tx_skb'[i] = IF i = finish_tx THEN 0 ELSE tx_skb[i]
          BY <1>a, <2>0 DEF TxTypeOK
        <4>2. /\ Dist(finish_tx, i) \in 0 .. TxN - 1
              /\ i # finish_tx => Dist(finish_tx', i) = Dist(finish_tx, i) - 1
              /\ i = finish_tx => Dist(finish_tx', i) = TxN - 1
          BY <1>a, <2>0, DistFacts
        <4>3. tx_skb[i] = IF Dist(finish_tx, i) < Kept
                          THEN Len(freed_tx) + Dist(finish_tx, i) + 1 ELSE 0
          BY DEF SkbWindow
        <4>4. CASE i = finish_tx
          BY <1>a, <2>1, <3>1, <4>1, <4>2, <4>4
        <4>5. CASE i # finish_tx
          BY <1>a, <2>1, <3>1, <4>1, <4>2, <4>3, <4>5
        <4> QED
          BY <4>4, <4>5
      <3>4. Kept' \in 0 .. TxN
        BY <1>a, <2>1, <3>1
      <3> QED
        BY <3>2, <3>3, <3>4 DEF SkbWindow, Ahead, Dist
    <2>5. XmitKnows' /\ QueueKnows'
      BY <2>0 DEF XmitKnows, QueueKnows, CpuInXmit
    <2>6. Reclaimed'
      BY <2>0 DEF Reclaimed, CpuInXmit
    <2>7. TxLogs'
      BY <2>0, <2>1 DEF TxLogs
    <2> QED
      BY <2>1, <2>2, <2>3, <2>4, <2>5, <2>6, <2>7
  <1>11. CASE TxIrqExit
    <2> USE <1>11 DEF TxIrqExit, txring, txhw, txlog
    <2>1. TxTypeOK'
      BY DEF TxTypeOK
    <2>2. DmaWindow'
      BY <1>a, <1>b DEF InFlight, NextOwn
    <2>3. SkbWindow'
      BY <1>a, <1>c DEF Kept, NextSkb
    <2>4. XmitKnows'
      BY <1>a DEF XmitKnows
    <2>5. Reclaimed'
      <3> SUFFICES ASSUME Len(onwire) > Len(freed_tx) PROVE FALSE
        BY <1>a DEF Reclaimed
      <3> DEFINE d == Len(onwire) - Len(freed_tx)
      <3>1. /\ d \in 1 .. Kept /\ Kept \in 1 .. TxN /\ InFlight \in 0 .. TxN
            /\ InFlight = IF xpc = "own" THEN Kept - d - 1 ELSE Kept - d
        BY <1>a DEF DmaWindow, SkbWindow, InFlight, Kept
      <3>2. tx_skb[finish_tx] # 0
        <4>1. Dist(finish_tx, finish_tx) = 0
          BY <1>a, DistFacts
        <4> QED
          BY <1>a, <3>1, <4>1 DEF SkbWindow
      <3>3. /\ Ahead(hw_tx, InFlight) = NextOwn /\ Ahead(finish_tx, Kept) = NextSkb
            /\ NextSkb = IF xpc = "own" THEN TxAdvance(NextOwn) ELSE NextOwn
        BY DEF DmaWindow, SkbWindow, NextSkb, NextOwn
      <3>4. Dist(hw_tx, finish_tx) >= InFlight
        <4> HIDE DEF d, TxInv, TxIrqExit
        <4> QED
          BY <1>a, <3>1, <3>3 DEF TxSlots, TxAdvance, Ahead, Dist
      <3>5. ~ tdesc[finish_tx].own
        <4>1. Dist(hw_tx, finish_tx) \in 0 .. TxN - 1
          BY <1>a, DistFacts
        <4> QED
          BY <1>a, <3>1, <3>4, <4>1 DEF DmaWindow
      <3> QED
        BY <3>2, <3>5 DEF Reclaimable
    <2>6. QueueKnows'
      BY DEF QueueKnows, CpuInXmit
    <2>7. TxLogs'
      BY DEF TxLogs
    <2> QED
      BY <2>1, <2>2, <2>3, <2>4, <2>5, <2>6, <2>7
  <1>12. CASE UNCHANGED txvars
    BY <1>12 DEF txvars, txring, txhw, txlog, TxTypeOK, DmaWindow, InFlight, NextOwn,
       SkbWindow, Kept, NextSkb, XmitKnows, Reclaimed, QueueKnows, CpuInXmit, TxLogs,
       Ahead, Dist
  <1> QED
    BY <1>1, <1>2, <1>3, <1>4, <1>5, <1>6, <1>7, <1>8, <1>9, <1>10, <1>11, <1>12
       DEF TxNext, Xmit, TxIrq, TxDma

\* The invariant holds in every reachable state.
THEOREM TxInvariant == TxSpec => []TxInv
  <1> QED
    BY TxInitInv, TxStepInv, PTL DEF TxSpec

\* The window of tx_skb says which buffers are in the ring: those accepted and
\* not freed, each once.
LEMMA SkbWindowFreesOnce == TxInv => TxFreedOnceInOrder
  <1> SUFFICES ASSUME TxInv PROVE TxFreedOnceInOrder
    OBVIOUS
  <1> DEFINE n == Len(freed_tx)
             inHand == IF xpc = "skb" THEN {nsent} ELSE {}
             kept == {tx_skb[i] : i \in TxSlots} \ {0}
  <1>1. /\ TxN \in Nat /\ TxN > 1 /\ finish_tx \in TxSlots
        /\ nsent \in Nat /\ n \in Nat /\ Kept \in 0 .. TxN
        /\ nsent = n + Kept + (IF xpc = "skb" THEN 1 ELSE 0)
    BY TxConstants DEF TxInv, TxTypeOK, SkbWindow, Kept
  <1>2. \A i \in TxSlots : /\ Dist(finish_tx, i) \in 0 .. TxN - 1
                           /\ tx_skb[i] = IF Dist(finish_tx, i) < Kept
                                          THEN n + Dist(finish_tx, i) + 1 ELSE 0
    BY <1>1, DistFacts DEF TxInv, SkbWindow
  <1>3. \A d \in 0 .. TxN - 1 : \E i \in TxSlots : Dist(finish_tx, i) = d
    <2> TAKE d \in 0 .. TxN - 1
    <2>1. Ahead(finish_tx, d) \in TxSlots
      BY <1>1 DEF Ahead, TxSlots
    <2>2. Dist(finish_tx, Ahead(finish_tx, d)) = d
      BY <1>1, <2>1, AheadFacts
    <2> QED
      BY <2>1, <2>2
  <1>4. kept = n + 1 .. n + Kept
    <2>1. ASSUME NEW b \in kept PROVE b \in n + 1 .. n + Kept
      <3>1. PICK i \in TxSlots : b = tx_skb[i] /\ b # 0
        OBVIOUS
      <3> QED
        BY <1>1, <1>2, <3>1
    <2>2. ASSUME NEW b \in n + 1 .. n + Kept PROVE b \in kept
      <3>1. b - n - 1 \in 0 .. TxN - 1 /\ b - n - 1 < Kept /\ b \in Nat /\ b # 0
        BY <1>1
      <3>2. PICK i \in TxSlots : Dist(finish_tx, i) = b - n - 1
        BY <1>3, <3>1
      <3>3. tx_skb[i] = b
        BY <1>1, <1>2, <3>1, <3>2
      <3> QED
        BY <3>1, <3>3
    <2> QED
      BY <2>1, <2>2
  <1>5. kept \cup inHand = n + 1 .. nsent /\ kept \cap inHand = {}
    <2> HIDE DEF kept, n
    <2> QED
      BY <1>1, <1>4
  <1>6. ASSUME NEW i \in TxSlots, NEW j \in TxSlots, tx_skb[i] # 0, tx_skb[i] = tx_skb[j]
        PROVE  i = j
    <2>1. Dist(finish_tx, i) = Dist(finish_tx, j)
      BY <1>1, <1>2, <1>6
    <2> QED
      BY <1>1, <2>1 DEF Dist, TxSlots
  <1>7. freed_tx = [k \in 1 .. n |-> k]
    BY DEF TxInv, TxLogs
  <1> QED
    BY <1>5, <1>6, <1>7 DEF TxFreedOnceInOrder

\* Every buffer nuc970_ether_start_xmit accepted is sent once, freed once and in
\* the order of acceptance, wherever the interrupt meets start_xmit, for every
\* ring size and number of buffers.
THEOREM TxSentAndFreedInOrder == TxSpec => []TxInOrder
  <1>1. TxInv => TxInOrder
    BY SkbWindowFreesOnce DEF TxInv, TxLogs, TxInOrder, TxOnWireInOrder
  <1> QED
    BY <1>1, TxInvariant, PTL

\* start_xmit is never called with its descriptor still at the DMA: the queue
\* that would lead to NETDEV_TX_BUSY is asleep.
THEOREM TxNeverBusy == TxSpec => []NeverBusy
  <1>1. TxInv => NeverBusy
    BY DEF TxInv, QueueKnows, NeverBusy
  <1> QED
    BY <1>1, TxInvariant, PTL

=============================================================================

----------------------------- MODULE CharProofs -----------------------------
(***************************************************************************)
(* Proofs about the drivers that take input sample by sample or character  *)
(* by character.                                                           *)
(*                                                                         *)
(* Pulse, for every number of channels, every threshold and every width of *)
(* the counters.                                                           *)
(*                                                                         *)
(* Keyboard, for every buffer length, every number of processes and all    *)
(* key sizes: the buffer is first in, first out, bytes are refused only by *)
(* a full buffer, no wake-up is lost and one-byte keys are never short.    *)
(*                                                                         *)
(* Uart, for every depth of the FIFOs, batch, buffer and number of         *)
(* characters: OutputIntact, OutputCovered and RxInOrder.                  *)
(***************************************************************************)
EXTENDS Pulse, Keyboard, Uart, SequenceTheorems, TLAPS

-----------------------------------------------------------------------------
\* The pulse counter.

\* What the static variables of a channel say about its signal: h1Flag means
\* that HighEnough high samples came since the last count, and then count_l is
\* the number of low samples since; without it count_h is the number of high
\* samples.  So neither counter wraps while its value matters.
CountersMeanSignal(c) ==
    /\ hFlag[c] <=> sig[c].highs = HighEnough
    /\ ~ hFlag[c] => count_h[c] = sig[c].highs /\ sig[c].lows = 0
    /\ hFlag[c] => ~ lFlag[c] /\ count_l[c] = sig[c].lows /\ count_l[c] <= LowMin

\* How the present run of samples relates to the samples since the last count.
RunsMeanSamples(c) ==
    /\ sig[c].level => /\ sig[c].high <= sig[c].highs
                    /\ sig[c].counted = 0 /\ sig[c].low = 0
    /\ sig[c].counted \in {0, 1}
    /\ sig[c].counted = 1 => ~ hFlag[c]
    /\ (~ sig[c].level /\ sig[c].high = HighEnough /\ sig[c].counted = 0)
            => hFlag[c] /\ sig[c].low <= sig[c].lows

PulseInv ==
    /\ PulseTypeOK
    /\ \A c \in Channels : CountersMeanSignal(c) /\ RunsMeanSamples(c)

-----------------------------------------------------------------------------
\* Before the first sample nothing has been seen.
LEMMA PulseInitInv == PulseInit => PulseInv
  BY PulseConstants
  DEF PulseInit, PulseInv, PulseTypeOK, CountersMeanSignal, RunsMeanSamples,
      Silent, HighEnough, LowEnough

\* x++ stays in the range of the type, and adds one unless it wraps.
LEMMA IncRange ==
  ASSUME NEW x \in 0 .. Wrap-1
  PROVE  Inc(x) \in 0 .. Wrap-1 /\ (x + 1 < Wrap => Inc(x) = x + 1)
  BY PulseConstants DEF Inc

\* One sample keeps the type of the variables.
LEMMA PulseStepType == PulseTypeOK /\ timer1_interrupt => PulseTypeOK'
  <1> SUFFICES ASSUME PulseTypeOK, timer1_interrupt PROVE PulseTypeOK'
    OBVIOUS
  <1> USE PulseConstants DEF PulseTypeOK, HighEnough, LowEnough
  <1>1. PICK high \in [Channels -> BOOLEAN] :
          /\ count_h' = [c \in Channels |-> CountH(c, high[c])]
          /\ count_l' = [c \in Channels |-> CountL(c, high[c])]
          /\ hFlag' = [c \in Channels |-> HFlag(c, high[c])]
          /\ lFlag' = [c \in Channels |-> LFlag(c, high[c])]
          /\ pulse_count' = [c \in Channels |-> PulseCount(c, high[c])]
          /\ sig' = [c \in Channels |->
                Observe(sig[c], high[c], pulse_count'[c] - pulse_count[c])]
    BY DEF timer1_interrupt
  <1>2. count_h' \in [Channels -> 0 .. Wrap-1]
    <2>1. \A c \in Channels : CountH(c, high[c]) \in 0 .. Wrap-1
      BY IncRange DEF CountH
    <2> QED
      BY <1>1, <2>1
  <1>3. count_l' \in [Channels -> 0 .. Wrap-1]
    <2>1. \A c \in Channels : CountL(c, high[c]) \in 0 .. Wrap-1
      BY IncRange DEF CountL
    <2> QED
      BY <1>1, <2>1
  <1>4. hFlag' \in [Channels -> BOOLEAN]
    BY <1>1 DEF HFlag
  <1>5. lFlag' \in [Channels -> BOOLEAN]
    BY <1>1 DEF LFlag
  <1>6. /\ pulse_count' \in [Channels -> Nat]
        /\ \A c \in Channels : pulse_count'[c] - pulse_count[c] \in {0, 1}
    BY <1>1 DEF PulseCount
  <1>7. \A c \in Channels :
          Observe(sig[c], high[c], pulse_count'[c] - pulse_count[c])
            \in [level : BOOLEAN, low : 0 .. LowEnough,
                 high : 0 .. HighEnough, highs : 0 .. HighEnough,
                 lows : 0 .. LowEnough, counted : Nat]
    BY <1>6 DEF Observe, Upto
  <1> QED
    BY <1>1, <1>2, <1>3, <1>4, <1>5, <1>6, <1>7

\* One sample keeps the meaning of the variables.
LEMMA PulseStepInv == PulseInv /\ [PulseNext]_pvars => PulseInv'
  <1> SUFFICES ASSUME PulseInv, [PulseNext]_pvars PROVE PulseInv'
    OBVIOUS
  <1>1. CASE timer1_interrupt
    <2>1. PulseTypeOK /\ PulseTypeOK'
      BY <1>1, PulseStepType DEF PulseInv
    <2>2. ASSUME NEW c \in Channels
          PROVE  (CountersMeanSignal(c) /\ RunsMeanSamples(c))'
      <3>1. PICK high \in BOOLEAN :
              /\ count_h'[c] = CountH(c, high) /\ count_l'[c] = CountL(c, high)
              /\ (hFlag'[c] <=> HFlag(c, high)) /\ (lFlag'[c] <=> LFlag(c, high))
              /\ pulse_count'[c] = PulseCount(c, high)
              /\ sig'[c] = Observe(sig[c], high, pulse_count'[c] - pulse_count[c])
        BY <1>1 DEF timer1_interrupt
      <3>2. CountersMeanSignal(c) /\ RunsMeanSamples(c)
        BY DEF PulseInv
      <3>3. /\ count_h[c] \in 0 .. Wrap-1 /\ count_l[c] \in 0 .. Wrap-1
            /\ hFlag[c] \in BOOLEAN /\ lFlag[c] \in BOOLEAN
            /\ pulse_count[c] \in Nat /\ sig[c].level \in BOOLEAN
            /\ sig[c].low \in 0 .. LowEnough /\ sig[c].high \in 0 .. HighEnough
            /\ sig[c].highs \in 0 .. HighEnough /\ sig[c].lows \in 0 .. LowEnough
            /\ sig[c].counted \in Nat
        BY <2>1 DEF PulseTypeOK
      <3> USE PulseConstants, <3>1, <3>2, <3>3
          DEF HighEnough, LowEnough, CountersMeanSignal, RunsMeanSamples
      <3>4. CASE high
        <4>1. /\ sig'[c].level /\ sig'[c].counted = 0 /\ sig'[c].low = 0
              /\ sig'[c].lows = sig[c].lows
              /\ sig'[c].highs = Upto(sig[c].highs, HighEnough)
              /\ sig'[c].high = IF sig[c].level THEN Upto(sig[c].high, HighEnough) ELSE 1
          BY <3>4 DEF Observe
        <4>2. CountersMeanSignal(c)'
          <5>1. /\ count_h'[c] = Inc(count_h[c])
                /\ count_l'[c] = IF Arms(c) THEN 0 ELSE count_l[c]
            BY <3>4 DEF CountH, CountL
          <5>2. (hFlag'[c] <=> hFlag[c] \/ Arms(c)) /\ (lFlag'[c] <=> lFlag[c] /\ ~ Arms(c))
            BY <3>4 DEF HFlag, LFlag
          <5>3. CASE hFlag[c]
            <6>1. ~ Arms(c) /\ sig'[c].highs = HighEnough
              BY <4>1, <5>3 DEF Arms, Upto
            <6> QED
              BY <4>1, <5>1, <5>2, <5>3, <6>1
          <5>4. CASE Arms(c)
            <6>1. sig'[c].highs = HighEnough /\ sig[c].lows = 0
              BY <4>1, <5>4 DEF Arms, Upto
            <6> QED
              BY <4>1, <5>1, <5>2, <5>4, <6>1
          <5>5. CASE ~ hFlag[c] /\ ~ Arms(c)
            <6>1. /\ count_h'[c] = count_h[c] + 1 /\ sig'[c].highs = sig[c].highs + 1
                  /\ sig'[c].highs # HighEnough
              BY <4>1, <5>1, <5>5, IncRange DEF Arms, Upto
            <6> QED
              BY <4>1, <5>1, <5>2, <5>5, <6>1
          <5> QED
            BY <5>3, <5>4, <5>5
        <4>3. RunsMeanSamples(c)'
          BY <4>1 DEF Upto
        <4> QED
          BY <4>2, <4>3
      <3>5. CASE ~ high /\ Counts(c)
        BY <3>5 DEF CountH, CountL, HFlag, LFlag, PulseCount, Counts, LowSeen, Inc,
                    Observe, Upto
      <3>6. CASE ~ high /\ ~ Counts(c)
        <4>1. /\ ~ sig'[c].level /\ sig'[c].high = sig[c].high
              /\ sig'[c].highs = sig[c].highs
              /\ sig'[c].low = Upto(sig[c].low, LowEnough)
              /\ sig'[c].lows = IF sig[c].highs < HighEnough THEN 0
                                ELSE Upto(sig[c].lows, LowEnough)
              /\ sig'[c].counted = IF sig[c].level THEN 0 ELSE sig[c].counted
          BY <3>6 DEF Observe, PulseCount
        <4>2. CountersMeanSignal(c)'
          BY <3>6, <4>1, IncRange DEF CountH, CountL, HFlag, LFlag, Counts, LowSeen, Upto
        <4>3. RunsMeanSamples(c)'
          BY <3>6, <4>1 DEF HFlag, Upto
        <4> QED
          BY <4>2, <4>3
      <3> QED
        BY <3>4, <3>5, <3>6
    <2> QED
      BY <2>1, <2>2 DEF PulseInv
  <1>2. CASE UNCHANGED pvars
    BY <1>2 DEF PulseInv, PulseTypeOK, CountersMeanSignal, RunsMeanSamples, pvars, code
  <1> QED
    BY <1>1, <1>2 DEF PulseNext

\* The inductive invariant holds of every execution of the pulse counter.
THEOREM PulseInvariant == PulseSpec => []PulseInv
  BY PulseInitInv, PulseStepInv, PTL DEF PulseSpec

\* Every clean pulse is counted exactly once, for every threshold and every
\* counter width, whatever came before it (timer1_interrupt).
THEOREM CleanPulsesCounted == PulseSpec => []CleanPulseCounted
  <1>1. PulseInv => CleanPulseCounted
    <2> SUFFICES ASSUME PulseInv, NEW c \in Channels,
                        ~ sig[c].level, sig[c].high = HighEnough,
                        sig[c].low = LowEnough
                 PROVE  sig[c].counted = 1
      BY DEF CleanPulseCounted
    <2>1. CountersMeanSignal(c) /\ RunsMeanSamples(c) /\ sig[c].lows \in 0 .. LowEnough
      BY DEF PulseInv, PulseTypeOK
    <2> QED
      BY <2>1, PulseConstants DEF CountersMeanSignal, RunsMeanSamples, LowEnough
  <1> QED
    BY <1>1, PulseInvariant, PTL

\* No low run is counted twice.
THEOREM LowRunsCountedOnce == PulseSpec => []OncePerLowRun
  <1>1. PulseInv => OncePerLowRun
    <2> SUFFICES ASSUME PulseInv, NEW c \in Channels PROVE sig[c].counted <= 1
      BY DEF OncePerLowRun
    <2>1. sig[c].counted \in {0, 1}
      BY DEF PulseInv, RunsMeanSamples
    <2> QED
      BY <2>1
  <1> QED
    BY <1>1, PulseInvariant, PTL

\* A pulse is counted only after enough high and then enough low samples.
THEOREM CountsNeedSamples == PulseSpec => CountNeedsSamples
  <1>1. PulseInv /\ [PulseNext]_pvars =>
          [\A c \in Channels : pulse_count'[c] # pulse_count[c] =>
              /\ sig[c].highs = HighEnough
              /\ Upto(sig[c].lows, LowEnough) = LowEnough]_pvars
    <2> SUFFICES ASSUME PulseInv, timer1_interrupt, NEW c \in Channels,
                        pulse_count'[c] # pulse_count[c]
                 PROVE  /\ sig[c].highs = HighEnough
                        /\ Upto(sig[c].lows, LowEnough) = LowEnough
      BY DEF PulseNext
    <2>1. Counts(c)
      BY DEF timer1_interrupt, PulseCount
    <2>2. CountersMeanSignal(c) /\ count_l[c] \in 0 .. Wrap-1
          /\ sig[c].lows \in 0 .. LowEnough
      BY DEF PulseInv, PulseTypeOK
    <2> QED
      BY <2>1, <2>2, PulseConstants
      DEF CountersMeanSignal, Counts, LowSeen, Inc, Upto, LowEnough
  <1> QED
    BY <1>1, PulseInvariant, PTL DEF PulseSpec, CountNeedsSamples

-----------------------------------------------------------------------------
\* The keyboard.

\* Only a process on the queue sleeps, and only while there is nothing to read
\* or the timer has yet to wake it.
Sleepers ==
    /\ \A p \in Procs : pc[p] = "asleep" => p \in queue
    /\ NoSleepOnData

\* A process that copies has the lock alone, has found data, and its two
\* counters add up to the size of a key.
Copying ==
    \A p \in Procs : pc[p] = "get" =>
        /\ ipc = "idle"
        /\ \A q \in Procs \ {p} : pc[q] # "get"
        /\ ret[p] + want[p] = size[p] /\ size[p] > 0
        /\ ret[p] = 0 => NotEmpty

KeySizes == \A p \in Procs : size[p] > 0

KbInv ==
    /\ KbTypeOK
    /\ BytesInOrder
    /\ Sleepers
    /\ Copying
    /\ KeySizes
    /\ NoShortKey

-----------------------------------------------------------------------------
(* The index arithmetic of linux/circ_buf.h, without division. *)

\* & (KB_BUF_LEN - 1) on the numbers it is applied to.
LEMMA MaskIs ==
  ASSUME NEW x \in Int, -N < x, x < N + N
  PROVE  Mask(x) = IF x < 0 THEN x + N ELSE IF x < N THEN x ELSE x - N
  BY KbConstants DEF Mask

\* CIRC_CNT
LEMMA AvailIs ==
  ASSUME head \in Index, tail \in Index
  PROVE  /\ Avail = IF tail <= head THEN head - tail ELSE head - tail + N
         /\ Avail \in 0 .. N-1
  BY MaskIs, KbConstants DEF Avail, Index

\* CIRC_CNT_TO_END
LEMMA CntIs ==
  ASSUME head \in Index, tail \in Index
  PROVE  CntToEnd = IF tail <= head THEN head - tail ELSE N - tail
  BY MaskIs, KbConstants DEF CntToEnd, Index

\* CIRC_SPACE_TO_END
LEMMA SpaceIs ==
  ASSUME head \in Index, tail \in Index
  PROVE  SpaceToEnd = IF head < tail THEN tail - 1 - head
                      ELSE IF tail = 0 THEN N - 1 - head ELSE N - head
  BY MaskIs, KbConstants DEF SpaceToEnd, Index

\* An index i places after t.
LEMMA MaskSum ==
  ASSUME NEW t \in Index, NEW i \in Index
  PROVE  /\ Mask(t + i) = IF t + i < N THEN t + i ELSE t + i - N
         /\ Mask(t + i) \in Index
  BY MaskIs, KbConstants DEF Index

-----------------------------------------------------------------------------
(* The copy loops. *)

\* An iteration of kb_buf_put that copies c bytes.
PutChunk(c) ==
    /\ 0 < c /\ c <= SpaceToEnd
    /\ buf' = [i \in Index |-> IF i \in head .. head+c-1
                               THEN accepted + 1 + (i - head) ELSE buf[i]]
    /\ head' = Mask(head + c) /\ accepted' = accepted + c
    /\ tail' = tail /\ out' = out

\* An iteration of kb_buf_get that copies c bytes.
GetChunk(c) ==
    /\ 0 < c /\ c <= CntToEnd
    /\ out' = out \o [i \in 1 .. c |-> buf[tail + i - 1]]
    /\ tail' = Mask(tail + c)
    /\ buf' = buf /\ head' = head /\ accepted' = accepted

\* An iteration of kb_buf_put that copies keeps the bytes in order.
LEMMA PutKeepsOrder ==
  ASSUME KbTypeOK, BytesInOrder, NEW c \in Nat, PutChunk(c)
  PROVE  /\ buf' \in [Index -> Nat] /\ head' \in Index /\ accepted' \in Nat
         /\ Avail' = Avail + c /\ BytesInOrder'
  <1> USE KbConstants
  <1>1. head \in Index /\ tail \in Index /\ accepted \in Nat /\ Len(out) \in Nat
        /\ buf \in [Index -> Nat]
    BY DEF KbTypeOK
  <1>2. /\ 0 < c /\ head + c <= N
        /\ head' = IF head + c = N THEN 0 ELSE head + c
        /\ (IF head < tail THEN c <= tail - 1 - head ELSE tail = 0 => c <= N - 1 - head)
    BY <1>1, SpaceIs, MaskIs DEF PutChunk, Index
  <1>3. head' \in Index
    BY <1>1, <1>2 DEF Index
  <1>4. /\ Avail = IF tail <= head THEN head - tail ELSE head - tail + N
        /\ Avail \in Index
    BY <1>1, AvailIs DEF Index
  <1>5. /\ Avail' = IF tail <= head' THEN head' - tail ELSE head' - tail + N
        /\ Avail' \in Index
    <2>1. Avail' = Mask(head' - tail)
      BY DEF Avail, Mask, PutChunk
    <2> QED
      BY <1>1, <1>3, <2>1, MaskIs, SMTT(60) DEF Index
  <1>6. Avail' = Avail + c
    BY <1>1, <1>2, <1>4, <1>5 DEF Index
  <1>7. buf' \in [Index -> Nat] /\ accepted' \in Nat
    BY <1>1 DEF PutChunk, Index
  <1>8. ASSUME NEW i \in Index, i < Avail'
        PROVE  buf'[Mask(tail + i)] = Len(out) + i + 1
    <2>1. /\ Mask(tail + i) = IF tail + i < N THEN tail + i ELSE tail + i - N
          /\ Mask(tail + i) \in Index
      BY <1>1, MaskSum
    <2>2. buf'[Mask(tail + i)] = IF Mask(tail + i) \in head .. head+c-1
                                 THEN accepted + 1 + (Mask(tail + i) - head)
                                 ELSE buf[Mask(tail + i)]
      BY <2>1 DEF PutChunk
    <2>3. CASE i < Avail
      <3>1. ~ (Mask(tail + i) \in head .. head+c-1)
        BY <1>1, <1>2, <1>4, <2>1, <2>3, SMTT(30) DEF Index
      <3>2. buf[Mask(tail + i)] = Len(out) + i + 1
        BY <1>4, <2>3 DEF BytesInOrder, Index
      <3> QED
        BY <2>2, <3>1, <3>2
    <2>4. CASE ~ (i < Avail)
      <3>1. Mask(tail + i) = head + (i - Avail)
        BY <1>1, <1>2, <1>4, <1>6, <1>8, <2>1, <2>4, SMTT(60) DEF Index
      <3>2. Mask(tail + i) \in head .. head+c-1
        BY <1>1, <1>4, <1>6, <1>8, <2>4, <3>1 DEF Index
      <3>3. accepted = Len(out) + Avail
        BY DEF BytesInOrder
      <3>4. buf'[Mask(tail + i)] = accepted + 1 + (Mask(tail + i) - head)
        BY <2>2, <3>2
      <3>5. head \in Int /\ Len(out) \in Int /\ Avail \in Int /\ i \in Int
        BY <1>1, <1>4 DEF Index
      <3> QED
        BY <3>1, <3>3, <3>4, <3>5
    <2> QED
      BY <2>3, <2>4
  <1>9. accepted' = Len(out) + Avail'
    BY <1>1, <1>4, <1>6 DEF BytesInOrder, PutChunk, Index
  <1>10. \A i \in 0 .. Avail'-1 : buf'[Mask(tail + i)] = Len(out) + i + 1
    BY <1>5, <1>8 DEF Index
  <1>11. BytesInOrder'
    BY <1>9, <1>10 DEF BytesInOrder, PutChunk, Mask
  <1> QED
    BY <1>3, <1>6, <1>7, <1>11

\* An iteration of kb_buf_get that copies keeps the bytes in order.
LEMMA GetKeepsOrder ==
  ASSUME KbTypeOK, BytesInOrder, NEW c \in Nat, GetChunk(c)
  PROVE  /\ tail' \in Index /\ out' \in Seq(Nat)
         /\ Avail' = Avail - c /\ BytesInOrder'
  <1> USE KbConstants
  <1> DEFINE chunk == [i \in 1 .. c |-> buf[tail + i - 1]]
  <1>1. head \in Index /\ tail \in Index /\ accepted \in Nat /\ Len(out) \in Nat
        /\ buf \in [Index -> Nat] /\ out \in Seq(Nat)
    BY DEF KbTypeOK
  <1>2. /\ 0 < c /\ tail + c <= N
        /\ tail' = IF tail + c = N THEN 0 ELSE tail + c
        /\ tail <= head => c <= head - tail
    BY <1>1, CntIs, MaskIs DEF GetChunk, Index
  <1>3. tail' \in Index
    BY <1>1, <1>2 DEF Index
  <1>4. /\ Avail = IF tail <= head THEN head - tail ELSE head - tail + N
        /\ Avail \in Index
    BY <1>1, AvailIs DEF Index
  <1>5. /\ Avail' = IF tail' <= head THEN head - tail' ELSE head - tail' + N
        /\ Avail' \in Index
    <2>1. Avail' = Mask(head - tail')
      BY DEF Avail, Mask, GetChunk
    <2> QED
      BY <1>1, <1>3, <2>1, MaskIs, SMTT(60) DEF Index
  <1>6. Avail' = Avail - c /\ c <= Avail
    BY <1>1, <1>2, <1>4, <1>5 DEF Index
  <1>7. chunk \in Seq(Nat) /\ Len(chunk) = c
    BY <1>1, <1>2 DEF Index
  <1>8. \A i \in 1 .. c : chunk[i] = Len(out) + i
    <2> SUFFICES ASSUME NEW i \in 1 .. c PROVE buf[tail + i - 1] = Len(out) + i
      OBVIOUS
    <2>1. i - 1 \in Index /\ i - 1 < Avail /\ tail + (i - 1) < N
      BY <1>1, <1>2, <1>4, <1>6 DEF Index
    <2>2. Mask(tail + (i - 1)) = tail + i - 1
      BY <1>1, <2>1, MaskSum DEF Index
    <2>3. buf[Mask(tail + (i - 1))] = Len(out) + (i - 1) + 1
      BY <1>4, <2>1 DEF BytesInOrder, Index
    <2> QED
      BY <1>1, <2>2, <2>3
  <1>9. /\ out' \in Seq(Nat) /\ Len(out') = Len(out) + c
        /\ \A i \in 1 .. Len(out') :
              out'[i] = IF i <= Len(out) THEN out[i] ELSE chunk[i - Len(out)]
    BY <1>1, <1>7 DEF GetChunk
  <1> HIDE DEF chunk
  <1>10. \A i \in 1 .. Len(out') : out'[i] = i
    <2> SUFFICES ASSUME NEW i \in 1 .. Len(out') PROVE out'[i] = i
      OBVIOUS
    <2>1. CASE i <= Len(out)
      BY <1>1, <1>9, <2>1, SMTT(60) DEF BytesInOrder
    <2>2. CASE ~ (i <= Len(out))
      <3>1. i - Len(out) \in 1 .. c
        BY <1>1, <1>9, <2>2
      <3>2. chunk[i - Len(out)] = Len(out) + (i - Len(out))
        BY <1>8, <3>1
      <3> QED
        BY <1>1, <1>9, <2>2, <3>2
    <2> QED
      BY <2>1, <2>2
  <1>11. ASSUME NEW i \in Index, i < Avail'
         PROVE  buf[Mask(tail' + i)] = Len(out') + i + 1
    <2>1. c + i \in Index /\ c + i < Avail
      BY <1>4, <1>6, <1>11 DEF Index
    <2>2. Mask(tail' + i) = Mask(tail + (c + i))
      <3>1. Mask(tail' + i) = IF tail' + i < N THEN tail' + i ELSE tail' + i - N
        BY <1>3, MaskSum
      <3>2. Mask(tail + (c + i)) = IF tail + (c + i) < N THEN tail + (c + i)
                                   ELSE tail + (c + i) - N
        BY <1>1, <2>1, MaskSum
      <3>3. tail \in Int /\ tail < N /\ i \in Int /\ 0 <= i /\ i < N /\ N \in Int
        BY <1>1 DEF Index
      <3> QED
        BY <1>2, <3>1, <3>2, <3>3
    <2>3. buf[Mask(tail + (c + i))] = Len(out) + (c + i) + 1
      BY <1>4, <2>1 DEF BytesInOrder, Index
    <2> QED
      BY <1>1, <1>9, <2>2, <2>3 DEF Index
  <1>12. accepted = Len(out') + Avail'
    <2>1. accepted = Len(out) + Avail
      BY DEF BytesInOrder
    <2>2. Len(out) \in Int /\ Avail \in Int /\ Len(out') = Len(out) + c
      BY <1>1, <1>4, <1>9 DEF Index
    <2> QED
      BY <1>6, <2>1, <2>2
  <1>13. \A i \in 0 .. Avail'-1 : buf[Mask(tail' + i)] = Len(out') + i + 1
    BY <1>5, <1>11 DEF Index
  <1>14. BytesInOrder'
    BY <1>10, <1>12, <1>13 DEF BytesInOrder, GetChunk, Mask
  <1> QED
    BY <1>3, <1>6, <1>9, <1>14

-----------------------------------------------------------------------------
(* The inductive invariant. *)

\* A step that leaves buffer and output alone keeps the bytes in order.
LEMMA RingUnchanged ==
  ASSUME BytesInOrder, UNCHANGED <<ring, out>>
  PROVE  BytesInOrder' /\ Avail' = Avail
  BY DEF BytesInOrder, Avail, Mask, ring

LEMMA KbInitInv == KbInit => KbInv
  <1> SUFFICES ASSUME KbInit PROVE KbInv
    OBVIOUS
  <1> USE KbConstants DEF KbInit
  <1>1. KbTypeOK
    <2>1. buf \in [Index -> Nat] /\ head \in Index /\ tail \in Index /\ out \in Seq(Nat)
      BY DEF Index
    <2> QED
      BY <2>1 DEF KbTypeOK, Steps
  <1>2. Avail = 0
    BY AvailIs DEF Index
  <1>3. BytesInOrder
    BY <1>2 DEF BytesInOrder
  <1> QED
    BY <1>1, <1>2, <1>3
    DEF KbInv, Sleepers, NoSleepOnData, Copying, KeySizes, NoShortKey,
        NotEmpty

LEMMA KbStepInv == KbInv /\ [KbNext]_kbvars => KbInv'
  <1> SUFFICES ASSUME KbInv, [KbNext]_kbvars PROVE KbInv'
    OBVIOUS
  <1> USE KbConstants
  <1> USE DEF KbInv
  <1>1. ASSUME NEW k \in KeyStates, Scan(k) PROVE KbInv'
    <2> USE <1>1 DEF Scan, Insert, ring, reader, file
    <2>1. KbTypeOK'
      BY DEF KbTypeOK
    <2>2. BytesInOrder' /\ Avail' = Avail
      BY RingUnchanged
    <2> QED
      BY <2>1, <2>2 DEF Sleepers, NoSleepOnData, Copying, KeySizes, NoShortKey, NotEmpty, TimerRuns
  <1>2. ASSUME NEW k \in CustomSizes, CustomKey(k) PROVE KbInv'
    <2> USE <1>2 DEF CustomKey, Insert, ring, reader, file
    <2>1. KbTypeOK'
      BY DEF KbTypeOK
    <2>2. BytesInOrder' /\ Avail' = Avail
      BY RingUnchanged
    <2> QED
      BY <2>1, <2>2 DEF Sleepers, NoSleepOnData, Copying, KeySizes, NoShortKey, NotEmpty, TimerRuns
  <1>3. CASE kb_buf_put
    <2> DEFINE c == Smaller(left, SpaceToEnd)
    <2> USE <1>3
    <2>1. c \in Int /\ c <= left /\ c <= SpaceToEnd
      BY SpaceIs DEF Smaller, KbTypeOK, Index
    <2>2. CASE c <= 0
      <3> USE <2>2 DEF kb_buf_put, ring, reader, file
      <3>1. KbTypeOK'
        BY DEF KbTypeOK
      <3>2. BytesInOrder' /\ Avail' = Avail
        BY RingUnchanged
      <3> QED
        BY <3>1, <3>2 DEF Sleepers, NoSleepOnData, Copying, KeySizes, NoShortKey, NotEmpty
    <2>3. CASE ~ (c <= 0)
      <3>1. PutChunk(c) /\ c \in Nat
        BY <2>1, <2>3 DEF kb_buf_put, PutChunk
      <3>2. /\ buf' \in [Index -> Nat] /\ head' \in Index /\ accepted' \in Nat
            /\ Avail' = Avail + c /\ BytesInOrder'
        BY <3>1, PutKeepsOrder
      <3>3. left' = left - c /\ UNCHANGED <<tail, ipc, refused>> /\ ipc = "put"
            /\ UNCHANGED <<key_i_last, queue, pc, size, ret, want, res, holders, is_open, out>>
        BY <2>3 DEF kb_buf_put, reader, file
      <3>4. KbTypeOK'
        <4>1. left' \in Nat
          BY <2>1, <3>3 DEF KbTypeOK
        <4> QED
          BY <3>2, <3>3, <4>1 DEF KbTypeOK
      <3> QED
        BY <3>2, <3>3, <3>4 DEF Sleepers, NoSleepOnData, Copying, KeySizes, NoShortKey, NotEmpty
    <2> QED
      BY <2>2, <2>3
  <1>4. CASE WakeUp
    <2> USE <1>4 DEF WakeUp, ring, reader, file
    <2>1. KbTypeOK'
      BY DEF KbTypeOK, Steps
    <2>2. BytesInOrder' /\ Avail' = Avail
      BY RingUnchanged
    <2> QED
      BY <2>1, <2>2 DEF Sleepers, NoSleepOnData, Copying, KeySizes, NoShortKey, NotEmpty, KbTypeOK
  <1>5. ASSUME NEW p \in Procs, kb_open(p) PROVE KbInv'
    <2> USE <1>5 DEF kb_open, Runs, Goto, Return, ring, timer, reader, file
    <2>1. KbTypeOK'
      BY DEF KbTypeOK, Steps
    <2>2. BytesInOrder' /\ Avail' = Avail
      BY RingUnchanged
    <2>3. Sleepers'
      BY <2>2 DEF KbTypeOK, Sleepers, NoSleepOnData, NotEmpty
    <2>4. Copying' /\ KeySizes'
      BY <2>2 DEF KbTypeOK, Copying, KeySizes, NotEmpty
    <2>5. NoShortKey'
      BY DEF KbTypeOK, NoShortKey
    <2> QED
      BY <2>1, <2>2, <2>3, <2>4, <2>5
  <1>6. ASSUME NEW p \in Procs, Close(p) PROVE KbInv'
    <2> USE <1>6 DEF Close, Runs, Goto, Return, ring, timer, reader, file
    <2>1. KbTypeOK'
      BY DEF KbTypeOK, Steps
    <2>2. BytesInOrder' /\ Avail' = Avail
      BY RingUnchanged
    <2>3. Sleepers'
      BY <2>2 DEF KbTypeOK, Sleepers, NoSleepOnData, NotEmpty
    <2>4. Copying' /\ KeySizes'
      BY <2>2 DEF KbTypeOK, Copying, KeySizes, NotEmpty
    <2>5. NoShortKey'
      BY DEF KbTypeOK, NoShortKey
    <2> QED
      BY <2>1, <2>2, <2>3, <2>4, <2>5
  <1>7. ASSUME NEW p \in Procs, NEW q \in Procs, Fork(p, q) PROVE KbInv'
    <2> USE <1>7 DEF Fork, Runs, Goto, Return, ring, timer, reader, file
    <2>1. KbTypeOK'
      BY DEF KbTypeOK, Steps
    <2>2. BytesInOrder' /\ Avail' = Avail
      BY RingUnchanged
    <2>3. Sleepers'
      BY <2>2 DEF KbTypeOK, Sleepers, NoSleepOnData, NotEmpty
    <2>4. Copying' /\ KeySizes'
      BY <2>2 DEF KbTypeOK, Copying, KeySizes, NotEmpty
    <2>5. NoShortKey'
      BY DEF KbTypeOK, NoShortKey
    <2> QED
      BY <2>1, <2>2, <2>3, <2>4, <2>5
  <1>8. ASSUME NEW p \in Procs, NEW m \in ReadSizes, ReadEnter(p, m) PROVE KbInv'
    <2> USE <1>8 DEF ReadEnter, Runs, Goto, Return, ring, timer, reader, file
    <2>1. KbTypeOK'
      BY DEF KbTypeOK, Steps
    <2>2. BytesInOrder' /\ Avail' = Avail
      BY RingUnchanged
    <2>3. Sleepers'
      BY <2>2 DEF KbTypeOK, Sleepers, NoSleepOnData, NotEmpty
    <2>4. Copying' /\ KeySizes'
      BY <2>2 DEF KbTypeOK, Copying, KeySizes, NotEmpty
    <2>5. NoShortKey'
      BY DEF KbTypeOK, NoShortKey
    <2> QED
      BY <2>1, <2>2, <2>3, <2>4, <2>5
  <1>9. ASSUME NEW p \in Procs, ReadLocked(p) PROVE KbInv'
    <2> USE <1>9
    <2>1. BytesInOrder' /\ Avail' = Avail
      BY RingUnchanged DEF ReadLocked, ring
    <2>2. CASE NotEmpty
      <3>1. /\ pc' = [pc EXCEPT ![p] = "get"] /\ want' = [want EXCEPT ![p] = size[p]]
            /\ ret' = [ret EXCEPT ![p] = 0] /\ ipc = "idle"
            /\ \A q \in Procs \ {p} : pc[q] # "get"
            /\ UNCHANGED <<ring, timer, queue, size, res, file, out>>
        BY <2>2 DEF ReadLocked, Runs, Goto
      <3>2. KbTypeOK'
        BY <3>1 DEF KbTypeOK, Steps, ring, timer, file
      <3>3. Sleepers'
        BY <2>1, <3>1 DEF KbTypeOK, Sleepers, NoSleepOnData, NotEmpty, timer
      <3>4. Copying' /\ KeySizes'
        <4>1. ret'[p] = 0 /\ want'[p] = size[p] /\ ret'[p] + want'[p] = size[p]
          BY <3>1 DEF KbTypeOK
        <4> QED
          BY <2>1, <2>2, <3>1, <4>1 DEF KbTypeOK, Copying, KeySizes, NotEmpty, timer
      <3> QED
        BY <2>1, <3>1, <3>2, <3>3, <3>4 DEF NoShortKey, file
    <2>3. CASE ~ NotEmpty
      <3>1. /\ \/ pc' = [pc EXCEPT ![p] = "user"] /\ res' = [res EXCEPT ![p] = "EAGAIN"]
               \/ pc' = [pc EXCEPT ![p] = "cond"] /\ res' = res
            /\ UNCHANGED <<ring, timer, queue, size, ret, want, file, out>>
        BY <2>3 DEF ReadLocked, Goto, Return
      <3>2. KbTypeOK'
        BY <3>1 DEF KbTypeOK, Steps, ring, timer, file
      <3>3. Sleepers'
        BY <2>1, <3>1 DEF KbTypeOK, Sleepers, NoSleepOnData, NotEmpty, timer
      <3>4. Copying' /\ KeySizes'
        BY <2>1, <3>1 DEF KbTypeOK, Copying, KeySizes, NotEmpty, timer
      <3> QED
        BY <2>1, <3>1, <3>2, <3>3, <3>4 DEF KbTypeOK, NoShortKey, file
    <2> QED
      BY <2>2, <2>3
  <1>10. ASSUME NEW p \in Procs, WaitTest(p) PROVE KbInv'
    <2> USE <1>10 DEF WaitTest, Runs, Goto, Return, ring, timer, reader, file
    <2>1. KbTypeOK'
      BY DEF KbTypeOK, Steps
    <2>2. BytesInOrder' /\ Avail' = Avail
      BY RingUnchanged
    <2>3. Sleepers'
      BY <2>2 DEF KbTypeOK, Sleepers, NoSleepOnData, NotEmpty
    <2>4. Copying' /\ KeySizes'
      BY <2>2 DEF KbTypeOK, Copying, KeySizes, NotEmpty
    <2>5. NoShortKey'
      BY DEF KbTypeOK, NoShortKey
    <2> QED
      BY <2>1, <2>2, <2>3, <2>4, <2>5
  <1>11. ASSUME NEW p \in Procs, WaitPrepare(p) PROVE KbInv'
    <2> USE <1>11 DEF WaitPrepare, Runs, Goto, Return, ring, timer, reader, file
    <2>1. KbTypeOK'
      BY DEF KbTypeOK, Steps
    <2>2. BytesInOrder' /\ Avail' = Avail
      BY RingUnchanged
    <2>3. Sleepers'
      BY <2>2 DEF KbTypeOK, Sleepers, NoSleepOnData, NotEmpty
    <2>4. Copying' /\ KeySizes'
      BY <2>2 DEF KbTypeOK, Copying, KeySizes, NotEmpty
    <2>5. NoShortKey'
      BY DEF KbTypeOK, NoShortKey
    <2> QED
      BY <2>1, <2>2, <2>3, <2>4, <2>5
  <1>12. ASSUME NEW p \in Procs, WaitRecheck(p) PROVE KbInv'
    <2> USE <1>12 DEF WaitRecheck, Runs, Goto, Return, ring, timer, reader, file
    <2>1. KbTypeOK'
      BY DEF KbTypeOK, Steps
    <2>2. BytesInOrder' /\ Avail' = Avail
      BY RingUnchanged
    <2>3. Sleepers'
      BY <2>2 DEF KbTypeOK, Sleepers, NoSleepOnData, NotEmpty
    <2>4. Copying' /\ KeySizes'
      BY <2>2 DEF KbTypeOK, Copying, KeySizes, NotEmpty
    <2>5. NoShortKey'
      BY DEF KbTypeOK, NoShortKey
    <2> QED
      BY <2>1, <2>2, <2>3, <2>4, <2>5
  <1>13. ASSUME NEW p \in Procs, WaitSignal(p) PROVE KbInv'
    <2> USE <1>13 DEF WaitSignal, Runs, Goto, Return, ring, timer, reader, file
    <2>1. KbTypeOK'
      BY DEF KbTypeOK, Steps
    <2>2. BytesInOrder' /\ Avail' = Avail
      BY RingUnchanged
    <2>3. Sleepers'
      BY <2>2 DEF KbTypeOK, Sleepers, NoSleepOnData, NotEmpty
    <2>4. Copying' /\ KeySizes'
      BY <2>2 DEF KbTypeOK, Copying, KeySizes, NotEmpty
    <2>5. NoShortKey'
      BY DEF KbTypeOK, NoShortKey
    <2> QED
      BY <2>1, <2>2, <2>3, <2>4, <2>5
  <1>14. ASSUME NEW p \in Procs, CopyToUser(p) PROVE KbInv'
    <2> USE <1>14 DEF CopyToUser, Runs, Goto, Return, ring, timer, reader, file
    <2>1. KbTypeOK'
      BY DEF KbTypeOK, Steps
    <2>2. BytesInOrder' /\ Avail' = Avail
      BY RingUnchanged
    <2>3. Sleepers'
      BY <2>2 DEF KbTypeOK, Sleepers, NoSleepOnData, NotEmpty
    <2>4. Copying' /\ KeySizes'
      BY <2>2 DEF KbTypeOK, Copying, KeySizes, NotEmpty
    <2>5. NoShortKey'
      BY DEF KbTypeOK, NoShortKey
    <2> QED
      BY <2>1, <2>2, <2>3, <2>4, <2>5
  <1>15. ASSUME NEW p \in Procs, kb_buf_get(p) PROVE KbInv'
    <2> DEFINE c == Smaller(want[p], CntToEnd)
    <2> USE <1>15
    <2>1. /\ c \in Int /\ c <= want[p] /\ c <= CntToEnd
          /\ c <= 0 => want[p] = 0 \/ ~ NotEmpty
      BY CntIs, AvailIs, SMTT(60) DEF Smaller, KbTypeOK, Index, NotEmpty
    <2>2. CASE c <= 0
      <3> USE <2>2 DEF kb_buf_get, Runs, Goto, Return, ring, timer, reader, file
      <3>1. KbTypeOK'
        BY DEF KbTypeOK, Steps
      <3>2. BytesInOrder' /\ Avail' = Avail
        BY RingUnchanged
      <3>3. Sleepers'
        BY <3>2 DEF KbTypeOK, Sleepers, NoSleepOnData, NotEmpty
      <3>4. Copying' /\ KeySizes'
        BY <3>2 DEF KbTypeOK, Copying, KeySizes, NotEmpty
      <3>5. size[p] = 1 => ret[p] = size[p]
        BY <2>1 DEF Copying, KbTypeOK
      <3>6. NoShortKey'
        BY <3>5 DEF KbTypeOK, NoShortKey
      <3> QED
        BY <3>1, <3>2, <3>3, <3>4, <3>6
    <2>3. CASE ~ (c <= 0)
      <3>1. GetChunk(c) /\ c \in Nat
        <4>1. c \in Nat /\ 0 < c /\ c <= CntToEnd
          BY <2>1, <2>3
        <4>2. /\ out' = out \o [i \in 1 .. c |-> buf[tail + i - 1]]
              /\ tail' = Mask(tail + c)
              /\ buf' = buf /\ head' = head /\ accepted' = accepted
          BY <2>3, Zenon DEF kb_buf_get
        <4> QED
          BY <4>1, <4>2 DEF GetChunk
      <3>2. tail' \in Index /\ out' \in Seq(Nat) /\ Avail' = Avail - c /\ BytesInOrder'
        BY <3>1, GetKeepsOrder
      <3>3. /\ ret' = [ret EXCEPT ![p] = @ + c] /\ want' = [want EXCEPT ![p] = @ - c]
            /\ UNCHANGED <<buf, head, accepted, key_i_last, ipc, left, refused, queue, pc,
                           size, res, holders, is_open>>
            /\ ipc = "idle" /\ pc[p] = "get"
        BY <2>3 DEF kb_buf_get, Runs, timer, reader, file
      <3>4. c \in Int /\ 0 < c /\ c <= want[p] /\ want[p] \in Nat /\ ret[p] \in Nat
        BY <2>1, <2>3 DEF KbTypeOK
      <3>5. /\ want' \in [Procs -> Nat] /\ ret' \in [Procs -> Nat]
            /\ ret'[p] = ret[p] + c /\ want'[p] = want[p] - c /\ ret'[p] # 0
            /\ \A q \in Procs \ {p} : ret'[q] = ret[q] /\ want'[q] = want[q]
        <4>1. want[p] - c \in Nat /\ ret[p] + c \in Nat /\ ret[p] + c # 0
          BY <3>4
        <4> QED
          BY <3>3, <4>1 DEF KbTypeOK
      <3>6. KbTypeOK'
        BY <3>2, <3>3, <3>5 DEF KbTypeOK
      <3>7. NotEmpty' => NotEmpty
        <4>1. Avail \in Int
          BY AvailIs DEF KbTypeOK, Index
        <4> QED
          BY <3>2, <3>4, <4>1 DEF NotEmpty
      <3>8. Sleepers'
        BY <3>3, <3>7 DEF Sleepers, NoSleepOnData
      <3>9. Copying'
        <4>1. ret'[p] + want'[p] = size[p]
          BY <3>3, <3>4, <3>5 DEF Copying, KbTypeOK
        <4> QED
          BY <3>3, <3>5, <4>1 DEF Copying
      <3>10. KeySizes' /\ NoShortKey'
        BY <3>3 DEF KeySizes, NoShortKey
      <3> QED
        BY <3>2, <3>6, <3>8, <3>9, <3>10
    <2> QED
      BY <2>2, <2>3
  <1>16. CASE UNCHANGED kbvars
    <2> USE <1>16 DEF kbvars, ring, timer, reader, file
    <2>1. BytesInOrder' /\ Avail' = Avail
      BY RingUnchanged
    <2> QED
      BY <2>1 DEF KbTypeOK, Sleepers, NoSleepOnData, Copying, KeySizes, NoShortKey, NotEmpty
  <1> QED
    BY <1>1, <1>2, <1>3, <1>4, <1>5, <1>6, <1>7, <1>8, <1>9, <1>10, <1>11, <1>12, <1>13, <1>14, <1>15, <1>16
    DEF KbNext, TimerNext, ProcNext, ReadStep

\* The invariant holds of every execution of timer and processes.
THEOREM KbInvariant == KbSpec => []KbInv
  BY KbInitInv, KbStepInv, PTL DEF KbSpec

\* The buffer is first in, first out, across every wrap of the two copy loops,
\* for every length and all sizes of keys and reads.
THEOREM KbFirstInFirstOut == KbSpec => []BytesInOrder
  BY KbInvariant, PTL DEF KbInv

\* No process sleeps in kb_read on a buffer that has data.
THEOREM KbNoLostWakeup == KbSpec => []NoSleepOnData
  BY KbInvariant, PTL DEF KbInv, Sleepers

\* Processes that share the file and read one-byte keys never get -EFAULT for a
\* key that came out short.
THEOREM KbKeysWhole == KbSpec => []NoShortKey
  BY KbInvariant, PTL DEF KbInv

\* kb_buf_put refuses bytes only when the buffer is full.
THEOREM KbLostOnlyWhenFull == KbSpec => LostOnlyWhenFull
  <1>1. KbInv /\ [KbNext]_kbvars =>
          [refused' # refused => accepted - Len(out) = N - 1]_kbvars
    <2> SUFFICES ASSUME KbInv, KbNext, refused' # refused
                 PROVE  accepted - Len(out) = N - 1
      OBVIOUS
    <2>1. kb_buf_put
      BY DEF KbNext, TimerNext, ProcNext, ReadStep, Scan, CustomKey, Insert, WakeUp,
             kb_open, Close, Fork, ReadEnter, ReadLocked, WaitTest, WaitPrepare,
             WaitRecheck, WaitSignal, kb_buf_get, CopyToUser, timer
    <2>2. head \in Index /\ tail \in Index /\ left \in Nat /\ refused \in Nat
          /\ accepted \in Nat /\ Len(out) \in Nat
      BY DEF KbInv, KbTypeOK
    <2>3. Smaller(left, SpaceToEnd) <= 0 /\ left # 0
      BY <2>1, <2>2 DEF kb_buf_put
    <2>4. SpaceToEnd <= 0
      BY <2>2, <2>3, SpaceIs, KbConstants DEF Smaller, Index
    <2>5. Avail = N - 1
      BY <2>2, <2>4, SpaceIs, AvailIs, KbConstants DEF Index
    <2>6. accepted = Len(out) + Avail
      BY DEF KbInv, BytesInOrder
    <2> QED
      BY <2>2, <2>5, <2>6, KbConstants
  <1> QED
    BY <1>1, KbInvariant, PTL DEF KbSpec, LostOnlyWhenFull

-----------------------------------------------------------------------------
\* The serial ports.

Chars == {"tty", "x", "con"} \X Nat
UartCounts == [written : 0 .. MaxChars, x : 0 .. MaxX, con : Nat, arrived : Nat,
               stops : Nat, flushes : Nat]

TxTypes ==
    /\ xmit \in Seq(Nat) /\ Len(xmit) <= Cap /\ Range(xmit) \subseteq 1 .. MaxChars
    /\ x_char \in 0 .. MaxX /\ thre \in BOOLEAN /\ asleep \in BOOLEAN
    /\ fifo \in Seq(Chars) /\ Len(fifo) <= TxDepth
RxTypes ==
    /\ rfifo \in Seq(Nat) /\ Len(rfifo) <= RxDepth /\ flip \in Seq(Nat)
    /\ over \in BOOLEAN /\ overrun \in Nat /\ lost \subseteq 1 .. n.arrived
    /\ buf_overrun \in Nat /\ dropped \subseteq 1 .. n.arrived
RestTypes ==
    /\ wire \in Seq(Nat) /\ n \in UartCounts /\ flushed \subseteq 1 .. n.written
    /\ rx_ien \in BOOLEAN /\ tstopped \in BOOLEAN /\ cut \in {"no", "stop", "late"}
    /\ halting \in Nat /\ resuming \in Nat /\ writing \in BOOLEAN /\ saved \in BOOLEAN
    /\ xpc \in {"idle", "start"} /\ con \in {"off", "put", "end"}
UartTypes == TxTypes /\ RxTypes /\ RestTypes

\* THRE_IEN is saved exactly while the console keeps it off.
ConsoleKnows == (con = "off" => ~ saved) /\ (con # "off" => ~ thre)

UartInv ==
    /\ UartTypes
    /\ TtyOutputInOrder
    /\ FullOnlyByXchar
    /\ OutputCovered
    /\ RxInOrder
    /\ ConsoleKnows

\* TtyOutputInOrder in two parts, over any wire, FIFO and buffer.
PlacesOf(f) == {i \in DOMAIN f : f[i][1] = "tty"}
CharsOf(f)  == {f[i][2] : i \in PlacesOf(f)}
Ordered(w, f, x) ==
    /\ Ascending(w) /\ Ascending(x)
    /\ \A i, j \in PlacesOf(f) : i < j => f[i][2] < f[j][2]
    /\ Before(Range(w), CharsOf(f)) /\ Before(CharsOf(f), Range(x))
    /\ Before(Range(w), Range(x))
Content(w, f, x) == Range(w) \cup CharsOf(f) \cup Range(x)
-----------------------------------------------------------------------------
(* Sequences *)

\* Characters appended to an ascending sequence keep it ascending if each is
\* greater than all before; the range grows by them.
LEMMA AppendAscending ==
  ASSUME NEW s \in Seq(Nat), NEW e \in Nat
  PROVE  /\ Append(s, e) \in Seq(Nat) /\ Len(Append(s, e)) = Len(s) + 1
         /\ Range(Append(s, e)) = Range(s) \cup {e}
         /\ Ascending(s) /\ (\A a \in Range(s) : a < e) => Ascending(Append(s, e))
  <1>1. Append(s, e) \in Seq(Nat) /\ Len(Append(s, e)) = Len(s) + 1
    OBVIOUS
  <1>2. DOMAIN Append(s, e) = 1 .. Len(s) + 1 /\ DOMAIN s = 1 .. Len(s) /\ Len(s) \in Nat
    BY <1>1, LenProperties
  <1>3. /\ \A i \in 1 .. Len(s) : Append(s, e)[i] = s[i] /\ s[i] \in Nat
        /\ Append(s, e)[Len(s) + 1] = e
    BY <1>2
  <1>4. Range(Append(s, e)) = Range(s) \cup {e}
    <2>1. ASSUME NEW i \in 1 .. Len(s) + 1 PROVE i \in 1 .. Len(s) \/ i = Len(s) + 1
      BY <1>2
    <2>2. \A i \in 1 .. Len(s) : i \in 1 .. Len(s) + 1
      BY <1>2
    <2>3. Len(s) + 1 \in 1 .. Len(s) + 1
      BY <1>2
    <2> QED
      BY <1>2, <1>3, <2>1, <2>2, <2>3 DEF Range
  <1>5. ASSUME Ascending(s), \A a \in Range(s) : a < e
        PROVE  Ascending(Append(s, e))
    <2>1. \A i \in 1 .. Len(s) : s[i] < e
      BY <1>2, <1>5 DEF Range
    <2>2. \A i, j \in 1 .. Len(s) : i < j => s[i] < s[j]
      BY <1>2, <1>5 DEF Ascending
    <2>3. ASSUME NEW i \in 1 .. Len(s) + 1, NEW j \in 1 .. Len(s) + 1, i < j
          PROVE  Append(s, e)[i] < Append(s, e)[j]
      <3>1. i \in 1 .. Len(s)
        BY <1>2, <2>3
      <3>2. j \in 1 .. Len(s) \/ j = Len(s) + 1
        BY <1>2, <2>3
      <3> QED
        BY <1>3, <2>1, <2>2, <2>3, <3>1, <3>2
    <2> QED
      BY <1>2, <2>3 DEF Ascending
  <1> QED
    BY <1>1, <1>4, <1>5

\* Two ascending sequences, the first before the second, in a row.
LEMMA ConcatAscending ==
  ASSUME NEW s \in Seq(Nat), NEW t \in Seq(Nat)
  PROVE  /\ s \o t \in Seq(Nat) /\ Len(s \o t) = Len(s) + Len(t)
         /\ Range(s \o t) = Range(s) \cup Range(t)
         /\ Ascending(s) /\ Ascending(t) /\ Before(Range(s), Range(t)) => Ascending(s \o t)
  <1>1. /\ s \o t \in Seq(Nat) /\ Len(s \o t) = Len(s) + Len(t)
        /\ \A i \in 1 .. Len(s) + Len(t) :
              (s \o t)[i] = IF i <= Len(s) THEN s[i] ELSE t[i - Len(s)]
    BY ConcatProperties
  <1>2. /\ DOMAIN (s \o t) = 1 .. Len(s) + Len(t) /\ DOMAIN s = 1 .. Len(s)
        /\ DOMAIN t = 1 .. Len(t) /\ Len(s) \in Nat /\ Len(t) \in Nat
    BY <1>1, LenProperties
  <1>3. ASSUME NEW i \in 1 .. Len(s) PROVE i \in 1 .. Len(s) + Len(t) /\ (s \o t)[i] = s[i]
    BY <1>1, <1>2
  <1>4. ASSUME NEW i \in 1 .. Len(t)
        PROVE  Len(s) + i \in 1 .. Len(s) + Len(t) /\ (s \o t)[Len(s) + i] = t[i]
    BY <1>1, <1>2
  <1>5. ASSUME NEW i \in 1 .. Len(s) + Len(t)
        PROVE  \/ i \in 1 .. Len(s) /\ (s \o t)[i] = s[i]
               \/ i - Len(s) \in 1 .. Len(t) /\ (s \o t)[i] = t[i - Len(s)] /\ i > Len(s)
    BY <1>1, <1>2
  <1>6. Range(s \o t) = Range(s) \cup Range(t)
    <2>1. ASSUME NEW a \in Range(s \o t) PROVE a \in Range(s) \cup Range(t)
      BY <1>2, <1>5 DEF Range
    <2>2. ASSUME NEW a \in Range(s) PROVE a \in Range(s \o t)
      BY <1>2, <1>3 DEF Range
    <2>3. ASSUME NEW a \in Range(t) PROVE a \in Range(s \o t)
      BY <1>2, <1>4 DEF Range
    <2> QED
      BY <2>1, <2>2, <2>3
  <1>7. ASSUME Ascending(s), Ascending(t), Before(Range(s), Range(t))
        PROVE  Ascending(s \o t)
    <2>1. /\ \A i, j \in 1 .. Len(s) : i < j => s[i] < s[j]
          /\ \A i, j \in 1 .. Len(t) : i < j => t[i] < t[j]
          /\ \A i \in 1 .. Len(s), j \in 1 .. Len(t) : s[i] < t[j]
      BY <1>2, <1>7 DEF Ascending, Before, Range
    <2>2. ASSUME NEW i \in 1 .. Len(s) + Len(t), NEW j \in 1 .. Len(s) + Len(t), i < j
          PROVE  (s \o t)[i] < (s \o t)[j]
      <3>1. CASE j \in 1 .. Len(s)
        <4>1. i \in 1 .. Len(s)
          BY <1>2, <2>2, <3>1
        <4> QED
          BY <1>3, <2>1, <2>2, <3>1, <4>1
      <3>2. CASE j \notin 1 .. Len(s)
        <4>1. j - Len(s) \in 1 .. Len(t) /\ (s \o t)[j] = t[j - Len(s)]
          BY <1>5, <3>2
        <4>2. CASE i \in 1 .. Len(s)
          BY <1>3, <2>1, <4>1, <4>2
        <4>3. CASE i \notin 1 .. Len(s)
          <5>1. i - Len(s) \in 1 .. Len(t) /\ (s \o t)[i] = t[i - Len(s)]
            BY <1>5, <4>3
          <5>2. i - Len(s) < j - Len(s)
            BY <1>2, <2>2
          <5> QED
            BY <2>1, <4>1, <5>1, <5>2
        <4> QED
          BY <4>2, <4>3
      <3> QED
        BY <3>1, <3>2
    <2> QED
      BY <1>2, <2>2 DEF Ascending
  <1> QED
    BY <1>1, <1>6, <1>7
-----------------------------------------------------------------------------
(* The FIFO *)

\* The typing of a FIFO, place by place.
LEMMA FifoFacts ==
  ASSUME NEW f \in Seq(Chars)
  PROVE  /\ DOMAIN f = 1 .. Len(f) /\ Len(f) \in Nat
         /\ \A i \in 1 .. Len(f) : f[i] \in Chars /\ f[i][2] \in Nat
         /\ CharsOf(f) \subseteq Nat
  <1>1. DOMAIN f = 1 .. Len(f) /\ Len(f) \in Nat
    BY LenProperties
  <1>2. \A i \in 1 .. Len(f) : f[i] \in Chars
    BY ElementOfSeq
  <1>3. \A i \in 1 .. Len(f) : f[i][2] \in Nat
    BY <1>2 DEF Chars
  <1> QED
    BY <1>1, <1>2, <1>3 DEF CharsOf, PlacesOf

\* A character of another kind at the end of the FIFO changes nothing for the tty.
LEMMA PushOther ==
  ASSUME NEW f \in Seq(Chars), NEW c \in Chars, c[1] # "tty", NEW w, NEW x
  PROVE  /\ Append(f, c) \in Seq(Chars) /\ Len(Append(f, c)) = Len(f) + 1
         /\ Last(Append(f, c)) = c
         /\ Ordered(w, f, x) => Ordered(w, Append(f, c), x)
         /\ Content(w, Append(f, c), x) = Content(w, f, x)
  <1> DEFINE g == Append(f, c)
  <1>1. g \in Seq(Chars) /\ Len(g) = Len(f) + 1
    OBVIOUS
  <1>2. DOMAIN f = 1 .. Len(f) /\ Len(f) \in Nat /\ DOMAIN g = 1 .. Len(f) + 1
    BY <1>1, LenProperties
  <1>3. (\A i \in 1 .. Len(f) : g[i] = f[i]) /\ g[Len(f) + 1] = c
    BY <1>2
  <1> HIDE DEF g
  <1>4. PlacesOf(g) = PlacesOf(f)
    <2>1. \A i \in 1 .. Len(f) + 1 : i \in 1 .. Len(f) \/ i = Len(f) + 1
      BY <1>2
    <2>2. \A i \in 1 .. Len(f) : i \in 1 .. Len(f) + 1
      BY <1>2
    <2> QED
      BY <1>2, <1>3, <2>1, <2>2 DEF PlacesOf
  <1>5. \A i \in PlacesOf(f) : g[i] = f[i]
    BY <1>2, <1>3 DEF PlacesOf
  <1>6. CharsOf(g) = CharsOf(f)
    BY <1>4, <1>5 DEF CharsOf
  <1>7. Last(g) = c
    BY <1>1, <1>3 DEF Last
  <1>8. Ordered(w, f, x) => Ordered(w, g, x)
    BY <1>4, <1>5, <1>6 DEF Ordered
  <1>9. Content(w, g, x) = Content(w, f, x)
    BY <1>6 DEF Content
  <1> QED
    BY <1>1, <1>7, <1>8, <1>9 DEF g

\* t and r are the first m characters of the buffer, as the FIFO has them, and
\* the rest.
Splits(x, m, t, r) ==
    /\ m \in Nat /\ m <= Len(x)
    /\ t \in Seq(Chars) /\ Len(t) = m /\ \A i \in 1 .. m : t[i] = Tty(x[i])
    /\ r \in Seq(Nat) /\ Len(r) = Len(x) - m
    /\ \A i \in 1 .. Len(x) - m : r[i] = x[m + i]

\* The first m characters of the buffer go to the end of the FIFO.
LEMMA PushData ==
  ASSUME NEW w \in Seq(Nat), NEW f \in Seq(Chars), NEW x \in Seq(Nat),
         NEW m, NEW t, NEW r, Splits(x, m, t, r)
  PROVE  /\ f \o t \in Seq(Chars) /\ Len(f \o t) = Len(f) + m
         /\ Range(r) \subseteq Range(x)
         /\ Ordered(w, f, x) => Ordered(w, f \o t, r)
         /\ Content(w, f \o t, r) = Content(w, f, x)
  <1> USE DEF Splits
  <1> DEFINE g == f \o t
  <1>1. /\ Len(x) \in Nat /\ DOMAIN x = 1 .. Len(x) /\ (\A i \in 1 .. Len(x) : x[i] \in Nat)
        /\ Len(f) \in Nat /\ DOMAIN f = 1 .. Len(f) /\ m \in Nat /\ m <= Len(x)
    BY LenProperties, ElementOfSeq
  <1>2. \A a : Tty(a)[1] = "tty" /\ Tty(a)[2] = a
    BY DEF Tty
  <1>4. /\ g \in Seq(Chars) /\ Len(g) = Len(f) + m
        /\ \A i \in 1 .. Len(f) + m : g[i] = IF i <= Len(f) THEN f[i] ELSE t[i - Len(f)]
    BY ConcatProperties
  <1>5. DOMAIN g = 1 .. Len(f) + m /\ DOMAIN r = 1 .. Len(x) - m
    BY <1>4, LenProperties
  <1> HIDE DEF g
  <1>6. \A i \in 1 .. Len(f) : i \in 1 .. Len(f) + m /\ g[i] = f[i]
    BY <1>1, <1>4
  <1>7. \A i \in 1 .. m : Len(f) + i \in 1 .. Len(f) + m /\ g[Len(f) + i] = Tty(x[i])
    <2> TAKE i \in 1 .. m
    <2>1. Len(f) + i \in 1 .. Len(f) + m /\ ~ (Len(f) + i <= Len(f)) /\ (Len(f) + i) - Len(f) = i
      BY <1>1
    <2> QED
      BY <1>4, <2>1
  <1>8. ASSUME NEW i \in 1 .. Len(f) + m
        PROVE  \/ i \in 1 .. Len(f) /\ g[i] = f[i]
               \/ /\ i - Len(f) \in 1 .. m /\ i - Len(f) \in 1 .. Len(x) /\ i > Len(f)
                  /\ g[i][1] = "tty" /\ g[i][2] = x[i - Len(f)]
    <2>1. CASE i <= Len(f)
      <3>1. i \in 1 .. Len(f)
        BY <1>1, <2>1
      <3> QED
        BY <1>6, <3>1
    <2>2. CASE i > Len(f)
      <3>1. i - Len(f) \in 1 .. m /\ ~ (i <= Len(f))
        BY <1>1, <2>2
      <3>2. g[i] = Tty(x[i - Len(f)])
        BY <1>1, <1>4, <2>2, <3>1
      <3> QED
        BY SMTT(60), <1>1, <1>2, <2>2, <3>1, <3>2
    <2> QED
      BY <1>1, <2>1, <2>2
  <1>9. PlacesOf(g) = PlacesOf(f) \cup {Len(f) + i : i \in 1 .. m}
    <2>1. ASSUME NEW i \in PlacesOf(g) PROVE i \in PlacesOf(f) \cup {Len(f) + j : j \in 1 .. m}
      <3>1. i \in 1 .. Len(f) + m /\ g[i][1] = "tty"
        BY <1>5 DEF PlacesOf
      <3>2. CASE i \in 1 .. Len(f) /\ g[i] = f[i]
        BY <1>1, <3>1, <3>2 DEF PlacesOf
      <3>3. CASE i - Len(f) \in 1 .. m
        <4>1. i = Len(f) + (i - Len(f))
          BY <1>1, <3>1
        <4> QED
          BY <3>3, <4>1
      <3> QED
        BY <1>8, <3>1, <3>2, <3>3
    <2>2. PlacesOf(f) \subseteq PlacesOf(g)
      BY <1>1, <1>5, <1>6 DEF PlacesOf
    <2>3. ASSUME NEW i \in 1 .. m PROVE Len(f) + i \in PlacesOf(g)
      <3>1. Len(f) + i \in DOMAIN g /\ g[Len(f) + i][1] = "tty"
        <4>1. Len(f) + i \in DOMAIN g /\ g[Len(f) + i] = Tty(x[i])
          BY <1>5, <1>7
        <4>2. Tty(x[i])[1] = "tty"
          BY <1>2
        <4> QED
          BY <4>1, <4>2
      <3> QED
        BY <3>1 DEF PlacesOf
    <2> QED
      BY <2>1, <2>2, <2>3
  <1>10. CharsOf(g) = CharsOf(f) \cup {x[i] : i \in 1 .. m}
    <2>1. \A i \in PlacesOf(f) : g[i][2] = f[i][2]
      BY <1>1, <1>6 DEF PlacesOf
    <2>2. \A i \in 1 .. m : g[Len(f) + i][2] = x[i]
      BY <1>2, <1>7
    <2>3. ASSUME NEW a \in CharsOf(g) PROVE a \in CharsOf(f) \cup {x[i] : i \in 1 .. m}
      <3>1. PICK i \in PlacesOf(g) : a = g[i][2]
        BY DEF CharsOf
      <3>2. CASE i \in PlacesOf(f)
        BY <2>1, <3>1, <3>2 DEF CharsOf
      <3>3. CASE \E j \in 1 .. m : i = Len(f) + j
        BY <2>2, <3>1, <3>3
      <3> QED
        BY <1>9, <3>2, <3>3
    <2>4. CharsOf(f) \subseteq CharsOf(g)
      <3>1. ASSUME NEW i \in PlacesOf(f) PROVE f[i][2] \in CharsOf(g)
        <4>1. i \in PlacesOf(g) /\ f[i][2] = g[i][2]
          BY <1>9, <2>1
        <4> QED
          BY <4>1 DEF CharsOf
      <3> QED
        BY <3>1 DEF CharsOf
    <2>5. ASSUME NEW i \in 1 .. m PROVE x[i] \in CharsOf(g)
      <3>1. Len(f) + i \in PlacesOf(g) /\ x[i] = g[Len(f) + i][2]
        BY <1>9, <2>2
      <3> QED
        BY <3>1 DEF CharsOf
    <2> QED
      BY ZenonT(60), <2>3, <2>4, <2>5
  <1>11. Range(x) = {x[i] : i \in 1 .. m} \cup Range(r)
    <2>1. ASSUME NEW i \in 1 .. Len(x) 
          PROVE  i \in 1 .. m \/ (i - m \in 1 .. Len(x) - m /\ r[i - m] = x[i])
      <3>1. CASE i <= m
        BY <1>1, <3>1
      <3>2. CASE i > m
        <4>1. i - m \in 1 .. Len(x) - m /\ m + (i - m) = i
          BY <1>1, <3>2
        <4> QED
          BY <4>1
      <3> QED
        BY <1>1, <3>1, <3>2
    <2>2. ASSUME NEW i \in 1 .. Len(x) - m PROVE m + i \in 1 .. Len(x) /\ r[i] = x[m + i]
      BY <1>1
    <2>3. \A i \in 1 .. m : i \in 1 .. Len(x)
      BY <1>1
    <2>4. ASSUME NEW a \in Range(x) PROVE a \in {x[i] : i \in 1 .. m} \cup Range(r)
      <3>1. PICK i \in 1 .. Len(x) : a = x[i]
        BY <1>1 DEF Range
      <3> QED
        BY <1>5, <2>1, <3>1 DEF Range
    <2>5. Range(r) \subseteq Range(x)
      <3>1. ASSUME NEW a \in Range(r) PROVE a \in Range(x)
        <4>1. PICK i \in 1 .. Len(x) - m : a = r[i]
          BY <1>5 DEF Range
        <4>2. m + i \in DOMAIN x /\ a = x[m + i]
          BY <1>1, <2>2, <4>1
        <4> QED
          BY <4>2 DEF Range
      <3> QED
        BY <3>1
    <2>6. \A i \in 1 .. m : x[i] \in Range(x)
      BY <1>1, <2>3 DEF Range
    <2> QED
      BY <2>4, <2>5, <2>6
  <1>12. Content(w, g, r) = Content(w, f, x)
    BY <1>10, <1>11 DEF Content
  <1>13. ASSUME Ordered(w, f, x) PROVE Ordered(w, g, r)
    <2>1. /\ \A i, j \in 1 .. Len(x) : i < j => x[i] < x[j]
          /\ \A i, j \in PlacesOf(f) : i < j => f[i][2] < f[j][2]
          /\ Before(Range(w), CharsOf(f)) /\ Before(CharsOf(f), Range(x))
          /\ Before(Range(w), Range(x)) /\ Ascending(w)
      BY <1>1, <1>13 DEF Ordered, Ascending
    <2>2. Ascending(r)
      <3>1. ASSUME NEW i \in 1 .. Len(x) - m, NEW j \in 1 .. Len(x) - m, i < j
            PROVE  r[i] < r[j]
        <4>1. m + i \in 1 .. Len(x) /\ m + j \in 1 .. Len(x) /\ m + i < m + j
          BY <1>1, <3>1
        <4> QED
          BY <2>1, <4>1
      <3> QED
        BY <1>5, <3>1 DEF Ascending
    <2>3. ASSUME NEW i \in PlacesOf(g), NEW j \in PlacesOf(g), i < j
          PROVE  g[i][2] < g[j][2]
      <3>1. i \in 1 .. Len(f) + m /\ j \in 1 .. Len(f) + m /\ g[i][1] = "tty" /\ g[j][1] = "tty"
        BY <1>5 DEF PlacesOf
      <3>2. CASE j \in 1 .. Len(f)
        <4>1. i \in 1 .. Len(f)
          BY <1>1, <2>3, <3>1, <3>2
        <4>2. i \in PlacesOf(f) /\ j \in PlacesOf(f) /\ g[i] = f[i] /\ g[j] = f[j]
          BY <1>1, <1>6, <3>1, <3>2, <4>1 DEF PlacesOf
        <4> QED
          BY <2>1, <2>3, <4>2
      <3>3. CASE j \notin 1 .. Len(f)
        <4>1. j - Len(f) \in 1 .. Len(x) /\ g[j][2] = x[j - Len(f)]
          BY <1>8, <3>1, <3>3
        <4>2. CASE i \in 1 .. Len(f)
          <5>1. g[i][2] \in CharsOf(f) /\ g[j][2] \in Range(x)
            <6>1. i \in PlacesOf(f) /\ g[i] = f[i]
              BY <1>1, <1>6, <3>1, <4>2 DEF PlacesOf
            <6> QED
              BY <1>1, <4>1, <6>1 DEF CharsOf, Range
          <5> QED
            BY <2>1, <5>1 DEF Before
        <4>3. CASE i \notin 1 .. Len(f)
          <5>1. i - Len(f) \in 1 .. Len(x) /\ g[i][2] = x[i - Len(f)]
            BY <1>8, <3>1, <4>3
          <5>2. i - Len(f) < j - Len(f)
            BY <1>1, <2>3, <3>1
          <5> QED
            BY <2>1, <4>1, <5>1, <5>2
        <4> QED
          BY <4>2, <4>3
      <3> QED
        BY <3>2, <3>3
    <2>4. Before(Range(w), CharsOf(g)) /\ Before(Range(w), Range(r))
      BY <1>10, <1>11, <2>1 DEF Before
    <2>5. Before(CharsOf(g), Range(r))
      <3>1. ASSUME NEW i \in 1 .. m, NEW b \in Range(r) PROVE x[i] < b
        <4>1. PICK j \in 1 .. Len(x) - m : b = r[j]
          BY <1>5 DEF Range
        <4>2. i \in 1 .. Len(x) /\ m + j \in 1 .. Len(x) /\ i < m + j
          BY <1>1
        <4>3. b = x[m + j]
          BY <4>1
        <4> QED
          BY <2>1, <4>2, <4>3
      <3> QED
        BY <1>10, <1>11, <2>1, <3>1 DEF Before
    <2> QED
      BY <2>1, <2>2, <2>3, <2>4, <2>5 DEF Ordered
  <1> QED
    BY <1>4, <1>11, <1>12, <1>13 DEF g

\* The head of the FIFO leaves: a character of the tty goes to the wire.
LEMMA ShiftFifo ==
  ASSUME NEW w \in Seq(Nat), NEW f \in Seq(Chars), f # <<>>, NEW x,
         NEW v, v = IF Head(f)[1] = "tty" THEN Append(w, Head(f)[2]) ELSE w
  PROVE  /\ v \in Seq(Nat) /\ Tail(f) \in Seq(Chars) /\ Len(Tail(f)) = Len(f) - 1
         /\ Ordered(w, f, x) => Ordered(v, Tail(f), x)
         /\ Content(v, Tail(f), x) = Content(w, f, x)
         /\ Len(Tail(f)) >= 1 => Last(Tail(f)) = Last(f)
  <1> DEFINE g == Tail(f)
  <1>1. /\ g \in Seq(Chars) /\ Len(g) = Len(f) - 1 /\ Head(f) = f[1] /\ Len(f) >= 1
        /\ \A i \in 1 .. Len(f) - 1 : g[i] = f[i + 1]
    BY HeadTailProperties
  <1>2. /\ Len(f) \in Nat /\ DOMAIN f = 1 .. Len(f) /\ DOMAIN g = 1 .. Len(f) - 1
        /\ \A i \in 1 .. Len(f) : f[i][2] \in Nat
    BY <1>1, LenProperties, FifoFacts
  <1>3. Len(g) >= 1 => Last(g) = Last(f)
    BY <1>1, <1>2 DEF Last
  <1> HIDE DEF g
  <1>4. ASSUME NEW i \in PlacesOf(f) PROVE i = 1 \/ (i - 1 \in PlacesOf(g) /\ g[i - 1] = f[i])
    <2>1. i \in 1 .. Len(f) /\ f[i][1] = "tty"
      BY <1>2 DEF PlacesOf
    <2>2. CASE i # 1
      <3>1. i - 1 \in 1 .. Len(f) - 1 /\ (i - 1) + 1 = i
        BY <1>2, <2>1, <2>2
      <3>2. g[i - 1] = f[i]
        BY <1>1, <3>1
      <3> QED
        BY <1>2, <2>1, <3>1, <3>2 DEF PlacesOf
    <2>3. CASE i = 1
      BY <2>3
    <2> QED
      BY <2>2, <2>3
  <1>5. ASSUME NEW i \in PlacesOf(g) PROVE i + 1 \in PlacesOf(f) /\ i + 1 > 1 /\ i \in Nat /\ g[i] = f[i + 1]
    <2>1. i \in 1 .. Len(f) - 1 /\ g[i][1] = "tty" /\ g[i] = f[i + 1]
      BY <1>1, <1>2 DEF PlacesOf
    <2>2. i + 1 \in 1 .. Len(f) /\ i + 1 > 1 /\ i \in Nat
      BY <1>2, <2>1
    <2> QED
      BY <1>2, <2>1, <2>2 DEF PlacesOf
  <1>6. CharsOf(f) = CharsOf(g) \cup (IF f[1][1] = "tty" THEN {f[1][2]} ELSE {})
    <2>1. f[1][1] = "tty" => 1 \in PlacesOf(f)
      BY <1>1, <1>2 DEF PlacesOf
    <2>2. ASSUME NEW a \in CharsOf(f)
          PROVE  a \in CharsOf(g) \cup (IF f[1][1] = "tty" THEN {f[1][2]} ELSE {})
      <3>1. PICK i \in PlacesOf(f) : a = f[i][2]
        BY DEF CharsOf
      <3>2. f[i][1] = "tty"
        BY DEF PlacesOf
      <3> QED
        BY <1>4, <3>1, <3>2 DEF CharsOf
    <2>3. CharsOf(g) \subseteq CharsOf(f)
      BY <1>5 DEF CharsOf
    <2>4. f[1][1] = "tty" => f[1][2] \in CharsOf(f)
      BY <2>1 DEF CharsOf
    <2> QED
      BY <2>2, <2>3, <2>4
  <1>7. /\ v \in Seq(Nat)
        /\ Range(v) = Range(w) \cup (IF f[1][1] = "tty" THEN {f[1][2]} ELSE {})
    <2>1. f[1][2] \in Nat
      BY <1>1, <1>2
    <2> QED
      BY <1>1, <2>1, AppendAscending
  <1>8. Content(v, g, x) = Content(w, f, x)
    BY <1>6, <1>7 DEF Content
  <1>9. ASSUME Ordered(w, f, x) PROVE Ordered(v, g, x)
    <2>1. /\ Ascending(w) /\ Ascending(x) /\ Before(Range(w), CharsOf(f))
          /\ Before(CharsOf(f), Range(x)) /\ Before(Range(w), Range(x))
          /\ \A i, j \in PlacesOf(f) : i < j => f[i][2] < f[j][2]
      BY <1>9 DEF Ordered
    <2>2. f[1][1] = "tty" => \A i \in PlacesOf(g) : f[1][2] < g[i][2]
      <3>1. f[1][1] = "tty" => 1 \in PlacesOf(f)
        BY <1>1, <1>2 DEF PlacesOf
      <3> QED
        BY <1>5, <2>1, <3>1
    <2>3. \A i, j \in PlacesOf(g) : i < j => g[i][2] < g[j][2]
      <3>1. ASSUME NEW i \in PlacesOf(g), NEW j \in PlacesOf(g), i < j PROVE i + 1 < j + 1
        BY <1>5, <3>1
      <3> QED
        BY <1>5, <2>1, <3>1
    <2>4. Ascending(v)
      <3>1. f[1][1] = "tty" => f[1][2] \in CharsOf(f) /\ f[1][2] \in Nat
        BY <1>1, <1>2, <1>6
      <3> QED
        BY <1>1, <2>1, <3>1, AppendAscending DEF Before
    <2>5. Before(Range(v), CharsOf(g))
      BY <1>6, <1>7, <2>1, <2>2 DEF Before, CharsOf
    <2>6. Before(CharsOf(g), Range(x)) /\ Before(Range(v), Range(x))
      BY <1>6, <1>7, <2>1 DEF Before
    <2> QED
      BY <2>1, <2>3, <2>4, <2>5, <2>6 DEF Ordered
  <1> QED
    BY <1>1, <1>3, <1>7, <1>8, <1>9 DEF g
-----------------------------------------------------------------------------
(* transmit_chars *)

\* TtyOutputInOrder and its two parts.
LEMMA OrderParts ==
  TtyOutputInOrder <=> /\ Ordered(wire, fifo, xmit)
                       /\ Content(wire, fifo, xmit) = (1 .. n.written) \ flushed
  BY DEF TtyOutputInOrder, Ordered, Content, InFifo, TtyChars, PlacesOf, CharsOf

\* What transmit_chars returns if the FIFO is empty or has room for the buffer:
\* the same output in the same order, the FIFO not overfilled.
LEMMA TransmitFacts ==
  ASSUME UartTypes, TtyOutputInOrder, FullOnlyByXchar, Room \/ fifo = <<>>,
         NEW stp \in BOOLEAN
  PROVE  LET s == transmit_chars(stp)
         IN  /\ s.xmit \in Seq(Nat) /\ Len(s.xmit) <= Len(xmit)
             /\ Range(s.xmit) \subseteq Range(xmit) /\ s.x = 0
             /\ s.fifo \in Seq(Chars) /\ Len(s.fifo) <= TxDepth
             /\ Len(s.fifo) = TxDepth => Last(s.fifo)[1] = "x"
             /\ Ordered(wire, s.fifo, s.xmit)
             /\ Content(wire, s.fifo, s.xmit) = Content(wire, fifo, xmit)
             /\ s.stop \in BOOLEAN /\ s.wake \in BOOLEAN
             /\ s.stop => s.xmit = <<>> \/ stp
             /\ s.wake \/ s.xmit = xmit \/ Len(s.xmit) >= Wake
  <1> DEFINE s == transmit_chars(stp)
             m == IF Len(xmit) < Batch THEN Len(xmit) ELSE Batch
             rest == SubSeq(xmit, Len(Take) + 1, Len(xmit))
             t == [i \in DOMAIN Take |-> Tty(Take[i])]
  <1>1. /\ TxDepth \in Nat /\ Batch \in Nat /\ Batch >= 1 /\ Batch < TxDepth /\ Wake \in Nat
        /\ xmit \in Seq(Nat) /\ wire \in Seq(Nat) /\ fifo \in Seq(Chars)
        /\ Len(xmit) \in Nat /\ Len(fifo) \in Nat /\ Len(fifo) <= TxDepth
        /\ x_char \in Nat
    BY UartConstants DEF UartTypes, TxTypes, RestTypes
  <1>2. Ordered(wire, fifo, xmit)
    BY OrderParts
  <1>3. CASE x_char # 0
    <2>1. /\ s.xmit = xmit /\ s.x = 0 /\ s.fifo = Push(fifo, X(x_char))
          /\ s.stop = FALSE /\ s.wake = FALSE
      BY <1>3 DEF transmit_chars, XcharAfter
    <2>2. Len(fifo) < TxDepth
      BY <1>1 DEF Room
    <2>3. s.fifo = Append(fifo, X(x_char))
      BY <2>1, <2>2 DEF Push
    <2>4. X(x_char) \in Chars /\ X(x_char)[1] = "x" /\ X(x_char)[1] # "tty"
      BY <1>1 DEF X, Chars
    <2>5. /\ s.fifo \in Seq(Chars) /\ Len(s.fifo) = Len(fifo) + 1 /\ Last(s.fifo)[1] = "x"
          /\ Ordered(wire, s.fifo, xmit)
          /\ Content(wire, s.fifo, xmit) = Content(wire, fifo, xmit)
      <3>1. /\ Append(fifo, X(x_char)) \in Seq(Chars)
            /\ Len(Append(fifo, X(x_char))) = Len(fifo) + 1
            /\ Last(Append(fifo, X(x_char))) = X(x_char)
            /\ Ordered(wire, Append(fifo, X(x_char)), xmit)
            /\ Content(wire, Append(fifo, X(x_char)), xmit) = Content(wire, fifo, xmit)
        <4>1. fifo \in Seq(Chars)
          BY <1>1
        <4> DEFINE c == X(x_char)
        <4>2. c \in Chars /\ c[1] # "tty"
          BY <2>4
        <4> HIDE DEF c
        <4>3. /\ Append(fifo, c) \in Seq(Chars) /\ Len(Append(fifo, c)) = Len(fifo) + 1
              /\ Last(Append(fifo, c)) = c
              /\ Ordered(wire, fifo, xmit) => Ordered(wire, Append(fifo, c), xmit)
              /\ Content(wire, Append(fifo, c), xmit) = Content(wire, fifo, xmit)
          BY <4>1, <4>2, PushOther
        <4> QED
          BY <1>2, <4>3 DEF c
      <3> HIDE DEF s
      <3> QED
        BY <2>3, <2>4, <3>1
    <2> HIDE DEF s
    <2>6. Len(s.fifo) <= TxDepth /\ Len(xmit) <= Len(xmit) /\ xmit \in Seq(Nat)
      BY <1>1, <2>2, <2>5
    <2> QED
      BY <2>1, <2>5, <2>6, Zenon DEF s
  <1>4. CASE x_char = 0 /\ (stp \/ xmit = <<>>)
    <2>1. s = [xmit |-> xmit, x |-> x_char, fifo |-> fifo, stop |-> TRUE, wake |-> FALSE]
      BY <1>4 DEF transmit_chars
    <2>2. /\ s.xmit = xmit /\ s.x = 0 /\ s.fifo = fifo /\ s.stop = TRUE /\ s.wake = FALSE
      BY <1>4, <2>1
    <2> HIDE DEF s
    <2>3. /\ Len(xmit) <= Len(xmit) /\ xmit \in Seq(Nat) /\ fifo \in Seq(Chars)
          /\ Len(fifo) <= TxDepth
      BY <1>1
    <2> QED
      BY <1>2, <1>4, <2>2, <2>3, Zenon DEF FullOnlyByXchar, s
  <1>5. CASE x_char = 0 /\ ~ stp /\ xmit # <<>>
    <2>1. /\ s.xmit = rest /\ s.x = 0 /\ s.stop = (rest = <<>>)
          /\ s.wake = Wakes(rest) /\ s.fifo = PushAll(fifo, t)
      BY <1>5 DEF transmit_chars
    <2>2. /\ Take \in Seq(Nat) /\ Len(Take) = m /\ m \in 0 .. Len(xmit) /\ m <= Batch
          /\ \A i \in 1 .. m : Take[i] = xmit[i] /\ xmit[i] \in Nat
      <3>1. m \in 0 .. Len(xmit) /\ m <= Batch
        BY <1>1
      <3>2. \A i \in 1 .. Len(xmit) : xmit[i] \in Nat
        BY <1>1, ElementOfSeq
      <3>3. Take = SubSeq(xmit, 1, m)
        BY DEF Take
      <3> HIDE DEF m
      <3>4. \A i \in 1 .. m : xmit[i] \in Nat
        BY <1>1, <3>1, <3>2
      <3>5. /\ Take \in Seq(Nat) /\ Len(Take) = IF 1 <= m THEN m - 1 + 1 ELSE 0
            /\ \A i \in 1 .. m - 1 + 1 : Take[i] = xmit[1 + i - 1]
        BY <1>1, <3>1, <3>3, <3>4, SubSeqProperties
      <3> QED
        BY <1>1, <3>1, <3>4, <3>5
    <2> HIDE DEF m
    <2>3. t \in Seq(Chars) /\ Len(t) = m /\ \A i \in 1 .. m : t[i] = Tty(xmit[i])
      <3>1. DOMAIN Take = 1 .. m
        BY <2>2, LenProperties
      <3>2. \A i \in 1 .. m : Tty(Take[i]) \in Chars /\ Tty(Take[i]) = Tty(xmit[i])
        BY <2>2 DEF Tty, Chars
      <3> QED
        BY <1>1, <2>2, <3>1, <3>2
    <2>4. /\ rest \in Seq(Nat) /\ Len(rest) = Len(xmit) - m
          /\ \A i \in 1 .. Len(xmit) - m : rest[i] = xmit[m + i]
      <3>1. \A i \in m + 1 .. Len(xmit) : xmit[i] \in Nat
        BY <1>1, <2>2, ElementOfSeq
      <3>2. rest = SubSeq(xmit, m + 1, Len(xmit))
        BY <2>2
      <3>3. /\ rest \in Seq(Nat)
            /\ Len(rest) = IF m + 1 <= Len(xmit) THEN Len(xmit) - (m + 1) + 1 ELSE 0
            /\ \A i \in 1 .. Len(xmit) - (m + 1) + 1 : rest[i] = xmit[m + 1 + i - 1]
        BY <1>1, <2>2, <3>1, <3>2, SubSeqProperties
      <3> QED
        BY <1>1, <2>2, <3>3
    <2>5. Len(fifo) + m < TxDepth
      <3>1. CASE Room
        BY <1>1, <2>2, <3>1 DEF Room
      <3>2. CASE fifo = <<>>
        BY <1>1, <2>2, <3>2
      <3> QED
        BY <3>1, <3>2
    <2> HIDE DEF t, rest
    <2>6. PushAll(fifo, t) = fifo \o t
      <3>1. Len(t) < TxDepth - Len(fifo)
        BY <1>1, <2>2, <2>3, <2>5
      <3>2. SubSeq(t, 1, Len(t)) = t
        BY <2>3
      <3> QED
        BY <3>1, <3>2 DEF PushAll
    <2>7. /\ fifo \o t \in Seq(Chars) /\ Len(fifo \o t) = Len(fifo) + m
          /\ Range(rest) \subseteq Range(xmit)
          /\ Ordered(wire, fifo \o t, rest)
          /\ Content(wire, fifo \o t, rest) = Content(wire, fifo, xmit)
      <3>1. m \in Nat /\ m <= Len(xmit)
        BY <1>1, <2>2
      <3>2. wire \in Seq(Nat) /\ fifo \in Seq(Chars) /\ xmit \in Seq(Nat)
        BY <1>1
      <3>3. /\ fifo \o t \in Seq(Chars) /\ Len(fifo \o t) = Len(fifo) + m
            /\ Range(rest) \subseteq Range(xmit)
            /\ Ordered(wire, fifo, xmit) => Ordered(wire, fifo \o t, rest)
            /\ Content(wire, fifo \o t, rest) = Content(wire, fifo, xmit)
        <4>1. Splits(xmit, m, t, rest)
          BY <2>3, <2>4, <3>1 DEF Splits
        <4> QED
          BY <3>2, <4>1, PushData
      <3> QED
        BY <1>2, <3>3
    <2> HIDE DEF s
    <2>8. /\ s.fifo = fifo \o t /\ s.xmit = rest
          /\ Len(fifo \o t) <= TxDepth /\ Len(fifo \o t) # TxDepth /\ Len(rest) <= Len(xmit)
          /\ Wakes(rest) \in BOOLEAN /\ (~ Wakes(rest) => Len(rest) >= Wake)
      BY <1>1, <2>1, <2>2, <2>4, <2>5, <2>6, <2>7, SMTT(60) DEF Wakes
    <2> QED
      BY <2>1, <2>4, <2>7, <2>8 DEF s
  <1> QED
    BY <1>3, <1>4, <1>5

\* What every path through transmit_chars leaves behind, taken as one step.
OutputKept ==
    /\ xmit' \in Seq(Nat) /\ Len(xmit') <= Len(xmit) /\ Range(xmit') \subseteq Range(xmit)
    /\ x_char' \in {0, x_char}
    /\ fifo' \in Seq(Chars) /\ Len(fifo') <= TxDepth
    /\ Len(fifo') = TxDepth => Last(fifo')[1] = "x"
    /\ Ordered(wire, fifo', xmit')
    /\ Content(wire, fifo', xmit') = Content(wire, fifo, xmit)
    /\ thre' \in BOOLEAN /\ asleep' \in BOOLEAN
    /\ asleep' => Len(xmit') >= Wake

\* The step of transmit_chars.
LEMMA TransmittedKeeps ==
  ASSUME UartInv, Room \/ fifo = <<>>, NEW stp \in BOOLEAN, NEW ier \in BOOLEAN,
         Transmitted(transmit_chars(stp), ier)
  PROVE  OutputKept /\ thre' = ier /\ x_char' = 0
  <1> DEFINE s == transmit_chars(stp)
  <1>1. UartTypes /\ TtyOutputInOrder /\ FullOnlyByXchar /\ OutputCovered
    BY DEF UartInv
  <1>2. /\ s.xmit \in Seq(Nat) /\ Len(s.xmit) <= Len(xmit)
        /\ Range(s.xmit) \subseteq Range(xmit) /\ s.x = 0
        /\ s.fifo \in Seq(Chars) /\ Len(s.fifo) <= TxDepth
        /\ Len(s.fifo) = TxDepth => Last(s.fifo)[1] = "x"
        /\ Ordered(wire, s.fifo, s.xmit)
        /\ Content(wire, s.fifo, s.xmit) = Content(wire, fifo, xmit)
        /\ s.wake \in BOOLEAN
        /\ s.wake \/ s.xmit = xmit \/ Len(s.xmit) >= Wake
    BY <1>1, TransmitFacts
  <1> HIDE DEF s
  <1>3. /\ xmit' = s.xmit /\ x_char' = s.x /\ fifo' = s.fifo /\ thre' = ier
        /\ asleep' = (asleep /\ ~ s.wake)
    BY DEF Transmitted, s
  <1>4. asleep \in BOOLEAN /\ (asleep => Len(xmit) >= Wake)
    BY <1>1 DEF UartTypes, TxTypes, OutputCovered
  <1>5. asleep' \in BOOLEAN /\ (asleep' => Len(xmit') >= Wake)
    BY <1>2, <1>3, <1>4
  <1> QED
    BY <1>2, <1>3, <1>5, Zenon DEF OutputKept

\* A step that leaves the transmit side alone.
LEMMA SameKeeps ==
  ASSUME UartInv, UNCHANGED <<txv, asleep>>, thre' \in BOOLEAN
  PROVE  OutputKept
  <1>1. xmit' = xmit /\ x_char' = x_char /\ fifo' = fifo /\ asleep' = asleep
    BY DEF txv
  <1>2. /\ xmit \in Seq(Nat) /\ fifo \in Seq(Chars) /\ Len(fifo) <= TxDepth
        /\ asleep \in BOOLEAN /\ FullOnlyByXchar /\ (asleep => Len(xmit) >= Wake)
    BY DEF UartInv, UartTypes, TxTypes, OutputCovered
  <1>3. Ordered(wire, fifo, xmit)
    BY OrderParts DEF UartInv
  <1>4. Len(xmit) <= Len(xmit)
    BY <1>2
  <1>5. asleep' \in BOOLEAN /\ (asleep' => Len(xmit') >= Wake)
    BY <1>1, <1>2
  <1> QED
    BY <1>1, <1>2, <1>3, <1>4, <1>5 DEF OutputKept, FullOnlyByXchar

\* start_tx leaves THRE_IEN set, on both of its paths.
LEMMA StartTxKeeps ==
  ASSUME UartInv, NEW stp \in BOOLEAN, start_tx(stp)
  PROVE  OutputKept /\ thre' = TRUE /\ cut' = "no"
  <1>1. CASE Room
    BY <1>1, TransmittedKeeps DEF start_tx
  <1>2. CASE ~ Room
    BY <1>2, SameKeeps DEF start_tx
  <1> QED
    BY <1>1, <1>2

\* __uart_start: THRE_IEN is set whenever there is something to send.
LEMMA UartStartKeeps ==
  ASSUME UartInv, NEW stp \in BOOLEAN, uart_start(stp)
  PROVE  /\ OutputKept
         /\ \/ thre' = TRUE /\ cut' = "no"
            \/ thre' = thre /\ cut' = cut /\ (xmit' = <<>> \/ stp)
  <1>1. CASE xmit # <<>> /\ ~ stp
    BY <1>1, StartTxKeeps DEF uart_start
  <1>2. CASE ~ (xmit # <<>> /\ ~ stp)
    <2>1. UNCHANGED <<txv, thre, asleep, cut>> /\ thre \in BOOLEAN
      BY <1>2 DEF uart_start, UartInv, UartTypes, TxTypes
    <2>2. xmit' = xmit
      BY <2>1 DEF txv
    <2> QED
      BY <1>2, <2>1, <2>2, SameKeeps
  <1> QED
    BY <1>1, <1>2

\* What such a step does for the invariant's transmit side.
LEMMA KeptInv ==
  ASSUME UartInv, OutputKept, UNCHANGED <<wire, flushed>>, n'.written = n.written
  PROVE  /\ TxTypes' /\ TtyOutputInOrder' /\ FullOnlyByXchar'
         /\ (asleep => Len(xmit) >= Wake)'
         /\ xmit' # <<>> => xmit # <<>>
  <1>1. /\ TxTypes /\ TtyOutputInOrder
        /\ Cap \in Nat /\ MaxX \in Nat
    BY UartConstants DEF UartInv, UartTypes
  <1>2. Len(xmit') <= Cap
    <2>1. Len(xmit) \in Nat /\ Len(xmit') \in Nat
      BY <1>1 DEF TxTypes, OutputKept
    <2> QED
      BY <1>1, <2>1 DEF TxTypes, OutputKept
  <1>3. x_char' \in 0 .. MaxX
    BY <1>1 DEF TxTypes, OutputKept
  <1>4. TxTypes'
    BY <1>1, <1>2, <1>3 DEF TxTypes, OutputKept
  <1>5. TtyOutputInOrder'
    <2>1. Content(wire, fifo, xmit) = (1 .. n.written) \ flushed
      BY <1>1, OrderParts
    <2>2. Ordered(wire', fifo', xmit') /\ Content(wire', fifo', xmit') = ((1 .. n.written) \ flushed)'
      BY <2>1 DEF OutputKept
    <2> QED
      BY <2>2 DEF TtyOutputInOrder, Ordered, Content, InFifo, TtyChars, PlacesOf, CharsOf
  <1>6. xmit' # <<>> => xmit # <<>>
    BY <1>1 DEF TxTypes, OutputKept
  <1> QED
    BY <1>4, <1>5, <1>6 DEF OutputKept, FullOnlyByXchar
-----------------------------------------------------------------------------
(* The invariant *)

\* It holds when the port is opened.
LEMMA UartInitInv == UartInit => UartInv
  <1> SUFFICES ASSUME UartInit PROVE UartInv
    OBVIOUS
  <1> USE UartConstants DEF UartInit
  <1>1. /\ DOMAIN <<>> = {} /\ Len(<<>>) = 0 /\ Range(<<>>) = {}
        /\ <<>> \in Seq(Nat) /\ <<>> \in Seq(Chars)
    BY DEF Range
  <1>2. UartTypes
    <2>1. n \in UartCounts
      BY DEF UartCounts
    <2>2. TxTypes
      <3>1. xmit \in Seq(Nat) /\ Len(xmit) = 0 /\ Range(xmit) = {} /\ fifo \in Seq(Chars) /\ Len(fifo) = 0
        BY <1>1
      <3>2. Cap \in Nat /\ TxDepth \in Nat
        OBVIOUS
      <3>3. x_char \in 0 .. MaxX /\ thre \in BOOLEAN /\ asleep \in BOOLEAN
        <4>1. MaxX \in Nat /\ x_char = 0
          OBVIOUS
        <4>2. thre \in BOOLEAN /\ asleep \in BOOLEAN
          OBVIOUS
        <4> QED
          BY <4>1, <4>2
      <3>4. Len(xmit) <= Cap /\ Len(fifo) <= TxDepth /\ Range(xmit) \subseteq 1 .. MaxChars
        BY <3>1, <3>2
      <3> QED
        BY <3>1, <3>3, <3>4, Zenon DEF TxTypes
    <2>3. RxTypes
      <3>1. rfifo \in Seq(Nat) /\ flip \in Seq(Nat) /\ Len(rfifo) = 0 /\ RxDepth \in Nat
        BY <1>1
      <3>2. /\ over \in BOOLEAN /\ overrun \in Nat /\ lost \subseteq 1 .. n.arrived
            /\ buf_overrun \in Nat /\ dropped \subseteq 1 .. n.arrived
        OBVIOUS
      <3>3. Len(rfifo) <= RxDepth
        BY <3>1
      <3> QED
        BY <3>1, <3>2, <3>3, Zenon DEF RxTypes
    <2>4. RestTypes
      <3>1. halting \in Nat /\ resuming \in Nat
        OBVIOUS
      <3>2. wire \in Seq(Nat) /\ flushed \subseteq 1 .. n.written
        BY <1>1
      <3> QED
        BY <2>1, <3>1, <3>2, Zenon DEF RestTypes
    <2> QED
      BY <2>2, <2>3, <2>4 DEF UartTypes
  <1>3. TtyOutputInOrder
    <2>1. InFifo = {} /\ TtyChars = {}
      BY <1>1 DEF InFifo, TtyChars
    <2>2. 1 .. n.written = {}
      OBVIOUS
    <2> QED
      BY <1>1, <2>1, <2>2 DEF TtyOutputInOrder, Ascending, Before
  <1>4. FullOnlyByXchar /\ OutputCovered /\ ConsoleKnows
    BY <1>1 DEF FullOnlyByXchar, OutputCovered, ConsoleKnows
  <1>5. RxInOrder
    <2>1. flip \o rfifo = <<>> /\ 1 .. n.arrived = {}
      OBVIOUS
    <2> QED
      BY <1>1, <2>1 DEF RxInOrder, Ascending
  <1> QED
    BY <1>2, <1>3, <1>4, <1>5 DEF UartInv

\* What is left of an ascending sequence a \o r when r is cut off after c.
LEMMA CutAscending ==
  ASSUME NEW a \in Seq(Nat), NEW r \in Seq(Nat), NEW c \in 0 .. Len(r), Ascending(a \o r)
  PROVE  LET b == a \o SubSeq(r, 1, c)
             gone == {r[i] : i \in c + 1 .. Len(r)}
         IN  /\ b \o <<>> \in Seq(Nat) /\ b \in Seq(Nat) /\ Ascending(b \o <<>>)
             /\ Range(b \o <<>>) = Range(a \o r) \ gone /\ gone \subseteq Range(a \o r)
  <1> DEFINE b == a \o SubSeq(r, 1, c)
             L == Len(a)
             M == Len(r)
             w == a \o r
  <1>1. L \in Nat /\ M \in Nat /\ c \in Nat /\ c <= M
    OBVIOUS
  <1>2. SubSeq(r, 1, c) \in Seq(Nat) /\ Len(SubSeq(r, 1, c)) = c
        /\ \A i \in 1 .. c : SubSeq(r, 1, c)[i] = r[i]
    <2>1. \A i \in 1 .. c : r[i] \in Nat
      BY ElementOfSeq
    <2> QED
      BY <1>1, <2>1, SubSeqProperties
  <1>3. /\ w \in Seq(Nat) /\ Len(w) = L + M /\ DOMAIN w = 1 .. L + M
        /\ \A i \in 1 .. L + M : w[i] = IF i <= L THEN a[i] ELSE r[i - L]
    BY ConcatProperties, LenProperties
  <1>4. /\ b \in Seq(Nat) /\ Len(b) = L + c /\ DOMAIN b = 1 .. L + c
        /\ \A i \in 1 .. L + c : b[i] = IF i <= L THEN a[i] ELSE SubSeq(r, 1, c)[i - L]
    BY <1>2, ConcatProperties, LenProperties
  <1>5. b \o <<>> = b
    BY <1>4, ConcatEmptySeq
  <1>6. ASSUME NEW i \in 1 .. L + c PROVE b[i] = w[i] /\ i \in 1 .. L + M
    <2>1. CASE i <= L
      BY <1>1, <1>3, <1>4, <2>1
    <2>2. CASE ~ (i <= L)
      <3>1. i - L \in 1 .. c
        BY <1>1, <2>2
      <3> QED
        BY <1>1, <1>2, <1>3, <1>4, <2>2, <3>1
    <2> QED
      BY <2>1, <2>2
  <1>7. ASSUME NEW i \in c + 1 .. M PROVE r[i] = w[L + i] /\ L + i \in L + c + 1 .. L + M
    BY <1>1, <1>3
  <1> HIDE DEF L, M, w, b
  <1>8. Ascending(w)
    BY DEF w
  <1>9. Ascending(b)
    BY <1>1, <1>3, <1>4, <1>6, <1>8 DEF Ascending
  <1>10. Range(w) = {w[i] : i \in 1 .. L + M} /\ Range(b) = {b[i] : i \in 1 .. L + c}
    BY <1>3, <1>4 DEF Range
  <1>11. {r[i] : i \in c + 1 .. M} = {w[i] : i \in L + c + 1 .. L + M}
    <2>1. ASSUME NEW k \in L + c + 1 .. L + M PROVE k - L \in c + 1 .. M /\ w[k] = r[k - L]
      <3>1. k - L \in c + 1 .. M /\ L + (k - L) = k
        BY <1>1
      <3> QED
        BY <1>7, <3>1
    <2>2. \A x \in {r[i] : i \in c + 1 .. M} : x \in {w[i] : i \in L + c + 1 .. L + M}
      BY <1>7
    <2>3. \A x \in {w[i] : i \in L + c + 1 .. L + M} : x \in {r[i] : i \in c + 1 .. M}
      BY <2>1
    <2> QED
      BY <2>2, <2>3, Zenon
  <1>12. \A i \in 1 .. L + c, k \in L + c + 1 .. L + M : w[i] # w[k]
    <2> SUFFICES ASSUME NEW i \in 1 .. L + c, NEW k \in L + c + 1 .. L + M PROVE w[i] # w[k]
      OBVIOUS
    <2>1. i \in 1 .. L + M /\ k \in 1 .. L + M /\ i < k
      BY <1>1
    <2>2. w[i] < w[k] /\ w[i] \in Nat /\ w[k] \in Nat
      BY <1>3, <1>8, <2>1, ElementOfSeq DEF Ascending
    <2> QED
      BY <2>2
  <1>13. \A k \in 1 .. L + M : k \in 1 .. L + c \/ k \in L + c + 1 .. L + M
    BY <1>1
  <1>14. \A k \in L + c + 1 .. L + M : k \in 1 .. L + M
    BY <1>1
  <1>15. Range(b) = Range(w) \ {w[i] : i \in L + c + 1 .. L + M}
    <2>1. \A x \in Range(b) : x \in Range(w) /\ x \notin {w[i] : i \in L + c + 1 .. L + M}
      BY <1>6, <1>10, <1>12
    <2>2. \A x \in Range(w) : x \in Range(b) \/ x \in {w[i] : i \in L + c + 1 .. L + M}
      BY <1>6, <1>10, <1>13
    <2> QED
      BY <2>1, <2>2, Zenon
  <1>16. {w[i] : i \in L + c + 1 .. L + M} \subseteq Range(w)
    BY <1>10, <1>14
  <1> QED
    BY <1>4, <1>5, <1>9, <1>11, <1>15, <1>16 DEF w, M, b

\* A step that leaves the receive side alone.
LEMMA RxSame ==
  ASSUME UartInv, UNCHANGED rxv, n'.arrived = n.arrived
  PROVE  RxTypes' /\ RxInOrder'
  <1>1. /\ rfifo' = rfifo /\ over' = over /\ flip' = flip /\ overrun' = overrun /\ lost' = lost
        /\ buf_overrun' = buf_overrun /\ dropped' = dropped
    BY DEF rxv
  <1>2. RxTypes /\ RxInOrder
    BY DEF UartInv, UartTypes
  <1> QED
    BY <1>1, <1>2 DEF RxTypes, RxInOrder

\* Every step of Next keeps the invariant.
LEMMA UartStepInv == UartInv /\ [UartNext]_vars => UartInv'
  <1> SUFFICES ASSUME UartInv, [UartNext]_vars PROVE UartInv'
    OBVIOUS
  <1>1. /\ UartTypes /\ TxTypes /\ RxTypes /\ RestTypes /\ TtyOutputInOrder /\ FullOnlyByXchar
        /\ OutputCovered /\ RxInOrder /\ ConsoleKnows
    BY DEF UartInv, UartTypes
  <1>2. /\ n \in UartCounts /\ n.written \in 0 .. MaxChars /\ n.x \in 0 .. MaxX /\ n.con \in Nat
        /\ n.arrived \in Nat /\ n.stops \in Nat /\ n.flushes \in Nat
        /\ Cap \in Nat /\ TxDepth \in Nat /\ TxDepth >= 2 /\ RxDepth \in Nat /\ MaxChars \in Nat
        /\ MaxX \in Nat /\ Wake \in Nat /\ Wake <= Cap /\ Cap >= 1
    BY <1>1, UartConstants, SMTT(60) DEF RestTypes, UartCounts
  <1>3. ASSUME NEW k \in 1 .. Cap, WriteCopy(k) PROVE UartInv'
    <2>1. CASE Len(xmit) = Cap
      <3>1. /\ asleep' = TRUE /\ UNCHANGED <<txv, n, writing>>
            /\ UNCHANGED <<wire, thre, rx_ien, tstopped, halting, resuming, cut, xpc, con, saved, rxv, flushed>>
        BY <1>3, <2>1 DEF flow, WriteCopy, txv
      <3>2. TxTypes' /\ RestTypes'
        BY <1>1, <3>1 DEF TxTypes, RestTypes, txv
      <3>3. RxTypes' /\ RxInOrder'
        BY <3>1, RxSame
      <3>4. TtyOutputInOrder' /\ FullOnlyByXchar'
        BY <1>1, <3>1 DEF TtyOutputInOrder, FullOnlyByXchar, InFifo, TtyChars, txv
      <3>5. OutputCovered' /\ ConsoleKnows'
        BY <1>1, <1>2, <2>1, <3>1 DEF OutputCovered, ConsoleKnows, txv
      <3> QED
        BY <3>2, <3>3, <3>4, <3>5 DEF UartInv, UartTypes
    <2>2. CASE Len(xmit) # Cap
      <3> DEFINE t == [i \in 1 .. k |-> n.written + i]
      <3>1. /\ k <= Cap - Len(xmit) /\ n.written + k <= MaxChars /\ ~ asleep
            /\ xmit' = xmit \o t
            /\ n' = [n EXCEPT !.written = @ + k]
            /\ writing' = TRUE /\ UNCHANGED asleep
            /\ UNCHANGED <<x_char, fifo, wire, thre, rx_ien, tstopped, halting, resuming, cut, xpc, con, saved, rxv, flushed>>
        BY <1>3, <2>2 DEF flow, WriteCopy
      <3>2. /\ k \in Nat /\ k >= 1 /\ n.written + k \in 0 .. MaxChars /\ n.written \in Nat
        <4>1. k \in Nat /\ k >= 1 /\ n.written \in Nat /\ MaxChars \in Nat
          BY <1>2
        <4>2. n.written + k <= MaxChars
          BY <3>1
        <4> QED
          BY <4>1, <4>2
      <3>3. /\ n' \in UartCounts /\ n'.written = n.written + k /\ n'.arrived = n.arrived
            /\ n'.stops = n.stops
        BY <1>2, <3>1, <3>2 DEF UartCounts
      <3>4. /\ t \in Seq(Nat) /\ Len(t) = k /\ Range(t) = (n.written + 1) .. (n.written + k)
            /\ Ascending(t)
        <4>1. \A i \in 1 .. k : n.written + i \in Nat
          BY <3>2
        <4>2. t \in Seq(Nat) /\ Len(t) = k /\ DOMAIN t = 1 .. k
          BY <3>2, <4>1
        <4>3. \A i \in 1 .. k : t[i] = n.written + i
          OBVIOUS
        <4> HIDE DEF t
        <4>4. ASSUME NEW a \in (n.written + 1) .. (n.written + k) PROVE a \in Range(t)
          <5>1. a - n.written \in 1 .. k /\ n.written + (a - n.written) = a
            BY <3>2
          <5> QED
            BY <4>2, <4>3, <5>1 DEF Range
        <4>5. ASSUME NEW i \in 1 .. k PROVE t[i] \in (n.written + 1) .. (n.written + k)
          BY <3>2, <4>3
        <4>6. Ascending(t)
          BY <3>2, <4>2, <4>3 DEF Ascending
        <4> QED
          BY <4>2, <4>4, <4>5, <4>6 DEF Range
      <3> HIDE DEF t
      <3>5. /\ xmit \in Seq(Nat) /\ Len(xmit) \in Nat /\ Ordered(wire, fifo, xmit)
            /\ Content(wire, fifo, xmit) = (1 .. n.written) \ flushed
        BY <1>1, OrderParts DEF TxTypes
      <3>6. /\ \A a \in Content(wire, fifo, xmit) : a \in 1 .. n.written
            /\ \A a \in 1 .. n.written, b \in Range(t) : a < b
        BY <3>2, <3>4, <3>5
      <3>7. /\ Before(Range(wire), Range(t)) /\ Before(CharsOf(fifo), Range(t))
            /\ Before(Range(xmit), Range(t))
        BY <3>6 DEF Before, Content
      <3>8. /\ xmit' \in Seq(Nat) /\ Len(xmit') = Len(xmit) + k
            /\ Range(xmit') = Range(xmit) \cup Range(t) /\ Ascending(xmit')
        <4>1. Ascending(xmit)
          BY <3>5 DEF Ordered
        <4> QED
          BY <3>1, <3>4, <3>5, <3>7, <4>1, ConcatAscending
      <3>9. Ordered(wire, fifo, xmit')
        BY <3>5, <3>7, <3>8 DEF Ordered, Before
      <3>10. Content(wire, fifo, xmit') = (1 .. n'.written) \ flushed
        <4>1. 1 .. n'.written = (1 .. n.written) \cup Range(t)
          BY <3>2, <3>3, <3>4
        <4>2. \A a \in Range(t) : a \notin flushed
          <5>1. flushed \subseteq 1 .. n.written
            BY <1>1 DEF RestTypes
          <5> QED
            BY <3>2, <3>4, <5>1
        <4>3. Content(wire, fifo, xmit') = Content(wire, fifo, xmit) \cup Range(t)
          BY <3>8 DEF Content
        <4> QED
          BY <3>5, <4>1, <4>2, <4>3
      <3>11. TtyOutputInOrder' /\ FullOnlyByXchar'
        <4>1. Ordered(wire', fifo', xmit') /\ Content(wire', fifo', xmit') = ((1 .. n.written) \ flushed)'
          BY <3>1, <3>9, <3>10
        <4> QED
          BY <1>1, <3>1, <4>1
             DEF TtyOutputInOrder, Ordered, Content, InFifo, TtyChars, PlacesOf, CharsOf, FullOnlyByXchar
      <3>12. TxTypes'
        <4>1. Len(xmit') <= Cap
          BY <1>2, <3>1, <3>2, <3>5, <3>8
        <4>2. Range(xmit') \subseteq 1 .. MaxChars
          <5>1. Range(t) \subseteq 1 .. MaxChars
            BY <1>2, <3>2, <3>4
          <5>2. Range(xmit) \subseteq 1 .. MaxChars
            BY <1>1 DEF TxTypes
          <5> QED
            BY <3>8, <5>1, <5>2
        <4> QED
          BY <1>1, <3>1, <3>8, <4>1, <4>2 DEF TxTypes
      <3>13. RestTypes'
        <4>1. flushed' \subseteq 1 .. n'.written
          BY <1>1, <3>1, <3>2, <3>3 DEF RestTypes
        <4> QED
          BY <1>1, <3>1, <3>3, <4>1 DEF RestTypes
      <3>14. RxTypes' /\ RxInOrder'
        BY <3>1, <3>3, RxSame
      <3>15. OutputCovered' /\ ConsoleKnows'
        BY <1>1, <3>1, <3>3 DEF OutputCovered, ConsoleKnows
      <3> QED
        BY <3>11, <3>12, <3>13, <3>14, <3>15 DEF UartInv, UartTypes
    <2> QED
      BY <2>1, <2>2
  <1>4. CASE WriteStart
    <2>1. /\ uart_start(tstopped) /\ writing' = FALSE
          /\ UNCHANGED <<wire, rx_ien, tstopped, halting, resuming, xpc, con, saved, rxv, flushed, n>>
          /\ con = "off"
      BY <1>4 DEF flow, WriteStart, CpuFree
    <2>2. /\ OutputKept
          /\ \/ thre' = TRUE /\ cut' = "no"
             \/ thre' = thre /\ cut' = cut /\ (xmit' = <<>> \/ tstopped)
      BY <1>1, <2>1, UartStartKeeps DEF RestTypes
    <2>3. /\ TxTypes' /\ TtyOutputInOrder' /\ FullOnlyByXchar' /\ (asleep => Len(xmit) >= Wake)'
      BY <2>1, <2>2, KeptInv
    <2>4. RestTypes' /\ ConsoleKnows'
      <3>1. halting' \in Nat /\ resuming' \in Nat
        BY <1>1, <1>2, <2>1, <2>2 DEF RestTypes
      <3>2. ConsoleKnows'
        BY <1>1, <2>1, <2>2 DEF ConsoleKnows, RestTypes
      <3> QED
        BY <1>1, <2>1, <2>2, <3>1, <3>2, Zenon DEF RestTypes
    <2>5. RxTypes' /\ RxInOrder'
      BY <2>1, RxSame
    <2>6. OutputCovered'
      <3>1. x_char' \in {0, x_char}
        BY <2>2 DEF OutputKept
      <3> QED
        BY <1>1, <2>1, <2>2, <2>3, <3>1 DEF OutputCovered
    <2> QED
      BY <2>3, <2>4, <2>5, <2>6 DEF UartInv, UartTypes
  <1>5. CASE SetXchar
    <2>1. /\ n.x < MaxX /\ x_char' = n.x + 1 /\ n' = [n EXCEPT !.x = @ + 1] /\ xpc' = "start"
          /\ UNCHANGED <<xmit, fifo, wire, thre, rx_ien, tstopped, halting, resuming, cut, writing, asleep, con,
                         saved, rxv, flushed>>
      BY <1>5 DEF flow, SetXchar
    <2>2. /\ n' \in UartCounts /\ n'.written = n.written /\ n'.arrived = n.arrived
          /\ n'.stops = n.stops /\ x_char' \in 0 .. MaxX
      BY <1>2, <2>1 DEF UartCounts
    <2>3. TxTypes' /\ RestTypes'
      BY <1>1, <2>1, <2>2 DEF TxTypes, RestTypes
    <2>4. RxTypes' /\ RxInOrder'
      BY <2>1, <2>2, RxSame
    <2>5. TtyOutputInOrder' /\ FullOnlyByXchar'
      BY <1>1, <2>1, <2>2 DEF TtyOutputInOrder, FullOnlyByXchar, InFifo, TtyChars
    <2>6. OutputCovered' /\ ConsoleKnows'
      BY <1>1, <2>1, <2>2 DEF OutputCovered, ConsoleKnows
    <2> QED
      BY <2>3, <2>4, <2>5, <2>6 DEF UartInv, UartTypes
  <1>6. CASE SendXchar
    <2>1. /\ start_tx(tstopped) /\ xpc' = "idle" /\ con = "off"
          /\ UNCHANGED <<wire, rx_ien, tstopped, halting, resuming, writing, con, saved, rxv, flushed, n>>
      BY <1>6 DEF flow, SendXchar, CpuFree
    <2>2. OutputKept /\ thre' = TRUE /\ cut' = "no"
      BY <1>1, <2>1, StartTxKeeps DEF RestTypes
    <2>3. /\ TxTypes' /\ TtyOutputInOrder' /\ FullOnlyByXchar' /\ (asleep => Len(xmit) >= Wake)'
      BY <2>1, <2>2, KeptInv
    <2>4. RestTypes' /\ ConsoleKnows'
      <3>1. halting' \in Nat /\ resuming' \in Nat
        BY <1>1, <1>2, <2>1, <2>2 DEF RestTypes
      <3>2. ConsoleKnows'
        BY <1>1, <2>1, <2>2 DEF ConsoleKnows, RestTypes
      <3> QED
        BY <1>1, <2>1, <2>2, <3>1, <3>2, Zenon DEF RestTypes
    <2>5. RxTypes' /\ RxInOrder'
      BY <2>1, RxSame
    <2>6. OutputCovered'
      BY <2>2, <2>3 DEF OutputCovered
    <2> QED
      BY <2>3, <2>4, <2>5, <2>6 DEF UartInv, UartTypes
  <1>7. CASE TtyStop
    <2>1. /\ tstopped' = TRUE /\ halting' = halting + 1 /\ n' = [n EXCEPT !.stops = @ + 1]
          /\ UNCHANGED <<txv, wire, thre, rx_ien, resuming, cut, writing, asleep, xpc, con,
                         saved, rxv, flushed>>
      BY <1>7 DEF TtyStop
    <2>2. /\ n' \in UartCounts /\ n'.written = n.written /\ n'.arrived = n.arrived
          /\ n'.stops > 0
      BY <1>2, <2>1 DEF UartCounts
    <2>3. /\ TxTypes' /\ TtyOutputInOrder' /\ FullOnlyByXchar' /\ (asleep => Len(xmit) >= Wake)'
      BY <1>1, <2>1, <2>2, SameKeeps, KeptInv DEF TxTypes
    <2>4. RestTypes' /\ ConsoleKnows'
      BY <1>1, <2>1, <2>2 DEF RestTypes, ConsoleKnows
    <2>5. RxTypes' /\ RxInOrder'
      BY <2>1, <2>2, RxSame
    <2>6. OutputCovered'
      BY <1>1, <2>1, <2>2, <2>3 DEF OutputCovered, txv
    <2> QED
      BY <2>3, <2>4, <2>5, <2>6 DEF UartInv, UartTypes
  <1>8. CASE TtyStart
    <2>1. /\ tstopped' = FALSE /\ resuming' = resuming + 1 /\ resuming \in Nat
          /\ UNCHANGED <<txv, wire, thre, rx_ien, halting, cut, writing, asleep, xpc, con,
                         saved, rxv, flushed, n>>
      BY <1>1, <1>8 DEF TtyStart, RestTypes
    <2>2. n' = n /\ resuming' > 0
      BY <2>1
    <2>3. /\ TxTypes' /\ TtyOutputInOrder' /\ FullOnlyByXchar' /\ (asleep => Len(xmit) >= Wake)'
      BY <1>1, <2>1, <2>2, SameKeeps, KeptInv DEF TxTypes
    <2>4. RestTypes' /\ ConsoleKnows'
      <3>1. halting' \in Nat /\ resuming' \in Nat
        BY <1>1, <1>2, <2>1, <2>2 DEF RestTypes
      <3>2. ConsoleKnows'
        BY <1>1, <2>1, <2>2 DEF ConsoleKnows, RestTypes
      <3> QED
        BY <1>1, <2>1, <2>2, <3>1, <3>2, Zenon DEF RestTypes
    <2>5. RxTypes' /\ RxInOrder'
      BY <2>1, <2>2, RxSame
    <2>6. OutputCovered'
      BY <1>1, <2>1, <2>2, <2>3 DEF OutputCovered, txv
    <2> QED
      BY <2>3, <2>4, <2>5, <2>6 DEF UartInv, UartTypes
  <1>17. CASE uart_stop
    <2>1. /\ halting > 0 /\ halting' = halting - 1 /\ thre' = FALSE /\ halting \in Nat
          /\ cut' = (IF cut = "late" \/ ~ tstopped THEN "late" ELSE "stop") /\ con = "off"
          /\ UNCHANGED <<txv, wire, rx_ien, tstopped, resuming, writing, asleep, xpc, con, saved,
                         rxv, flushed, n>>
      BY <1>1, <1>17 DEF uart_stop, RestTypes, CpuFree
    <2>2. n' = n /\ (tstopped' \/ cut' = "late") /\ cut' # "no" /\ cut' \in {"no", "stop", "late"}
      BY <1>1, <2>1 DEF RestTypes
    <2>3. /\ TxTypes' /\ TtyOutputInOrder' /\ FullOnlyByXchar' /\ (asleep => Len(xmit) >= Wake)'
      BY <1>1, <2>1, <2>2, SameKeeps, KeptInv DEF TxTypes
    <2>4. RestTypes' /\ ConsoleKnows'
      BY <1>1, <2>1, <2>2 DEF RestTypes, ConsoleKnows
    <2>5. RxTypes' /\ RxInOrder'
      BY <2>1, <2>2, RxSame
    <2>6. OutputCovered'
      BY <1>1, <2>1, <2>2, <2>3 DEF OutputCovered, txv
    <2> QED
      BY <2>3, <2>4, <2>5, <2>6 DEF UartInv, UartTypes
  <1>18. CASE Resume
    <2>1. /\ uart_start(tstopped) /\ resuming > 0 /\ resuming' = resuming - 1
          /\ resuming \in Nat /\ con = "off"
          /\ UNCHANGED <<wire, rx_ien, tstopped, halting, writing, xpc, con, saved, rxv, flushed, n>>
      BY <1>1, <1>18 DEF Resume, RestTypes, CpuFree
    <2>2. /\ OutputKept
          /\ \/ thre' = TRUE /\ cut' = "no"
             \/ thre' = thre /\ cut' = cut /\ (xmit' = <<>> \/ tstopped)
      BY <1>1, <2>1, UartStartKeeps DEF RestTypes
    <2>3. /\ TxTypes' /\ TtyOutputInOrder' /\ FullOnlyByXchar' /\ (asleep => Len(xmit) >= Wake)'
      BY <2>1, <2>2, KeptInv
    <2>4. RestTypes' /\ ConsoleKnows'
      <3>1. halting' \in Nat /\ resuming' \in Nat
        BY <1>1, <1>2, <2>1, <2>2 DEF RestTypes
      <3>2. ConsoleKnows'
        BY <1>1, <2>1, <2>2 DEF ConsoleKnows, RestTypes
      <3> QED
        BY <1>1, <2>1, <2>2, <3>1, <3>2, Zenon DEF RestTypes
    <2>5. RxTypes' /\ RxInOrder'
      BY <2>1, RxSame
    <2>6. OutputCovered'
      <3>1. x_char' \in {0, x_char}
        BY <2>2 DEF OutputKept
      <3> QED
        BY <1>1, <2>1, <2>2, <2>3, <3>1 DEF OutputCovered
    <2> QED
      BY <2>3, <2>4, <2>5, <2>6 DEF UartInv, UartTypes
  <1>9. CASE Flush
    <2>1. /\ flushed' = flushed \cup Range(xmit) /\ xmit' = <<>> /\ asleep' = FALSE
          /\ n' = [n EXCEPT !.flushes = @ + 1]
          /\ UNCHANGED <<x_char, fifo, wire, thre, rx_ien, tstopped, halting, resuming, cut, writing, xpc, con, saved, rxv>>
      BY <1>9 DEF flow, Flush
    <2>2. /\ n' \in UartCounts /\ n'.written = n.written /\ n'.arrived = n.arrived
          /\ n'.stops = n.stops
      BY <1>2, <2>1, SMTT(60) DEF UartCounts
    <2>3. /\ xmit' \in Seq(Nat) /\ Len(xmit') = 0 /\ Range(xmit') = {} /\ DOMAIN xmit' = {}
      BY <2>1 DEF Range
    <2>4. /\ Ordered(wire, fifo, xmit)
          /\ Content(wire, fifo, xmit) = (1 .. n.written) \ flushed
      BY <1>1, OrderParts
    <2>5. Ordered(wire, fifo, xmit')
      BY <2>3, <2>4 DEF Ordered, Ascending, Before
    <2>6. Content(wire, fifo, xmit') = (1 .. n.written) \ flushed'
      <3>1. \A a \in Range(wire) \cup CharsOf(fifo), b \in Range(xmit) : a < b
        BY <2>4 DEF Ordered, Before
      <3>2. \A a \in Content(wire, fifo, xmit) : a \in Nat
        BY <1>2, <2>4
      <3>3. \A a \in Range(wire) \cup CharsOf(fifo) : a \notin Range(xmit)
        BY <3>1, <3>2 DEF Content
      <3>4. Content(wire, fifo, xmit') = Content(wire, fifo, xmit) \ Range(xmit)
        BY <2>3, <3>3 DEF Content
      <3> QED
        BY <2>1, <2>4, <3>4
    <2>7. TtyOutputInOrder' /\ FullOnlyByXchar'
      <3>1. Ordered(wire', fifo', xmit') /\ Content(wire', fifo', xmit') = ((1 .. n.written) \ flushed)'
        BY <2>1, <2>2, <2>5, <2>6
      <3> QED
        BY <1>1, <2>1, <3>1
           DEF TtyOutputInOrder, Ordered, Content, InFifo, TtyChars, PlacesOf, CharsOf, FullOnlyByXchar
    <2>8. TxTypes'
      <3>1. Len(xmit') <= Cap /\ Range(xmit') \subseteq 1 .. MaxChars
        BY <1>2, <2>3
      <3> QED
        BY <1>1, <2>1, <2>3, <3>1 DEF TxTypes
    <2>9. RestTypes'
      <3>1. flushed' \subseteq 1 .. n.written
        BY <1>1, <2>1, <2>4 DEF RestTypes, Content
      <3> QED
        BY <1>1, <2>1, <2>2, <3>1 DEF RestTypes
    <2>10. RxTypes' /\ RxInOrder'
      BY <2>1, <2>2, RxSame
    <2>11. OutputCovered' /\ ConsoleKnows'
      BY <1>1, <2>1, <2>2 DEF OutputCovered, ConsoleKnows
    <2> QED
      BY <2>7, <2>8, <2>9, <2>10, <2>11 DEF UartInv, UartTypes
  <1>10. CASE Interrupt
    <2> DEFINE s == transmit_chars(tstopped)
    <2>1. /\ con = "off" /\ tstopped \in BOOLEAN
          /\ IF rfifo # <<>> THEN ReceiveAll ELSE UNCHANGED rxv
          /\ IF fifo = <<>> THEN Transmitted(s, thre /\ ~ s.stop) ELSE UNCHANGED <<txv, thre, asleep>>
          /\ UNCHANGED <<wire, rx_ien, tstopped, halting, resuming, cut, writing, xpc, con, saved, flushed, n>>
      BY <1>1, <1>10 DEF flow, Interrupt, CpuFree, RestTypes
    <2>2. RestTypes' /\ ConsoleKnows'
      BY <1>1, <2>1 DEF RestTypes, ConsoleKnows
    <2>3. RxTypes' /\ RxInOrder'
      <3>1. CASE rfifo # <<>>
        <4>1. PICK c \in 0 .. Len(rfifo) :
                /\ flip' = flip \o SubSeq(rfifo, 1, c) /\ rfifo' = <<>> /\ over' = FALSE
                /\ dropped' = dropped \cup {rfifo[i] : i \in c + 1 .. Len(rfifo)}
                /\ buf_overrun' = buf_overrun + (Len(rfifo) - c)
                /\ lost' = lost /\ overrun' = IF over THEN overrun + 1 ELSE overrun
          BY <2>1, <3>1 DEF ReceiveAll
        <4>2. /\ flip \in Seq(Nat) /\ rfifo \in Seq(Nat) /\ over \in BOOLEAN /\ overrun \in Nat
              /\ buf_overrun \in Nat /\ dropped \subseteq 1 .. n.arrived /\ Len(rfifo) \in Nat
              /\ lost \subseteq 1 .. n.arrived /\ c \in Nat /\ c <= Len(rfifo)
          BY <1>1 DEF RxTypes
        <4>3. /\ Ascending(flip \o rfifo)
              /\ Range(flip \o rfifo) = (1 .. n.arrived) \ (lost \cup dropped)
          BY <1>1 DEF RxInOrder
        <4>4. /\ flip' \o rfifo' \in Seq(Nat) /\ flip' \in Seq(Nat) /\ Ascending(flip' \o rfifo')
              /\ Range(flip' \o rfifo')
                   = Range(flip \o rfifo) \ {rfifo[i] : i \in c + 1 .. Len(rfifo)}
              /\ {rfifo[i] : i \in c + 1 .. Len(rfifo)} \subseteq Range(flip \o rfifo)
          <5> DEFINE b == flip \o SubSeq(rfifo, 1, c)
          <5>1. /\ b \o <<>> \in Seq(Nat) /\ b \in Seq(Nat) /\ Ascending(b \o <<>>)
                /\ Range(b \o <<>>)
                     = Range(flip \o rfifo) \ {rfifo[i] : i \in c + 1 .. Len(rfifo)}
                /\ {rfifo[i] : i \in c + 1 .. Len(rfifo)} \subseteq Range(flip \o rfifo)
            BY <4>2, <4>3, CutAscending
          <5>2. flip' = b /\ rfifo' = <<>>
            BY <4>1
          <5> HIDE DEF b
          <5> QED
            BY <5>1, <5>2, Zenon
        <4>5. overrun' \in Nat /\ (over \/ overrun > 0 => overrun' > 0)
          BY <4>1, <4>2
        <4>6. buf_overrun' \in Nat /\ (dropped' # {} => buf_overrun' > 0)
          <5>1. CASE c = Len(rfifo)
            <6>1. {rfifo[i] : i \in c + 1 .. Len(rfifo)} = {}
              BY <4>2, <5>1
            <6>2. dropped' = dropped /\ buf_overrun' = buf_overrun
              BY <4>1, <4>2, <5>1, <6>1
            <6> QED
              BY <1>1, <4>2, <6>2 DEF RxInOrder
          <5>2. CASE c # Len(rfifo)
            BY <4>1, <4>2, <5>2
          <5> QED
            BY <5>1, <5>2
        <4>7. RxTypes'
          <5>1. rfifo' \in Seq(Nat) /\ Len(rfifo') <= RxDepth
            BY <1>2, <4>1
          <5>2. lost' \subseteq 1 .. n'.arrived /\ dropped' \subseteq 1 .. n'.arrived
            BY <2>1, <4>1, <4>2, <4>3, <4>4
          <5> QED
            BY <4>1, <4>4, <4>5, <4>6, <5>1, <5>2 DEF RxTypes
        <4>8. Range(flip' \o rfifo') = (1 .. n'.arrived) \ (lost' \cup dropped')
          BY <2>1, <4>1, <4>3, <4>4
        <4>9. RxInOrder'
          BY <1>1, <4>1, <4>4, <4>5, <4>6, <4>8 DEF RxInOrder
        <4> QED
          BY <4>7, <4>9
      <3>2. CASE rfifo = <<>>
        BY <2>1, <3>2, RxSame
      <3> QED
        BY <3>1, <3>2
    <2>4. CASE fifo = <<>>
      <3>1. thre \in BOOLEAN /\ s.stop \in BOOLEAN /\ (s.stop => s.xmit = <<>> \/ tstopped)
        BY <1>1, <2>1, <2>4, TransmitFacts DEF TxTypes
      <3>2. Transmitted(s, thre /\ ~ s.stop) /\ xmit' = s.xmit
        BY <2>1, <2>4 DEF Transmitted
      <3>3. OutputKept /\ thre' = (thre /\ ~ s.stop) /\ x_char' = 0
        <4>1. (thre /\ ~ s.stop) \in BOOLEAN
          BY <3>1
        <4> QED
          BY <2>1, <2>4, <3>2, <4>1, TransmittedKeeps
      <3> HIDE DEF s
      <3>4. /\ TxTypes' /\ TtyOutputInOrder' /\ FullOnlyByXchar' /\ (asleep => Len(xmit) >= Wake)'
            /\ (xmit' # <<>> => xmit # <<>>)
        BY <2>1, <3>3, KeptInv
      <3>5. OutputCovered'
        <4>1. ASSUME xmit' # <<>>, ~ tstopped PROVE thre' \/ saved' \/ writing' \/ resuming' > 0 \/ cut' = "late"
          <5>1. thre \/ saved \/ writing \/ resuming > 0 \/ cut = "late"
            BY <1>1, <3>4, <4>1 DEF OutputCovered
          <5>2. ~ s.stop
            BY <3>1, <3>2, <4>1
          <5> QED
            BY <2>1, <3>3, <5>1, <5>2
        <4> QED
          BY <2>1, <3>3, <3>4, <4>1 DEF OutputCovered
      <3> QED
        BY <2>2, <2>3, <3>4, <3>5 DEF UartInv, UartTypes
    <2>5. CASE fifo # <<>>
      <3>1. UNCHANGED <<txv, thre, asleep>> /\ thre' \in BOOLEAN
        BY <1>1, <2>1, <2>5 DEF TxTypes
      <3>2. /\ TxTypes' /\ TtyOutputInOrder' /\ FullOnlyByXchar' /\ (asleep => Len(xmit) >= Wake)'
        BY <2>1, <3>1, SameKeeps, KeptInv
      <3>3. OutputCovered'
        BY <1>1, <2>1, <3>1, <3>2 DEF OutputCovered, txv
      <3> QED
        BY <2>2, <2>3, <3>2, <3>3 DEF UartInv, UartTypes
    <2> QED
      BY <2>4, <2>5
  <1>11. CASE ConsoleBegin
    <2>1. /\ con = "off" /\ con' = "put" /\ saved' = thre /\ thre' = FALSE /\ rx_ien' = FALSE
          /\ UNCHANGED <<txv, wire, tstopped, halting, resuming, cut, writing, asleep, xpc, rxv, flushed, n>>
      BY <1>11 DEF flow, ConsoleBegin, CpuFree
    <2>2. /\ TxTypes' /\ TtyOutputInOrder' /\ FullOnlyByXchar' /\ (asleep => Len(xmit) >= Wake)'
      BY <2>1, SameKeeps, KeptInv
    <2>3. RestTypes' /\ ConsoleKnows'
      BY <1>1, <2>1 DEF RestTypes, TxTypes, ConsoleKnows
    <2>4. RxTypes' /\ RxInOrder'
      BY <2>1, RxSame
    <2>5. OutputCovered'
      BY <1>1, <2>1, <2>2 DEF OutputCovered, ConsoleKnows, txv
    <2> QED
      BY <2>2, <2>3, <2>4, <2>5 DEF UartInv, UartTypes
  <1>12. CASE ConsolePut
    <2> DEFINE c == Con(n.con + 1)
    <2>1. /\ con = "put" /\ fifo = <<>> /\ fifo' = Push(fifo, c)
          /\ n' = [n EXCEPT !.con = @ + 1] /\ con' \in {"put", "end"}
          /\ UNCHANGED <<xmit, x_char, wire, thre, rx_ien, tstopped, halting, resuming, cut, writing, asleep, xpc,
                         saved, rxv, flushed>>
      BY <1>12 DEF flow, ConsolePut
    <2>2. /\ n' \in UartCounts /\ n'.written = n.written /\ n'.arrived = n.arrived
          /\ n'.stops = n.stops
      <3>1. n' = [n EXCEPT !.con = @ + 1]
        BY <2>1
      <3> QED
        BY <1>2, <3>1 DEF UartCounts
    <2>3. c \in Chars /\ c[1] # "tty"
      BY <1>2 DEF Con, Chars
    <2> HIDE DEF c
    <2>4. Len(fifo) = 0 /\ fifo' = Append(fifo, c) /\ fifo \in Seq(Chars)
      BY <1>1, <1>2, <2>1 DEF Push, TxTypes
    <2>5. /\ fifo' \in Seq(Chars) /\ Len(fifo') = 1
          /\ Ordered(wire, fifo', xmit) /\ Content(wire, fifo', xmit) = Content(wire, fifo, xmit)
      <3>1. /\ Append(fifo, c) \in Seq(Chars) /\ Len(Append(fifo, c)) = Len(fifo) + 1
            /\ Ordered(wire, fifo, xmit) => Ordered(wire, Append(fifo, c), xmit)
            /\ Content(wire, Append(fifo, c), xmit) = Content(wire, fifo, xmit)
        <4>1. fifo \in Seq(Chars)
          BY <2>4
        <4> QED
          BY <2>3, <4>1, PushOther
      <3> QED
        BY <1>1, <2>4, <3>1, OrderParts
    <2>6. OutputKept
      <3>1. /\ xmit' = xmit /\ xmit \in Seq(Nat) /\ x_char' = x_char /\ thre' \in BOOLEAN
            /\ asleep' \in BOOLEAN /\ (asleep' => Len(xmit') >= Wake)
        BY <1>1, <2>1 DEF TxTypes, OutputCovered
      <3>2. Len(xmit') <= Len(xmit)
        BY <3>1
      <3>3. Len(fifo') <= TxDepth /\ Len(fifo') # TxDepth
        BY <1>2, <2>5
      <3> QED
        BY <2>5, <3>1, <3>2, <3>3 DEF OutputKept
    <2>7. /\ TxTypes' /\ TtyOutputInOrder' /\ FullOnlyByXchar' /\ (asleep => Len(xmit) >= Wake)'
      BY <2>1, <2>2, <2>6, KeptInv
    <2>8. RestTypes' /\ ConsoleKnows'
      BY <1>1, <2>1, <2>2 DEF RestTypes, ConsoleKnows
    <2>9. RxTypes' /\ RxInOrder'
      BY <2>1, <2>2, RxSame
    <2>10. OutputCovered'
      BY <1>1, <2>1, <2>2 DEF OutputCovered
    <2> QED
      BY <2>7, <2>8, <2>9, <2>10 DEF UartInv, UartTypes
  <1>13. CASE ConsoleEnd
    <2>1. /\ con = "end" /\ con' = "off" /\ saved' = FALSE /\ thre' = saved /\ rx_ien' = TRUE
          /\ UNCHANGED <<txv, wire, tstopped, halting, resuming, cut, writing, asleep, xpc, rxv, flushed, n>>
      BY <1>13 DEF flow, ConsoleEnd
    <2>2. /\ TxTypes' /\ TtyOutputInOrder' /\ FullOnlyByXchar' /\ (asleep => Len(xmit) >= Wake)'
      BY <1>1, <2>1, SameKeeps, KeptInv DEF RestTypes
    <2>3. RestTypes' /\ ConsoleKnows'
      BY <1>1, <2>1 DEF RestTypes, ConsoleKnows
    <2>4. RxTypes' /\ RxInOrder'
      BY <2>1, RxSame
    <2>5. OutputCovered'
      BY <1>1, <2>1, <2>2 DEF OutputCovered, ConsoleKnows, txv
    <2> QED
      BY <2>2, <2>3, <2>4, <2>5 DEF UartInv, UartTypes
  <1>14. CASE Shift
    <2>1. /\ fifo # <<>> /\ fifo' = Tail(fifo)
          /\ wire' = IF Head(fifo)[1] = "tty" THEN Append(wire, Head(fifo)[2]) ELSE wire
          /\ UNCHANGED <<xmit, x_char, thre, rx_ien, tstopped, halting, resuming, cut, writing, asleep, xpc, con, saved,
                         rxv, flushed, n>>
      BY <1>14 DEF flow, Shift
    <2>2. fifo \in Seq(Chars) /\ wire \in Seq(Nat) /\ Len(fifo) \in Nat /\ Len(fifo) <= TxDepth
      BY <1>1 DEF TxTypes, RestTypes
    <2>3. /\ wire' \in Seq(Nat) /\ fifo' \in Seq(Chars) /\ Len(fifo') = Len(fifo) - 1
          /\ Ordered(wire, fifo, xmit) => Ordered(wire', fifo', xmit)
          /\ Content(wire', fifo', xmit) = Content(wire, fifo, xmit)
      BY ZenonT(60), <2>1, <2>2, ShiftFifo
    <2>4. TtyOutputInOrder' /\ FullOnlyByXchar'
      <3>1. Ordered(wire', fifo', xmit') /\ Content(wire', fifo', xmit') = ((1 .. n.written) \ flushed)'
        BY <1>1, <2>1, <2>3, OrderParts
      <3>2. Len(fifo') # TxDepth
        BY <1>2, <2>2, <2>3
      <3> QED
        BY <3>1, <3>2
           DEF TtyOutputInOrder, Ordered, Content, InFifo, TtyChars, PlacesOf, CharsOf, FullOnlyByXchar
    <2>5. TxTypes'
      <3>1. Len(fifo') <= TxDepth
        BY <1>2, <2>2, <2>3
      <3> QED
        BY <1>1, <2>1, <2>3, <3>1 DEF TxTypes
    <2>6. RestTypes' /\ ConsoleKnows'
      BY <1>1, <2>1, <2>3 DEF RestTypes, ConsoleKnows
    <2>7. RxTypes' /\ RxInOrder'
      BY <2>1, RxSame
    <2>8. OutputCovered'
      BY <1>1, <2>1 DEF OutputCovered
    <2> QED
      BY <2>4, <2>5, <2>6, <2>7, <2>8 DEF UartInv, UartTypes
  <1>15. CASE Arrive
    <2> DEFINE a == n.arrived + 1
    <2>1. /\ n' = [n EXCEPT !.arrived = @ + 1]
          /\ \/ Len(rfifo) < RxDepth /\ rfifo' = Append(rfifo, a) /\ UNCHANGED <<over, lost>>
             \/ over' = TRUE /\ lost' = lost \cup {a} /\ UNCHANGED rfifo
          /\ UNCHANGED <<txv, wire, thre, rx_ien, tstopped, halting, resuming, cut, writing, asleep, xpc, con, saved,
                         flip, overrun, buf_overrun, dropped, flushed>>
      BY <1>15 DEF flow, Arrive
    <2>2. /\ n' \in UartCounts /\ n'.written = n.written /\ n'.arrived = a /\ n'.stops = n.stops
      <3>1. n' = [n EXCEPT !.arrived = @ + 1]
        BY <2>1
      <3> QED
        BY <1>2, <3>1 DEF UartCounts
    <2>3. a \in Nat /\ a \notin 1 .. n.arrived /\ 1 .. a = (1 .. n.arrived) \cup {a}
      BY <1>2
    <2> HIDE DEF a
    <2>4. /\ TxTypes' /\ TtyOutputInOrder' /\ FullOnlyByXchar' /\ (asleep => Len(xmit) >= Wake)'
      BY <1>1, <2>1, <2>2, SameKeeps, KeptInv DEF TxTypes
    <2>5. RestTypes' /\ ConsoleKnows'
      BY <1>1, <2>1, <2>2 DEF RestTypes, ConsoleKnows
    <2>6. OutputCovered'
      BY <1>1, <2>1, <2>2, <2>4 DEF OutputCovered, txv
    <2>7. /\ flip \in Seq(Nat) /\ rfifo \in Seq(Nat) /\ lost \subseteq 1 .. n.arrived
          /\ Ascending(flip \o rfifo) /\ Range(flip \o rfifo) = (1 .. n.arrived) \ (lost \cup dropped)
          /\ Len(rfifo) \in Nat /\ dropped \subseteq 1 .. n.arrived
      BY <1>1 DEF RxTypes, RxInOrder
    <2>8. CASE Len(rfifo) < RxDepth /\ rfifo' = Append(rfifo, a) /\ UNCHANGED <<over, lost>>
      <3>1. rfifo' \in Seq(Nat) /\ Len(rfifo') <= RxDepth
        BY <1>2, <2>3, <2>7, <2>8
      <3>2. RxTypes'
        BY <1>1, <2>1, <2>2, <2>3, <2>7, <2>8, <3>1 DEF RxTypes
      <3>3. flip' \o rfifo' = Append(flip \o rfifo, a) /\ flip \o rfifo \in Seq(Nat)
        BY SMTT(60), <2>1, <2>3, <2>7, <2>8
      <3>4. \A b \in Range(flip \o rfifo) : b < a
        BY <1>2, <2>7 DEF a
      <3>5. /\ Ascending(flip' \o rfifo') /\ Range(flip' \o rfifo') = Range(flip \o rfifo) \cup {a}
        BY <2>3, <2>7, <3>3, <3>4, AppendAscending
      <3>6. Range(flip' \o rfifo') = (1 .. n'.arrived) \ (lost' \cup dropped')
        BY <2>1, <2>2, <2>3, <2>7, <2>8, <3>5
      <3>7. RxInOrder'
        BY <1>1, <2>1, <2>8, <3>5, <3>6 DEF RxInOrder
      <3> QED
        BY <2>4, <2>5, <2>6, <3>2, <3>7 DEF UartInv, UartTypes
    <2>9. CASE over' = TRUE /\ lost' = lost \cup {a} /\ UNCHANGED rfifo
      <3>1. RxTypes'
        BY <1>1, <2>1, <2>2, <2>3, <2>7, <2>9 DEF RxTypes
      <3>2. Range(flip' \o rfifo') = (1 .. n'.arrived) \ (lost' \cup dropped')
        BY <2>1, <2>2, <2>3, <2>7, <2>9
      <3>3. RxInOrder'
        BY <1>1, <2>1, <2>7, <2>9, <3>2 DEF RxInOrder
      <3> QED
        BY <2>4, <2>5, <2>6, <3>1, <3>3 DEF UartInv, UartTypes
    <2> QED
      BY <2>1, <2>8, <2>9
  <1>16. CASE UNCHANGED vars
    <2>1. /\ UNCHANGED <<txv, rxv, wire, thre, rx_ien, tstopped, halting, resuming, cut, writing, asleep, xpc, con,
                         saved, flushed, n>>
      BY <1>16 DEF flow, vars
    <2>2. /\ TxTypes' /\ TtyOutputInOrder' /\ FullOnlyByXchar' /\ (asleep => Len(xmit) >= Wake)'
      BY <1>1, <2>1, SameKeeps, KeptInv DEF TxTypes
    <2>3. RestTypes' /\ ConsoleKnows'
      BY <1>1, <2>1 DEF RestTypes, ConsoleKnows
    <2>4. RxTypes' /\ RxInOrder'
      BY <2>1, RxSame
    <2>5. OutputCovered'
      BY <1>1, <2>1, <2>2 DEF OutputCovered, txv
    <2> QED
      BY <2>2, <2>3, <2>4, <2>5 DEF UartInv, UartTypes
  <1> QED
    BY <1>3, <1>4, <1>5, <1>6, <1>7, <1>8, <1>9, <1>10, <1>11, <1>12, <1>13, <1>14,
       <1>15, <1>16, <1>17, <1>18
       DEF UartNext, Tasks, Console

\* The inductive invariant holds in every reachable state.
THEOREM UartInvariant == UartSpec => []UartInv
  BY UartInitInv, UartStepInv, PTL DEF UartSpec

\* Nothing the tty wrote is lost, repeated or reordered on its way through the
\* buffer and the FIFO, although transmit_chars writes without a look at TX_FULL
\* and start_tx, the interrupt and the console all write to the same FIFO.
THEOREM UartOutputIntact == UartSpec => []OutputIntact
  <1>1. UartInv => OutputIntact
    <2>1. UartTypes => UartTypeOK
      BY DEF UartTypes, TxTypes, RxTypes, RestTypes, UartTypeOK
    <2> QED
      BY <2>1 DEF UartInv, OutputIntact
  <1> QED
    BY <1>1, UartInvariant, PTL

\* Pending output is always covered by THRE_IEN, set or saved by the console, or
\* by a task on its way to start_tx, unless stop_tty called the driver later than a
\* start_tty that came after it; a sleeping writer has a wake-up to come.
THEOREM UartOutputCovered == UartSpec => []OutputCovered
  <1>1. UartInv => OutputCovered
    BY DEF UartInv
  <1> QED
    BY <1>1, UartInvariant, PTL

\* Characters are received once and in order; what a full FIFO lost shows as an
\* overrun, in icount or still in FSR.
THEOREM UartRxInOrder == UartSpec => []RxInOrder
  <1>1. UartInv => RxInOrder
    BY DEF UartInv
  <1> QED
    BY <1>1, UartInvariant, PTL

=============================================================================

# Verification of the NUC972 concentrator drivers

The repository is a Linux 3.10.107 tree (`arch/` and `drivers/` only) for the
NUC972 board of an electricity-meter concentrator. Its own logic is in the
Nuvoton NUC970 drivers and in `drivers/char/hndl_char_devices`, the product's
character devices. The rest is upstream kernel code. `.config` sets
`PREEMPT=y`, `HZ=100` and no SMP: **one CPU, preemptible, with interrupts,
timers, softirqs and DMA engines running against process code**. That is what
these modules are about: the order in which a process, an interrupt handler, a
timer and a device work on shared state, which no test on the board can choose.

Paths below are relative to `src/`. Line numbers refer to the commit in `src/`;
`PROJECT.json` maps every definition to its lines.

## 1. Inventory

`README.md` of the repository lists the interfaces in use. In the order of how
much concurrent logic they hold:

| Part | State | Operations | Interacts with | What is hard | What makes it correct |
|---|---|---|---|---|---|
| EMC receive, `nuc970_ether0.c` | RX ring (ownership bits, buffers), `cur_rx`, MISTA/MIEN, NAPI state | `nuc970_rx_interrupt`, `nuc970_poll`, `nuc970_reset_mac` | receive DMA, network stack | masking against polling, full ring, failed allocation, reset under the poll | no stall; frames once and in order; each buffer has one owner |
| EMC transmit, same file | TX ring, `tx_skb`, `cur_tx`, `finish_tx`, queue state | `nuc970_ether_start_xmit`, `nuc970_tx_interrupt` | transmit DMA, stack's queue | interrupt between any two stores of start_xmit, stopping the queue | buffers sent and freed once, in order, eventually; the DMA reads only live buffers; the queue is woken |
| I2C bus 0, `i2c-nuc970-p0.c` | `struct nuc970_i2c` (state, msg, indices), IRQEN | `nuc970_i2c0_xfer`, `nuc970_i2c0_doxfer`, `nuc970_i2c_irq` | controller, slaves (RTC RX8025), I2C core | a state machine that runs in interrupts, timeouts, arbitration, retries | the result tells what happened on the bus; the caller always returns; the bus is left idle |
| Pulse counter, `pulse_count.c` | four statics per channel, `pulse_count[]` | `timer1_interrupt` (1 kHz), a one-shot proc file | timer 2, pins | signal noise, counter wrap | each pulse counted once, and only pulses |
| Keyboard, `hnos_kbd_core.c`, `hnos_kbd_hntt1800x.c` | circular buffer, wait queue, `is_open`, last scan | scan timer, `kb_key_insert`, `kb_open`, `kb_read`, `kb_release` | timer, processes | unlocked test before sleeping, shared file, wrap and full buffer | FIFO, no lost wake-up, loss only when full |
| EMC open, close, link, `nuc970_ether0.c`, `phy.c` | interface and NAPI state, ring pointers, RXON/TXON, link | `nuc970_ether_open`, `nuc970_ether_close`, `adjust_link` | rtnl, NAPI, PHY state machine, both interrupts | windows between the statements of open and close, resets and link changes in them, failures half way | no DMA or poll on a freed ring; an open interface hears; close returns |
| SPI bus 0 (NOR flash), `spi-nuc970-p0.c`, `spi-bitbang.c` | message queue, `busy`, word count, completion, chip select | `spi_bitbang_transfer`, `bitbang_work`, `setup`, `txrx`, interrupt | controller, clients | acknowledging after starting the next words, no timeout, queueing while the worker ends | every word transferred once, answers in place, every message completes |
| UARTs, `nuc970_serial.c`, `serial_core.c` | tty circular buffer, FIFOs, IER, `x_char` | `uart_write`, `start_tx`, interrupt, console | tty layer, console | FIFO written without a look at TX_FULL, console and tty on one UART, stop and start that overtake each other | no character lost, repeated or stranded |
| ESAM, `hnos_esam_intf.c` | `CMD_SENT`, buffers, pins | open, read, write, release | GPIO port I | no lock, error returns half way, shared port register, late answers, lengths that are not checked | an accepted answer is the whole answer to the last command |
| Infrared sender, `irSev_hz.c` | `flag`, pin | timer interrupt, proc file | GPIO port I, timer 2 | same port register as the ESAM | its pin has the level it set |
| RTC RX8025, `rtc-rx8025.c` | `first_run`, registers and register pointer of the chip | `get_time`, `set_time`, `clock_adjust_ppb` | I2C bus 0, RTC core | registers read one by one while the clock runs and others move the pointer, unchecked transfers, writes broken off | the date read is one the clock had |
| Metering chip, `rn8302b.c` | frame buffers | read, write | GPIO | checksums, retries | only checked values are returned |
| Proc root, `hnos_proc_intf.c` | reference count, directory | mkdir, rmdir | all product drivers | count and creation not one step | directory exists while used |
| NAND, pinctrl, PWM, LCD, ADC, USB glue, machine support | tables, registers | | | mostly straight-line register code | |

`PROJECT.json` lists all components, also those not modelled with the reason,
and the hazards of each at their lines.

## 2. Modules

| Module | Models | Proofs |
|---|---|---|
| `EtherRx` | receive path: DMA, RX interrupt, NAPI poll, reset after an RX bus error | `EtherProofs` |
| `RxFifo` | abstract specification of the receive path: a FIFO with refusal and flush | `EtherProofs` |
| `EtherTx` | transmit path: start_xmit store by store, TX interrupt, DMA | `EtherProofs` |
| `EtherLife` | open, close, link changes and resets of the interface, with the ring as a whole | `EtherLifeProofs` |
| `I2cMaster` | caller, interrupt state machine and controller of I2C bus 0 | `I2cProofs` |
| `MCI2cMaster` | the transfers TLC uses | |
| `Pulse` | the sampling interrupt and an observer of the signal | `CharProofs` |
| `Keyboard` | circular buffer, scan timer, file operations of two or more processes | `CharProofs` |
| `Spi`, `MCSpi` | queue and worker of spi-bitbang with the NUC970 controller below it | `SpiProofs` |
| `Uart` | tty output, input and console on one UART | `CharProofs` |
| `Esam`, `MCEsam` | secure element and infrared sender on one port register | `EsamProofs` |
| `Rtc`, `MCRtc` | the clock chip behind I2C, read while it runs | `RtcProofs` |
| `Totals` | the sum of the sizes of the parts of a message, for `Spi` and `I2cMaster` | `TotalsProofs` |

Each module has, besides the actions, a section "Mutants": variants of single
definitions with a plausible bug. No specification uses them; each shows, put in
place of the original, that a property can fail.

### EtherRx

State as in the driver: `rdesc[i]` (ownership bit and the frame stored), `rx_skb`,
`cur_rx`, ENRXINTR (`enrx`), pending MISTA bits (`mista`), NAPI_STATE_SCHED
(`sched`), the poll's place (`pc`) and `rx_cnt`. `hw_rx` and `running` belong to
the MAC. Frames and buffers are numbered, so order, loss and double use show.
`up`, `bad`, `discarded`, `given` and `freed` record what happened to them.

The poll is cut where the order of its effects matters: reading the ownership
bit, allocating, passing up, refilling, giving back, `napi_complete`, unmasking,
`ETH_TRIGGER_RX`. The RX interrupt is one step, because it cannot be interrupted
by the poll and its write-1-to-clear touches only the bits it has read. Reset
from the RX interrupt replaces ring, buffers and indices and enables everything
again.

Assumed: the MAC writes status and ownership together; ENRXINTR gates every RX
interrupt; the allocations of a reset succeed and the TX bus error does not
occur (both are in `EtherLife`).

`RxFifo` is what the stack sees: accept, deliver, refuse, flush. The refinement
maps `waiting` to the frames in the ring between `cur_rx` and `hw_rx`, less the
one the poll has handled and not yet given back.

### EtherTx

The stores of `start_xmit` are separate actions (`XmitMap` to `XmitStop`), and
between any two of them the interrupt may run to its end. The DMA works at any
time. The interrupt handler's loop is one action per descriptor, since the DMA
may complete another one meanwhile. The variables are those of the driver;
`onwire` and `freed_tx` are logs.

### EtherLife

`EtherRx` and `EtherTx` begin with the interface up. `EtherLife` has one action
per statement of `nuc970_ether_open` and `nuc970_ether_close` (`life` is the next
one) and reduces the ring to its identity: `gen` rings were made, `live` are
allocated, `ring` is what `ether->rdesc` names and `rxdlsa` what the MAC was
given. The poll and start_xmit hold the ring they work on (`pollring`, `xring`).
`nuc970_reset_mac` is one operator, used by open and by both interrupts, with an
allocation that may fail. A deferred frame (MISTA_EXDEF) beside a TX bus error
keeps the TX interrupt from resetting, as the code has it (`TxIrqDefer`). `napi`
follows NAPI_STATE_SCHED with the pending disable of `napi_disable`; `phy`,
`plink`, `elink` and `apc` follow the PHY state machine and the two halves of
`adjust_link`, of which only the first is locked.

`torn`, `xtorn`, `early` and `badfree` record what the properties name as
exceptions. `count.nomem` counts the allocations that failed in
`nuc970_init_desc`, which the properties except; those of the poll are counted
apart (`count.noskb`) and excuse nothing.

### I2cMaster

The controller performs one command at a time (`ctl`) and raises `flag`. The
handler's states and the three tests `is_lastmsg`, `is_msglast`, `is_msgend` are
translated one by one, with the unsigned `msg_num - 1`. `wire` records what the
bus saw and `nacked` the first refused byte. `Faults` says which of arbitration
loss, a STOP of more than 1 ms and a hang of more than 5 s the bus may do; `quiet`
is false once one of them happened. Every read-modify-write of CSR writes IRQFLAG
back and so acknowledges a pending interrupt (`SetIrq`). `i2c.of` is the array of messages
`i2c->msg` points into, which after a late end may be that of a call that has
returned. Time passes only where it decides something: a timeout fires when the
bus will do nothing more, or hangs.

### Pulse

One action, the interrupt of one sample of every channel. The signal is
arbitrary. Variable `sig` is an observer of the signal: lengths of the present
low run and of the last high run, the accumulated samples and the counts in this
run. The properties relate the driver's flags and counters to it.

### Keyboard

Each iteration of the copy loops is a step. A process may lose the CPU between
any two steps in which it does not hold `dev->lock` with interrupts off. The
scan timer runs to its end. `wait_event_interruptible` is its three steps: test,
queue, test again. `Fork` models a shared open file, the only way to have two
readers past `is_open`. Bytes are numbered in order of acceptance.

### Spi

`Submit` and `Setup` are what clients call; the worker's place is `wpc` and its
locals are variables, among them `more`, the saved next entry of
`list_for_each_entry_safe`. The controller is `reg`: GOBUSY, IF (cleared by
writing it as 1), TXNUM and the data registers. Every read-modify-write of CNTRL
therefore also acknowledges; the handler's last two statements, the read and the
write back, are steps of their own, and the burst may end between any two.
`race` records when it did. After a second start of a burst by the write back
(`race = "again"`) controller, handler and worker go on: words are on the wire
twice, the transfer may complete with GOBUSY set, the count may pass `len`.
Words are 8 bits wide, as for the board's only device.

### Uart

The circular buffer is the sequence `xmit`, bounded by `Cap`; `fifo` holds tagged
characters of tty, flow control and console. `transmit_chars` is an operator that
says what one call leaves, used by `start_tx` and by the interrupt. A full FIFO
drops what is written. `uart_write` and `uart_send_xchar` are two steps each,
since they drop or do not hold the port lock. So are `stop_tty` and `start_tty`
of `tty_io.c`: `tty->stopped` changes under `ctrl_lock`, and the driver is called
after it is dropped (`halting` and `resuming` count the calls in between), so a
start may overtake a stop; `cut` records what kind of `stop_tx` came since the
last `start_tx`. The console runs with interrupts off over many character times:
three steps, while the UART goes on. The tty may have no buffer for received
characters (`dropped`, `buf_overrun`). Assumed: the TX_POINTER field shows the
FIFO's level, THRE_IF its being empty. Parity, framing, break, RS-485 and IrDA are
left out.

### Esam

A call of the driver is a list of pin settings and samples (`prog`) and what
follows it (`then`). Each setting is two steps, the read and the write of
GPIOI_DATAOUT, between which the infrared interrupt may set its own pin. No lock
is taken: a second process that shares the file may call while a call is under
way, which is then parked with its locals and its copy of the register, and goes
on later (`Begin`, `Resume`, `Preempt`). `copy_from_user` and `copy_to_user` may
break off, which the code does not look at (`fault`); a write of no bytes sends a
frame with no byte in it.

The chip is external: it hears MOSI at rising edges while selected, takes a frame
of one byte or more with the right checksum for a command, and answers late,
never, broken off or with one byte disturbed, those of the length too. A length
is compared with the caller's count only, so it may let the code store past the
end of `rx_buf`. `lost` records that two calls were mixed or `rx_buf` overrun.
Bytes have two bits, so that a frame is short.

### Rtc

`now` is the date in the chip. `get_time` reads it register by register while
seconds pass, through BCD and the driver's masks. A register takes two transfers,
its number (`Point`), which sets the chip's pointer `ptr`, and the byte at the
pointer (`ReadReg`); `clock_adjust_ppb`, which takes no `ops_lock`, may use the
chip between the two and move the pointer. A failed transfer sets the pointer or
not, and a failed read gives the negated error number as a byte. The block write
of `set_time` may be broken off at any byte (`Partly`), so that the chip may hold
31 February; its own arithmetic from there is left open (`MonthEnds`). `instants`
records the dates the chip had during the read, `bad` the registers of which a
transfer failed or was overtaken.

## 3. Runs

| Run | States | Properties | Shows |
|---|---|---|---|
| `ether_rx` | 137 131 | `RxAlive`, `BufferOwnership`, `ResetOutsidePoll`, `RxFifoSpec`, `RxProgress` | no stall, one owner per buffer, reset outside the poll, refinement of `RxFifo`, every frame handled, DMA restarted |
| `ether_tx` | 20 601 | `TxInOrder`, `NeverBusy`, `TxEventuallyFreed`, `QueueWokenByCompletion` | freed and sent once and in order, never NETDEV_TX_BUSY, eventually freed, the queue woken by a completion still due |
| `ether_life` | 1 050 555 | `OnLiveRing`, `RingsFreedOnce`, `HearsWhenUp`, `CloseReturns` | DMA, poll and start_xmit on live rings, no double free, no leak, reception not left masked, MAC on with a link, close returns; each with exactly the exceptions the code leaves open (section 5) |
| `i2c` | 124 974 | `CommandsCovered`, `ResultIsTrue`, `BusIdleAfterXfer`, `NullMessageOnlyRefused`, `XferReturns` | result matches the bus, no false success, wait covered but in the named cases, one command at a time, idle bus after xfer, NULL message met only in transfers with a read without START, xfer returns |
| `pulse` | 99 226 | `CleanPulseCounted`, `OncePerLowRun`, `CountNeedsSamples` | clean pulses counted exactly once, no run twice, no count without its samples |
| `kbd` | 733 k | `BytesInOrder`, `NoSleepOnData`, `NoShortKey`, `LostOnlyWhenFull`, `ReaderServed` | FIFO, loss only when full, no lost wake-up, no short key, readers served |
| `spi` | 820 472 | `MessageOnWire`, `TransferExact`, `MessagesComplete` | wire and results of every message exact, answers in place, chip selected over every burst, nothing left over between transfers, a waiter without an interrupt to come only after a burst that ended inside the handler, every message completed; all but types until a burst is started again |
| `uart` | 743 846 | `OutputIntact`, `OutputCovered`, `RxInOrder`, `CharactersMove` | tty output and input in order and complete, FIFO never overrun, losses of input counted, output and x_char stranded only by the stops section 5 names, input never |
| `esam` | 746 779 | `CommandDelivered`, `AnswerExact`, `PortLeft`, `CallReturns` | commands delivered whole under the infrared interrupt, answers exact, chip deselected on every return, each with its exceptions; the infrared pin right but for an overlap; calls return |
| `rtc` | 3 668 125 | `GetExact`, `TornReads`, `ChipWritten` | errors stay in the field of their register, exact date if no minute ended, never an earlier one, refusals only over the end of a month or of a date half set, what set_time stores |
| `ether_tx_dma` | violation | `DmaBufferLive` | finding 1 |
| `esam_comment` | violation | `ReadEndsCommand` | finding 2 |

A property such as `OnLiveRing` is the conjunction of parts that have names of
their own, each with its comment (`LifeTypeOK`, `DmaOnLiveRing`,
`PollOnLiveRing` and `XmitOnLiveRing`); section 5 refers to the parts. The type invariant is such a
part, except in `EtherRx`, `Pulse` and `Keyboard`, where it is proved as a part of
the inductive invariant.

### Bounds

* `ether_rx`: ring of 3 (a descriptor behind, at and ahead of the poll), weight 2
  (below the ring size, so the poll stops with frames left), 5 frames (the ring
  fills, wraps and refills), one allocation failure, one bus error. All of DMA
  full, budget exhausted, failure and reset occur in combination.
* `ether_tx`: ring of 3, 6 buffers: the ring is full and every index wraps twice.
* `ether_life`: two opens (so that a reopen meets what a close or a failed open
  left), two faults of any kind in any order, two rounds of the PHY that see the
  link, weight 2 (a poll may end by its budget or before it).
* `i2c`: three transfers in a row out of ten kinds (write, register read of one
  and two bytes, plain read, probe, write continued without START, ignored NACK,
  and the three the driver does not master), every byte accepted or refused, one
  arbitration loss, hangs and slow STOPs at any time, two attempts. Three, because
  a late STOP harms the transfer after the one it belongs to.
* `pulse`: thresholds 1 and 2 and counters modulo 5 instead of 15, 55 and 2^32:
  large enough to pass the thresholds before the wrap and to wrap inside a run.
* `kbd`: buffer of 4 instead of 256, two processes, keys of one and three bytes,
  reads of one and two, five bytes offered: wraps in put and get, a full buffer,
  partly refused events.
* `spi`: two messages of one or two transfers of 0, 2, 3, 4, 5 and 9 words: one
  burst, a full one, two, and three of which the second leaves TXNUM alone; with
  and without buffers and `cs_change`; one call of `spi_setup`; one more burst that
  ends after one was started again, enough to send words twice and to complete
  with one running.
* `uart`: see `Uart.cfg`: FIFO, batch, buffer and wake-up level scaled down from
  16, 12, 4095 and 256 in the same order; enough characters to fill each; one stop,
  the start of which may overtake it.
* `esam`: three events (calls of read and write, switches between two calls,
  openings and closings of the infrared sender): a command, a failed read, a read
  after it; a call preempts another if it is the second event at the latest. Counts
  below the header and above the buffer, so that a disturbed length is shorter than
  the answer, refused, or an overrun; two polls instead of 64000; commands of none,
  one and too many bytes.
* `rtc`: two seconds from two seconds before the end of a minute, an hour, a
  month followed by a shorter one, 28 February of a leap year, 1999 and 2069; two
  calls, one failed or broken-off transfer, one use of `clock_adjust_ppb`.

The proofs of section 4 need none of these bounds where they exist. Bounds such
as `MaxFrames` or `MaxSkbs` end the behaviours, so deadlock is not checked:
without traffic these drivers rest.

### Fairness

* `EtherRx`: weak fairness of the interrupt (the CPU takes a raised, unmasked
  interrupt) and of the poll (the softirq or ksoftirqd runs a scheduled poll
  again). Nothing is assumed of the network or the DMA.
* `EtherTx`: of the interrupt, of the DMA (it transmits what it owns after a
  trigger), and of a `start_xmit` already begun. The stack need never call again.
* `I2cMaster`: of the controller (it ends a command), the interrupt, and a caller
  inside `xfer`. With `"hang"` the timeout may still come first.
* `EtherLife`: weak fairness of the softirq and of a start_xmit that has begun;
  strong fairness of an open, a close or a round of the PHY machine that has begun,
  since polls that come again and again are moved to ksoftirqd, which shares the
  CPU. Nothing is assumed of interrupts.
* `Spi`: of the worker's thread, the handler, and the end of a burst.
* `Uart`: of the UART sending, the interrupt, the rest of a console message and
  the second halves of `uart_write`, `uart_send_xchar`, `stop_tty` and `start_tty`.
  Nothing is assumed of the one who stopped the tty.
* `Esam`: a call that began goes on, and one that was preempted goes on when the
  other has returned. Nothing is assumed of the infrared timer.
* `Keyboard`: a timer that began ends; every runnable reader is scheduled.
  Nothing is assumed of keys, signals, opens or closes.

## 4. Theorems

All proofs are for `Spec` without fairness and for every value of the constants
that satisfies the named assumption of its module:

* `RxConstants`, `TxConstants`, `LifeConstants`: a receive ring of one or more, a
  transmit ring of two or more, any positive weight, any number of frames,
  buffers, opens, failures, bus errors and link changes;
* `PulseConstants`: any thresholds below the counter's modulus;
* `KbConstants`: any buffer length above one, any set of processes, any key sizes;
* `UartConstants`: any depths, with the batch of `transmit_chars` below the depth
  of the FIFO (12 and 16 in the driver). With a batch as large as the FIFO
  data alone would fill it, and `FullOnlyByXchar` would not hold;
* `SpiConstants`: transfers of any length, messages of any number of transfers;
* `I2cConstants`: any transfers whose first message has a START (doxfer sends
  one whatever the flag says), any number of retries, any faults;
* `RtcConstants`: the chip starts with a date of the calendar (that is, it was set
  since it last lost power: the driver's own look at the power-on flag is compiled
  out, `rtc-rx8025.c:324`), any dates given to `set_time`, any error numbers of one
  byte, any number of ticks, calls, failures and uses of `clock_adjust_ppb`;
* `EsamConstants`: bytes of two or more bits, commands of any number of bytes,
  answers of four or more that are as long as their length field says (before they
  are disturbed), a buffer of more than five, any counts and any patience of the
  poll.

The bounds on counters (`MaxFrames` and the like) are arbitrary naturals.

* **EtherProofs**, receive path. `RxNeverStalls`, `RxBuffersOwnedOnce`,
  `RxResetOutsidePoll` and `RxImplementsFifo` from the inductive invariant `RxInv`. `RxAlive` alone is
  not inductive: the step that ends a poll needs to know that the ring is empty
  or RXGD is pending (`PollKnows`), and the step that reads one descriptor can
  conclude this of the whole ring only because the descriptors the CPU holds are
  one interval from `cur_rx` to `hw_rx` (`Window`). `PollKnows` also says that a
  scheduled poll and unmasked RX interrupts exclude each other, which is why the
  reset in the RX interrupt finds no poll at work. `BuffersNumbered` makes new
  buffers distinct from old ones.
  `RxImplementsFifo` is the refinement: `waiting` of `RxFifo` is the sequence of
  frames in the window (`RingRead`), the DMA's step appends to it, the poll's
  steps take its head, a reset empties it, and every other step stutters.
* **EtherProofs**, transmit path. `TxSentAndFreedInOrder` and `TxNeverBusy` from `TxInv`. The
  logs alone say nothing of the ring; the invariant has two windows given by
  counts: the DMA owns the `InFlight` descriptors from `hw_tx` on (`DmaWindow`),
  `tx_skb` holds the `Kept` buffers from `finish_tx` on (`SkbWindow`). They differ
  while `start_xmit` is between its stores, and the interrupt may come there; the
  counts tell which window the buffer is already in. `QueueKnows` says where the
  descriptor at `cur_tx` may still be at the DMA.
* **EtherLifeProofs**. `LifeOnLiveRing`, `LifeRingsFreedOnce`, `LifeHearsWhenUp`
  from `LifeInv`: which ring the MAC has at each step of open and close
  (`RingKnows`), that a scheduled poll excludes RX interrupts and hence other
  resets (`PollKnows`), and the same properties from the reset of open on
  (`DeafKnows`, `LinkKnows`, `LeakKnows`), and that start_xmit began on an open
  interface with a live ring (`XmitKnows`). The exceptions of the properties appear
  as hypotheses: `torn`, `xtorn`, `early`, `count.nomem`, `count.noirq`.
* **CharProofs**, pulse counter. `CleanPulsesCounted`, `LowRunsCountedOnce`,
  `CountsNeedSamples` from `PulseInv`: what the counters and flags mean of the
  signal (`CountersMeanSignal`) and how unbroken runs relate to accumulated
  samples (`RunsMeanSamples`). Both hold across a wrap of the counters.
* **CharProofs**, keyboard. `KbFirstInFirstOut`, `KbNoLostWakeup`,
  `KbKeysWhole`, `KbLostOnlyWhenFull` from `KbInv`. The lemmas `MaskIs`,
  `AvailIs`, `CntIs`, `SpaceIs` turn the masks of `circ_buf.h` into case
  distinctions, and `PutKeepsOrder` and `GetKeepsOrder` are about one iteration
  of each loop. `Sleepers` says where a process on its way to sleep may be when
  the timer inserts; `Copying` that a process holding the lock found data there.
* **CharProofs**, UART. `UartOutputIntact`, `UartOutputCovered`, `UartRxInOrder` from
  `UartInv`, which is these three and `ConsoleKnows` (THRE_IEN is saved exactly
  while the console keeps it off). A start that has not yet called the driver
  covers the output as a writer does; only a late `stop_tx` does not leave one. The order of the output is split into what is
  on the wire, in the FIFO and in the buffer (`Ordered`) and which characters
  these are (`Content`); `PushData`, `PushOther` and `ShiftFifo` say what one write
  to the FIFO and one character sent do to them, `TransmitFacts` what a whole call
  of `transmit_chars` does, from start_tx as from the interrupt.
* **SpiProofs**. `SpiTransferExact` from `SpiInv`. `WaitCovered` needs to know where
  GO and IF may be at each place of the handler, separately while words are left
  (`BurstStates`) and after the last (`EndStates`), also after a lost interrupt;
  `TransferKnows` adds that what was counted was answered and that no burst passes
  the end of the transfer. After a burst was started again only the types are
  kept, and every message completed from then on carries the mark. `SpiMessageOnWire` from `WireInv` on top of it: at each
  place of the worker, the wire holds the events of the transfers before the
  present one and of it the words counted, or one burst more while that burst is
  sent and not yet counted (`WireKnows`, `SentInWait`), each event at its place
  (`InPlace`).
* **I2cProofs**. `I2cCommandsCovered`, `I2cBusIdleAfterXfer`, `I2cNullOnlyRefused`
  from `I2cInv`: the handler is in a message of the transfer while its state is
  active and in none afterwards (`MessageKnows`), `retry_write` goes on without a
  message only after a refusal (`RetryKnows`), the wait is covered (`WaitKnows`),
  and, as long as nothing took longer than the caller waits, command, flag and
  handler follow one another up to the STOP (`QuietKnows`). `I2cResultIsTrue` from
  `BusInv`: while the transfer is under way the bus has seen the messages up to the
  byte the handler is at (`UnderWay`), and when it is over what its result says
  (`WaitBus`, `AfterBus`). A transfer that got stuck ends by the timeout with a
  result below the number of messages, or with EAGAIN, and is never taken for a
  success.
* **RtcProofs**. `RtcGetExact`, `RtcTornReads`, `RtcChipWritten` from `RtcInv`. A
  register is read from where the pointer was set unless it is in `bad`: then every
  byte is from one of the instants (`ReadFrom`). What was read is completed by the
  date the chip has now (`Mixed`): this date is never behind the one the read began
  with, since the registers are read from the seconds up and a second that carries
  puts forward what is still to be read (`Ahead`). `Carries` says that no higher
  field changes without the minute, and no year without the month, also from a
  date that is in no calendar. The conversions are lemmas: two digits survive BCD
  in both directions and the masks.
* **EsamProofs**. `EsamCommandDelivered`, `EsamAnswerExact` and the chip select of
  `EsamPortLeft` from `EsamInv`, which holds while `lost = "no"`. It has one conjunct
  per place of a call: how many entries of its list are done (`Rest`, `Done`), hence
  which of the three entries of which bit, hence what the pins show and which bits
  the chip has heard (`FrameKnows`) or sent (`Sending`, `Stream`). `HeldCopy` says
  that the copy of the register between the two statements differs from it in the
  infrared pin at most. That the bits of a poll, of the header and of the data are
  bytes of one answer rests on their alignment (`BytesReceived`); that the chip
  accepts the driver's frame and the driver refuses a disturbed answer, on the
  parity of the checksum (`ChecksumCloses`, `ChecksumTells`); that what the chip
  hears during a read is no command, on its being all ones (`OnesRefused`). After a
  length that is not the answer's, only the number of bits is known (`WrongKnows`).
  The infrared part of `EsamPortLeft` holds of mixed calls too, from `IrInv`: no
  list sets the infrared pin, and every copy of the register, that of a parked call
  too, is old only if a tick was seen.
* **TotalsProofs**. The lemmas on `Total` that stand in for induction: a part adds
  its size, and a place within the total belongs to one part.

TLC checked each inductive invariant on the run's instance before it was proved.

Every safety property of the passing runs is a theorem. Only model-checked are the
liveness properties (`RxProgress`, `TxEventuallyFreed`, `QueueWokenByCompletion`,
`CloseReturns`, `XferReturns`, `ReaderServed`, `MessagesComplete`,
`CharactersMove`, `CallReturns`): fairness and ENABLED are out of this prover's
reach.

What a message puts on a wire is a sum over its parts, and a checksum a fold over
bytes. Their values for every input would need induction over data, which is out
of reach too, so the models state them in closed form: a sum as the cardinality of
a set of places (`Totals`), the checksum as the parity of each bit (`XorAll`), bits
and lists of settings by index.

No module with a theorem uses a RECURSIVE operator.

## 5. Findings

Two runs show a disagreement between the code and a text of the repository:

1. `nuc970_ether0.c:663`: `tx_skb[cur_tx]` is set before `TX_OWEN_DMA`. The TX
   interrupt takes "not owned and has a buffer" for done, so between the two it
   unmaps and frees a buffer the DMA is given next (`ether_tx_dma`).
2. `hnos_esam_intf.c:338` and `:366`: error returns of `esam_spi_read` leave
   `CMD_SENT` set, against the comment at line 384 (`esam_comment`). `AnswerExact`
   shows that a later read still gets the answer to the last command, or fails.

Other weak places are exceptions that a passing property names; without the
exception TLC finds it violated:

* `nuc970_ether0.c:674`, `QueueWokenByCompletion`: if all frames complete between
  the ownership test and `netif_stop_queue`, nothing wakes the queue.
* `nuc970_ether0.c:873`, `DeafOnlyFromOpen`: an RX interrupt between `request_irq`
  and `napi_enable` leaves reception masked on an open interface.
* `nuc970_ether0.c:719`, `PollOnLiveRing`, `XmitOnLiveRing`: a TX bus error frees
  the ring under a poll, and a bus error of either direction under a start_xmit; the
  comment at line 416 asks for Tx and Rx to be stopped.
* `nuc970_ether0.c:534` and `:631`, `DmaOnLiveRing`: a failed allocation in a
  reset, and a link that comes up late in close, leave the MAC on with a freed
  ring. `nuc970_ether0.c:861`, `LeakOnlyByFailedOpen`: a failed open leaks one.
* `i2c-nuc970-p0.c:319`, `:510` and `:209`, `WaitIsCovered`: a read followed by
  another message, a retry after lost arbitration, and a transfer during which
  the STOP of the one before is seen, wait for the five-second timeout.
  `i2c-nuc970-p0.c:292`, `NullMessageOnlyRefused`: a read without START is meant to
  end with EINVAL; the stop clears `msg`, and the code goes on to read it. `:341`,
  `ResultIsTrue`: a read of no bytes is followed by READ instead of the START of
  the next message, and the call reports success.
* `pulse_count.c:177`, `CountNeedsSamples`: samples accumulate over
  interruptions; the comment at line 189 asks for a level of 55 ms.
* `spi-nuc970-p0.c:272`, `TransferExact`, `MessageOnWire`, `MessagesComplete`: a
  burst that ends inside the handler loses its interrupt, or is started again; then
  words go out twice and a transfer may complete with a burst running. It takes a handler
  that is slower than up to four words on the wire.
* `tty_io.c:949`, `OutputCovered`, `TtyOutputSent`: a start_tty that overtakes a
  stop_tty between its unlock and its call of the driver leaves the tty running with
  THRE_IEN off, until somebody calls start_tx again.
* `serial_core.c:605` with `nuc970_serial.c:277`, `XcharSent`: a stop of the tty
  turns THRE_IEN off and may hold an XON/XOFF character back.
* `hnos_esam_intf.c:47`, `IrWrongOnlyByOverlap`: a pin setting of the ESAM takes
  back a level the infrared interrupt set inside it, until the next tick.
* `hnos_esam_intf.c:404`, `PortLeft`, `CommandDelivered`, `AnswerExact`: two calls on
  a shared file mix their settings; the chip may stay selected. `:151`,
  `CommandDelivered`: a copy from the caller that broke off is sent all the same,
  and its count returned. `:361`, `AnswerExact`: a disturbed length makes another
  byte the checksum, or the code store past `rx_buf`.
* `rtc-rx8025.c:119`, `GetNeverEarlier`, `GetRefusesOnlyTorn`: a date read over
  the end of a minute may run ahead by up to the unit that ended, or be refused.
  `:121`, `FieldsTrue`: a use of `clock_adjust_ppb` between the two transfers of a
  register gives another register's byte; `:122`: an error is taken for the byte.
  `:321`, `GetRefusesOnlyTorn`: a `set_time` broken off leaves a date of which some
  fields are new, perhaps one in no calendar.

## 6. Not modelled

* What a reset does to the buffers inside a ring while `start_xmit` is
  interrupted: `EtherTx` has no reset, `EtherLife` no buffers.
* Frames with errors are not counted against the NAPI weight
  (`nuc970_ether0.c:777`); nothing states a bound on one poll.
* Error characters, RS-485 and IrDA of the UART; words above 8 bits, dual and quad
  transfers of SPI; the alarm of the RTC, which has no interrupt on this board.
* Suspend and resume, probe and remove, module init and exit, ethtool, CAM
  filters, the proc files and the backlight write: register programming or
  formatting, called one at a time.
* The metering chip, whose frames are like those of the ESAM; NAND, LCD, ADC, PWM,
  pin control, clocks and the USB glue: sequential register code under a lock of
  the generic layer above. The unconfigured copies (`nuc970_ether1.c`,
  `i2c-nuc970-p1.c`, `spi-nuc970-p1.c`) and generic kernel code.

## 7. Plan

Done so far: the receive, transmit and life-cycle modules of the EMC, I2C, SPI,
UART, ESAM with the shared port, RTC, pulse counter and keyboard, and the
theorems of section 4, which cover every safety property of the runs. Next:

1. An abstract specification of `EtherTx` (a FIFO with completion), and the
   refinement as a theorem.
2. The metering chip, on the pattern of `Esam`.

## 8. Running

`tlc -config EtherRx.cfg EtherRx` and likewise for the other configurations, with
`MCI2cMaster` for `I2c.cfg`, `MCSpi` for `Spi.cfg`, `MCEsam` for `Esam.cfg` and
`EsamComment.cfg`, `MCRtc` for `Rtc.cfg`; the longest takes about four minutes.
`tlapm EtherProofs.tla`, and likewise for `EtherLifeProofs`, `CharProofs`,
`SpiProofs`, `I2cProofs`, `RtcProofs`, `EsamProofs` and `TotalsProofs`; each takes a few
minutes.

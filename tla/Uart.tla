-------------------------------- MODULE Uart --------------------------------
(***************************************************************************)
(* drivers/tty/serial/nuc970_serial.c while a port is open: the transmit   *)
(* side between the circular buffer of the serial core and the FIFO of the *)
(* UART, the receive side, and the console that writes to the same UART.   *)
(*                                                                         *)
(* One CPU.  start_tx, stop_tx and the interrupt handler run with          *)
(* interrupts off and are single steps (the FIFO only drains meanwhile);   *)
(* tasks are preempted between them.  console_write has interrupts off     *)
(* over many character times, so the UART sends and receives during it.    *)
(* Characters are numbers in the order they were written or arrived.       *)
(* TX_POINTER is taken to show the level of the FIFO, THRE_IF to be set    *)
(* exactly while the FIFO is empty.                                        *)
(***************************************************************************)
EXTENDS Naturals, Sequences, SequencesExt

CONSTANTS
    TxDepth,    \* the transmit FIFO of the UART: 16
    RxDepth,   \* the receive FIFO
    Batch,     \* count = 12 in transmit_chars
    Cap,       \* UART_XMIT_SIZE - 1
    Wake,      \* WAKEUP_CHARS
    MaxChars,  \* bound: characters written by the tty
    MaxX,      \* bound: XON/XOFF characters
    MaxCon,    \* bound: console characters
    MaxRx,     \* bound: characters that arrive
    MaxStops   \* bound: times the tty is stopped, and times it is flushed

ASSUME UartConstants ==
    /\ {TxDepth, RxDepth, Batch, Cap, Wake} \subseteq Nat \ {0}
    /\ {MaxChars, MaxX, MaxCon, MaxRx, MaxStops} \subseteq Nat
    /\ Batch < TxDepth /\ Wake <= Cap

VARIABLES
    xmit,      \* the circular buffer: characters not yet given to the UART
    x_char,    \* port->x_char, 0 for none; the k-th is k
    fifo,      \* the transmit FIFO
    wire,      \* the characters of the tty that the UART sent
    thre,      \* IER: THRE_IEN
    rx_ien,    \* IER: RDA_IEN and RTO_IEN
    tstopped,  \* tty->stopped
    halting, resuming, \* calls of stop_tty and start_tty between their unlock and the driver
    cut,       \* since the last start_tx: "no" stop_tx, a "stop", or one that came
               \* "late", after a start_tty had cleared tty->stopped
    writing,   \* uart_write is between its copy and uart_start
    asleep,    \* the writer sleeps on a full buffer
    xpc,       \* uart_send_xchar: "idle", or "start" between its statements
    con,       \* console_write: "off", "put" before a character, "end"
    saved,     \* THRE_IEN in the IER it saved
    rfifo,     \* the receive FIFO
    over,      \* FSR: RX_OVER_IF
    flip,      \* what was passed to the tty
    overrun, buf_overrun, \* of struct uart_icount
    lost,      \* characters lost by a full receive FIFO
    dropped,   \* characters the tty had no buffer for
    flushed,   \* characters dropped by uart_flush_buffer
    n          \* what the bounds limit

txv  == <<xmit, x_char, fifo>>
rxv  == <<rfifo, over, flip, overrun, buf_overrun, lost, dropped>>
flow == <<tstopped, halting, resuming>>
vars == <<txv, wire, thre, rx_ien, flow, cut, writing, asleep, xpc, con, saved, rxv,
          flushed, n>>

Tty(k)  == <<"tty", k>>
X(k)    == <<"x", k>>
Con(k)  == <<"con", k>>

\* a write to THR: a full FIFO loses the character
Push(f, c) == IF Len(f) < TxDepth THEN Append(f, c) ELSE f
\* many of them, as many as there are places
PushAll(f, s) ==
    LET room == TxDepth - Len(f)
    IN  f \o SubSeq(s, 1, IF Len(s) < room THEN Len(s) ELSE room)

CpuFree == con = "off"

UartInit ==
    /\ xmit = <<>> /\ x_char = 0 /\ fifo = <<>> /\ wire = <<>>
    /\ thre = FALSE /\ rx_ien = TRUE
    /\ tstopped = FALSE /\ halting = 0 /\ resuming = 0 /\ cut = "no"
    /\ writing = FALSE /\ asleep = FALSE /\ xpc = "idle" /\ con = "off" /\ saved = FALSE
    /\ rfifo = <<>> /\ over = FALSE /\ flip = <<>> /\ overrun = 0 /\ lost = {}
    /\ buf_overrun = 0 /\ dropped = {}
    /\ flushed = {}
    /\ n = [written |-> 0, x |-> 0, con |-> 0, arrived |-> 0, stops |-> 0,
             flushes |-> 0]

-----------------------------------------------------------------------------
(* Mutants: definitions below with a plausible bug, to show that each        *)
(* property can fail.  No specification uses them.                           *)

\* start_tx compares the wrong way round at the boundary
RoomOver == Len(xmit) <= TxDepth - Len(fifo) + 1

\* the wake-up is left out while characters are pending
WakesWhenEmpty(left) == left = <<>>

\* the error flags are cleared before receive_chars reads them
ReceiveAllWiped ==
    /\ flip' = flip \o rfifo
    /\ rfifo' = <<>> /\ over' = FALSE
    /\ UNCHANGED <<overrun, buf_overrun, lost, dropped>>

\* the console restores THRE_IEN only
ConsoleEndDeaf ==
    /\ con = "end" /\ fifo = <<>>
    /\ con' = "off" /\ saved' = FALSE /\ thre' = saved
    /\ UNCHANGED <<txv, wire, rx_ien, flow, cut, writing, asleep, xpc, rxv, flushed, n>>

-----------------------------------------------------------------------------
(* transmit_chars *)

\* the room test of start_tx
Room == Len(xmit) < TxDepth - Len(fifo)

\* the characters the loop writes
Take == SubSeq(xmit, 1, IF Len(xmit) < Batch THEN Len(xmit) ELSE Batch)
\* uart_write_wakeup if fewer than WAKEUP_CHARS are left
Wakes(left) == Len(left) < Wake
XcharAfter == 0

\* What transmit_chars leaves: x_char alone if there is one, __stop_tx if the
\* tty is stopped or nothing is pending, else a batch without a look at
\* TX_FULL, and __stop_tx if that was all.
transmit_chars(stp) ==
    LET left == SubSeq(xmit, Len(Take) + 1, Len(xmit))
        idle == [xmit |-> xmit, x |-> x_char, fifo |-> fifo, stop |-> TRUE, wake |-> FALSE]
    IN  CASE x_char # 0 -> [idle EXCEPT !.x = XcharAfter, !.stop = FALSE,
                                        !.fifo = Push(fifo, X(x_char))]
          [] x_char = 0 /\ (stp \/ xmit = <<>>) -> idle
          [] OTHER -> [idle EXCEPT !.xmit = left, !.stop = (left = <<>>),
                                   !.wake = Wakes(left),
                                   !.fifo = PushAll(fifo, [i \in DOMAIN Take |-> Tty(Take[i])])]

\* what transmit_chars returns becomes the state, the writer is woken if asked
Transmitted(s, ier) ==
    /\ xmit' = s.xmit /\ x_char' = s.x /\ fifo' = s.fifo
    /\ thre' = ier
    /\ asleep' = (asleep /\ ~ s.wake)

\* start_tx: transmit at once if all fits, then enable THRE in every case
start_tx(stp) ==
    /\ cut' = "no"
    /\ IF Room THEN Transmitted(transmit_chars(stp), TRUE)
               ELSE thre' = TRUE /\ UNCHANGED <<txv, asleep>>

\* __uart_start
uart_start(stp) ==
    IF xmit # <<>> /\ ~ stp THEN start_tx(stp)
    ELSE UNCHANGED <<txv, thre, asleep, cut>>

-----------------------------------------------------------------------------
(* The serial core and the tty *)

\* uart_write, its locked part: a full buffer puts the writer to sleep
WriteCopy(k) ==
    /\ CpuFree /\ ~ writing /\ ~ asleep /\ n.written < MaxChars
    /\ IF Len(xmit) = Cap
       THEN asleep' = TRUE /\ UNCHANGED <<xmit, n, writing>>
       ELSE /\ k <= Cap - Len(xmit) /\ n.written + k <= MaxChars
            /\ xmit' = xmit \o [i \in 1 .. k |-> n.written + i]
            /\ n' = [n EXCEPT !.written = @ + k]
            /\ writing' = TRUE /\ UNCHANGED asleep
    /\ UNCHANGED <<x_char, fifo, wire, thre, rx_ien, flow, cut, xpc, con, saved, rxv, flushed>>

\* uart_start: nothing to do when the interrupt was faster, or the tty stopped
WriteStart ==
    /\ CpuFree /\ writing
    /\ uart_start(tstopped)
    /\ writing' = FALSE
    /\ UNCHANGED <<wire, rx_ien, flow, xpc, con, saved, rxv, flushed, n>>

\* uart_send_xchar: x_char is set without the lock ...
SetXchar ==
    /\ CpuFree /\ xpc = "idle" /\ n.x < MaxX
    /\ x_char' = n.x + 1 /\ n' = [n EXCEPT !.x = @ + 1]
    /\ xpc' = "start"
    /\ UNCHANGED <<xmit, fifo, wire, thre, rx_ien, flow, cut, writing, asleep, con, saved, rxv, flushed>>

\* ... and start_tx called under it
SendXchar ==
    /\ CpuFree /\ xpc = "start" /\ xpc' = "idle"
    /\ start_tx(tstopped)
    /\ UNCHANGED <<wire, rx_ien, flow, writing, con, saved, rxv, flushed, n>>

\* stop_tty and start_tty, their locked part: nothing to do if the tty is stopped
\* (not stopped) already ...
TtyStop ==
    /\ CpuFree /\ ~ tstopped /\ n.stops < MaxStops
    /\ tstopped' = TRUE /\ halting' = halting + 1
    /\ n' = [n EXCEPT !.stops = @ + 1]
    /\ UNCHANGED <<txv, wire, thre, rx_ien, resuming, cut, writing, asleep, xpc, con,
                   saved, rxv, flushed>>

TtyStart ==
    /\ CpuFree /\ tstopped
    /\ tstopped' = FALSE /\ resuming' = resuming + 1
    /\ UNCHANGED <<txv, wire, thre, rx_ien, halting, cut, writing, asleep, xpc, con,
                   saved, rxv, flushed, n>>

\* ... and, the lock dropped, the driver's uart_stop, which calls __stop_tx whatever
\* happened to tty->stopped meanwhile,
uart_stop ==
    /\ CpuFree /\ halting > 0
    /\ halting' = halting - 1 /\ thre' = FALSE
    /\ cut' = IF cut = "late" \/ ~ tstopped THEN "late" ELSE "stop"
    /\ UNCHANGED <<txv, wire, rx_ien, tstopped, resuming, writing, asleep, xpc, con, saved,
                   rxv, flushed, n>>

\* and uart_start (the writer it wakes looks again)
Resume ==
    /\ CpuFree /\ resuming > 0
    /\ resuming' = resuming - 1
    /\ uart_start(tstopped)
    /\ UNCHANGED <<wire, rx_ien, tstopped, halting, writing, xpc, con, saved, rxv, flushed, n>>

\* uart_flush_buffer: the buffer is cleared, what the FIFO has is sent
Flush ==
    /\ CpuFree /\ xmit # <<>> /\ n.flushes < MaxStops
    /\ flushed' = flushed \cup Range(xmit)
    /\ xmit' = <<>>
    /\ asleep' = FALSE
    /\ n' = [n EXCEPT !.flushes = @ + 1]
    /\ UNCHANGED <<x_char, fifo, wire, thre, rx_ien, flow, cut, writing, xpc, con, saved, rxv>>

-----------------------------------------------------------------------------
(* nuc970serial_interrupt *)

\* receive_chars: until the FIFO is empty; an overrun is counted and cleared.
\* uart_insert_char counts what the tty has no buffer for: from some character on
\* all of them, since nothing frees buffers while the handler runs.
ReceiveAll ==
    \E c \in 0 .. Len(rfifo) :
        /\ flip' = flip \o SubSeq(rfifo, 1, c)
        /\ dropped' = dropped \cup {rfifo[i] : i \in c + 1 .. Len(rfifo)}
        /\ buf_overrun' = buf_overrun + (Len(rfifo) - c)
        /\ rfifo' = <<>>
        /\ overrun' = IF over THEN overrun + 1 ELSE overrun
        /\ over' = FALSE
        /\ UNCHANGED lost

\* The interrupt status is read once: receive first, then transmit if the FIFO
\* was empty, then clear the error flags.
Interrupt ==
    LET rx == rfifo # <<>>
        tx == fifo = <<>>
        s == transmit_chars(tstopped)
    IN  /\ CpuFree
        /\ (rx /\ rx_ien) \/ (tx /\ thre)
        /\ IF rx THEN ReceiveAll ELSE UNCHANGED rxv
        /\ IF tx THEN Transmitted(s, thre /\ ~ s.stop) ELSE UNCHANGED <<txv, thre, asleep>>
        /\ UNCHANGED <<wire, rx_ien, flow, cut, writing, xpc, con, saved, flushed, n>>

-----------------------------------------------------------------------------
(* nuc970serial_console_write: interrupts off from begin to end *)

ConsoleBegin ==
    /\ CpuFree /\ n.con < MaxCon
    /\ con' = "put" /\ saved' = thre
    /\ thre' = FALSE /\ rx_ien' = FALSE
    /\ UNCHANGED <<txv, wire, flow, cut, writing, asleep, xpc, rxv, flushed, n>>

\* console_putchar waits for an empty FIFO before each character
ConsolePut ==
    /\ con = "put" /\ fifo = <<>>
    /\ fifo' = Push(fifo, Con(n.con + 1))
    /\ n' = [n EXCEPT !.con = @ + 1]
    /\ con' \in {"end"} \cup (IF n.con + 1 < MaxCon THEN {"put"} ELSE {})
    /\ UNCHANGED <<xmit, x_char, wire, thre, rx_ien, flow, cut, writing, asleep, xpc,
                   saved, rxv, flushed>>

\* wait for the last character, restore IER
ConsoleEnd ==
    /\ con = "end" /\ fifo = <<>>
    /\ con' = "off" /\ saved' = FALSE
    /\ thre' = saved /\ rx_ien' = TRUE
    /\ UNCHANGED <<txv, wire, flow, cut, writing, asleep, xpc, rxv, flushed, n>>

-----------------------------------------------------------------------------
(* The UART (hardware) *)

Shift ==
    /\ fifo # <<>>
    /\ fifo' = Tail(fifo)
    /\ wire' = IF Head(fifo)[1] = "tty" THEN Append(wire, Head(fifo)[2]) ELSE wire
    /\ UNCHANGED <<xmit, x_char, thre, rx_ien, flow, cut, writing, asleep, xpc, con, saved, rxv, flushed, n>>

Arrive ==
    /\ n.arrived < MaxRx
    /\ n' = [n EXCEPT !.arrived = @ + 1]
    /\ IF Len(rfifo) < RxDepth
       THEN rfifo' = Append(rfifo, n.arrived + 1) /\ UNCHANGED <<over, lost>>
       ELSE over' = TRUE /\ lost' = lost \cup {n.arrived + 1} /\ UNCHANGED rfifo
    /\ UNCHANGED <<txv, wire, thre, rx_ien, flow, cut, writing, asleep, xpc, con, saved,
                   flip, overrun, buf_overrun, dropped, flushed>>

-----------------------------------------------------------------------------
Tasks   == (\E k \in 1 .. Cap : WriteCopy(k)) \/ WriteStart \/ SetXchar \/ SendXchar
           \/ TtyStop \/ TtyStart \/ uart_stop \/ Resume \/ Flush
Console == ConsoleBegin \/ ConsolePut \/ ConsoleEnd
UartNext == Tasks \/ Interrupt \/ Console \/ Shift \/ Arrive

UartSpec == UartInit /\ [][UartNext]_vars

\* The UART sends, the CPU takes a raised interrupt and finishes what runs with
\* interrupts off, and the tasks go on between the two halves of a call.
UartFairSpec ==
    /\ UartSpec
    /\ WF_vars(Shift) /\ WF_vars(Interrupt) /\ WF_vars(ConsolePut \/ ConsoleEnd)
    /\ WF_vars(WriteStart) /\ WF_vars(SendXchar) /\ WF_vars(uart_stop) /\ WF_vars(Resume)
-----------------------------------------------------------------------------
(* Properties *)

\* Type invariant: buffer and FIFOs never hold more than they can.
UartTypeOK ==
    /\ Len(xmit) <= Cap /\ Range(xmit) \subseteq 1 .. MaxChars
    /\ x_char \in 0 .. MaxX /\ Len(fifo) <= TxDepth /\ Len(rfifo) <= RxDepth
    /\ {thre, rx_ien, tstopped, writing, asleep, saved, over} \subseteq BOOLEAN
    /\ cut \in {"no", "stop", "late"}
    /\ xpc \in {"idle", "start"}
    /\ con \in {"off", "put", "end"} /\ {halting, resuming} \subseteq Nat

Ascending(s) == \A i, j \in DOMAIN s : i < j => s[i] < s[j]
Before(S, T) == \A a \in S, b \in T : a < b

\* the places of the FIFO that hold characters of the tty, and these characters
InFifo == {i \in DOMAIN fifo : fifo[i][1] = "tty"}
TtyChars == {fifo[i][2] : i \in InFifo}

\* What was written and not flushed is, in this order, on the wire, in the FIFO
\* and in the buffer: nothing is lost by a FIFO that is written to without a
\* look at TX_FULL, nothing repeated or overtaken, whoever calls transmit_chars
\* and however the console mixes its characters in.
TtyOutputInOrder ==
    /\ Ascending(wire) /\ Ascending(xmit)
    /\ \A i, j \in InFifo : i < j => fifo[i][2] < fifo[j][2]
    /\ Before(Range(wire), TtyChars) /\ Before(TtyChars, Range(xmit))
    /\ Before(Range(wire), Range(xmit))
    /\ Range(wire) \cup TtyChars \cup Range(xmit) = (1 .. n.written) \ flushed

\* The FIFO is filled to the last place by an XON/XOFF character only: data
\* alone always leaves a place (start_tx writes less than the room).
FullOnlyByXchar == Len(fifo) = TxDepth => Last(fifo)[1] = "x"

\* No output is lost, repeated or reordered, and data alone never fill the FIFO.
OutputIntact == UartTypeOK /\ TtyOutputInOrder /\ FullOnlyByXchar

\* Output strands for two reasons only.  Data to send (and not stopped), or an
\* x_char, is covered by THRE_IEN, in the register or saved by the console, or by
\* a caller on its way to start_tx, but
\*  - stop_tty may call the driver after a start_tty has overtaken it and turns
\*    THRE_IEN off although the tty runs, until somebody calls start_tx again;
\*  - a stop of the tty holds an x_char back until then: __stop_tx does not look
\*    at it, and a start of the tty without data does not call start_tx.
\* A sleeping writer has Wake or more characters before him and so a wake-up to
\* come.
OutputCovered ==
    /\ xmit # <<>> /\ ~ tstopped => thre \/ saved \/ writing \/ resuming > 0 \/ cut = "late"
    /\ x_char # 0 => thre \/ saved \/ xpc = "start" \/ cut # "no"
    /\ asleep => Len(xmit) >= Wake

\* Received characters are passed up once, in order; those missing were lost by
\* a full FIFO, and the overrun was counted or still stands in FSR, or found no
\* buffer in the tty, and buf_overrun counts these.
RxInOrder ==
    /\ Ascending(flip \o rfifo)
    /\ Range(flip \o rfifo) = (1 .. n.arrived) \ (lost \cup dropped)
    /\ lost # {} => over \/ overrun > 0
    /\ dropped # {} => buf_overrun > 0

\* Everything written is handed to the UART, unless it is flushed, the tty is
\* stopped, or a stop that came late turned THRE_IEN off.
TtyOutputSent == (xmit # <<>>) ~> (xmit = <<>> \/ tstopped \/ cut = "late")

\* An XON/XOFF character goes out past a full buffer and past a busy console;
\* a stop of the tty may hold it back.
XcharSent == (xpc = "start") ~> (x_char = 0 \/ cut # "no")

\* A received character reaches the tty, also after a console message that
\* kept the interrupts off.
RxPassed == (rfifo # <<>>) ~> (rfifo = <<>>)

\* Characters move, in both directions, whatever the console does meanwhile.
CharactersMove == TtyOutputSent /\ XcharSent /\ RxPassed
=============================================================================

------------------------------ MODULE Keyboard ------------------------------
(***************************************************************************)
(* The keyboard device of drivers/char/hndl_char_devices: the circular     *)
(* buffer and the file operations of hnos_kbd_core.c, filled by the scan   *)
(* timer of hnos_kbd_hntt1800x.c (or by a keyboard with larger key codes,  *)
(* through kb_custom_key_insert) and emptied by processes in kb_read.      *)
(*                                                                         *)
(* One CPU: the timer runs to its end without any process running, and     *)
(* neither it nor another process runs while a process holds dev->lock     *)
(* with interrupts disabled.  Between those a process may lose the CPU     *)
(* anywhere.  Each iteration of the copy loops is a step.                  *)
(*                                                                         *)
(* A byte is known by its number: byte k is the k-th the buffer accepted.  *)
(***************************************************************************)
EXTENDS Integers, Sequences, FiniteSets

CONSTANTS
    N,           \* KB_BUF_LEN, a power of two
    Procs,       \* processes that may hold the device file
    KeyStates,   \* what a scan of the key pins may find, NoKey included
    NoKey,       \* KEY_INPUT_INVALID: no key is pressed
    CustomSizes, \* sizes given to kb_custom_key_insert
    ReadSizes,   \* sz_key_kernel: 1, or 4 when count == 4
    MaxBytes     \* bound: bytes offered to the buffer

ASSUME KbConstants ==
    /\ N \in Nat /\ N > 1 /\ MaxBytes \in Nat
    /\ NoKey \in KeyStates
    /\ CustomSizes \subseteq Nat \ {0} /\ ReadSizes \subseteq Nat \ {0}

VARIABLES
    buf, head, tail, \* struct circ_buf
    key_i_last,      \* what the last scan found
    ipc, left,       \* where the inserting timer is; bytes it still has to put
    queue,           \* hndl_kb_queue: processes to be woken
    pc,              \* where each process is
    size, ret, want, \* kb_read: bytes of a key, bytes got, bytes still to get
    res,             \* how the process's last open or read ended
    holders,         \* processes that have the device file open
    is_open,         \* dev->is_open
    accepted, refused, \* bytes put into the buffer, bytes that found no space
    out              \* bytes taken out of the buffer, in order

ring   == <<buf, head, tail, accepted>>
timer  == <<key_i_last, ipc, left, refused>>
reader == <<size, ret, want, res>>
file   == <<holders, is_open>>
kbvars == <<ring, timer, queue, pc, reader, file, out>>

Index == 0 .. N-1

Steps == {"user", "lock", "cond", "prepare", "recheck", "asleep", "get", "copy"}

KbInit ==
    /\ buf = [i \in Index |-> 0] /\ head = 0 /\ tail = 0
    /\ key_i_last = NoKey /\ ipc = "idle" /\ left = 0
    /\ queue = {} /\ pc = [p \in Procs |-> "user"]
    /\ size = [p \in Procs |-> 1] /\ ret = [p \in Procs |-> 0]
    /\ want = [p \in Procs |-> 0] /\ res = [p \in Procs |-> "none"]
    /\ holders = {} /\ is_open = FALSE
    /\ accepted = 0 /\ refused = 0 /\ out = <<>>

-----------------------------------------------------------------------------
(* Mutants: definitions below with a plausible bug, to show that each        *)
(* property can fail.  No specification uses them.                           *)

CntWhole == head - tail

SpaceShort == LET end == N - 1 - head
                  n == (end + tail) % N
              IN  IF n <= end THEN n ELSE end

SpaceOver == LET end == N - 1 - head
                 n == (end + tail) % N
             IN  IF n < end THEN n + 1 ELSE end + 1

WaitRecheckSleeps(p) ==
    /\ ipc = "idle" /\ pc[p] = "recheck"
    /\ pc' = [pc EXCEPT ![p] = "asleep"]
    /\ UNCHANGED <<ring, timer, queue, reader, file, out>>

WakeUpForgets ==
    /\ ipc = "wake"
    /\ ipc' = "idle"
    /\ UNCHANGED <<ring, key_i_last, left, refused, queue, pc, reader, file, out>>

-----------------------------------------------------------------------------
(* Helpers *)

\* & (KB_BUF_LEN - 1)
Mask(x) == x % N

\* CIRC_CNT, and the contiguous parts CIRC_CNT_TO_END and CIRC_SPACE_TO_END
Avail == Mask(head - tail)

CntToEnd == LET end == N - tail
                n == Mask(head + end)
            IN  IF n < end THEN n ELSE end

SpaceToEnd == LET end == N - 1 - head
                  n == Mask(end + tail)
              IN  IF n <= end THEN n ELSE end + 1

Smaller(a, b) == IF a < b THEN a ELSE b

\* kb_buf_not_empty
NotEmpty == Avail > 0

\* A process runs: no timer is running, no other process holds dev->lock.
Runs(p) == ipc = "idle" /\ \A q \in Procs \ {p} : pc[q] # "get"

\* The timer runs: no process has interrupts disabled.
TimerRuns == \A q \in Procs : pc[q] # "get"

-----------------------------------------------------------------------------
(* The inserting side, in timer context. *)

\* kb_key_insert and kb_custom_key_insert: n bytes are to be put.
Insert(n) ==
    /\ accepted + refused + n <= MaxBytes
    /\ ipc' = "put" /\ left' = n

\* kbd_hntt1800x_test: a scan that finds what the last one found does nothing;
\* another one inserts a key code, unless all keys are released.
Scan(k) ==
    /\ ipc = "idle" /\ TimerRuns /\ k # key_i_last
    /\ key_i_last' = k
    /\ IF k = NoKey THEN UNCHANGED <<ipc, left>> ELSE Insert(1)
    /\ UNCHANGED <<ring, refused, queue, pc, reader, file, out>>

\* Another keyboard driver hands over an event of n bytes.
CustomKey(n) ==
    /\ ipc = "idle" /\ TimerRuns
    /\ Insert(n)
    /\ UNCHANGED <<ring, key_i_last, refused, queue, pc, reader, file, out>>

\* One iteration of kb_buf_put.
kb_buf_put ==
    /\ ipc = "put"
    /\ LET c == Smaller(left, SpaceToEnd)
       IN  IF c <= 0
           THEN /\ ipc' = "wake" /\ refused' = refused + left /\ left' = 0
                /\ UNCHANGED ring
           ELSE /\ buf' = [i \in Index |-> IF i \in head .. head+c-1
                                           THEN accepted + 1 + (i - head) ELSE buf[i]]
                /\ head' = Mask(head + c)
                /\ accepted' = accepted + c /\ left' = left - c
                /\ UNCHANGED <<tail, ipc, refused>>
    /\ UNCHANGED <<key_i_last, queue, pc, reader, file, out>>

\* wake_up_interruptible, after the lock is dropped.
WakeUp ==
    /\ ipc = "wake"
    /\ queue' = {}
    /\ pc' = [p \in Procs |-> IF pc[p] = "asleep" /\ p \in queue THEN "prepare" ELSE pc[p]]
    /\ ipc' = "idle"
    /\ UNCHANGED <<ring, key_i_last, left, refused, reader, file, out>>

-----------------------------------------------------------------------------
(* The device file. *)

\* kb_open: one open file at a time.
kb_open(p) ==
    /\ Runs(p) /\ pc[p] = "user" /\ p \notin holders
    /\ IF is_open
       THEN res' = [res EXCEPT ![p] = "EBUSY"] /\ UNCHANGED file
       ELSE /\ is_open' = TRUE /\ holders' = {p}
            /\ res' = [res EXCEPT ![p] = "ok"]
    /\ UNCHANGED <<ring, timer, queue, pc, size, ret, want, out>>

\* A child process shares the open file.
Fork(p, q) ==
    /\ Runs(p) /\ pc[p] = "user" /\ p \in holders /\ q \notin holders
    /\ holders' = holders \cup {q}
    /\ UNCHANGED <<ring, timer, queue, pc, reader, is_open, out>>

\* close; the last one calls kb_release.
Close(p) ==
    /\ Runs(p) /\ pc[p] = "user" /\ p \in holders
    /\ holders' = holders \ {p}
    /\ is_open' = (is_open /\ holders' # {})
    /\ UNCHANGED <<ring, timer, queue, pc, reader, out>>

-----------------------------------------------------------------------------
(* kb_read. *)

Return(p, r) == /\ res' = [res EXCEPT ![p] = r]
                /\ pc' = [pc EXCEPT ![p] = "user"]

Goto(p, s) == pc' = [pc EXCEPT ![p] = s]

\* The call, up to spin_lock_irqsave; n is sz_key_kernel.
ReadEnter(p, n) ==
    /\ Runs(p) /\ pc[p] = "user" /\ p \in holders
    /\ size' = [size EXCEPT ![p] = n] /\ res' = [res EXCEPT ![p] = "none"]
    /\ Goto(p, "lock")
    /\ UNCHANGED <<ring, timer, queue, ret, want, file, out>>

\* With the lock: start to copy if there is data; otherwise drop the lock and
\* either return -EAGAIN (O_NONBLOCK) or wait.
ReadLocked(p) ==
    /\ Runs(p) /\ pc[p] = "lock"
    /\ IF NotEmpty
       THEN /\ Goto(p, "get")
            /\ want' = [want EXCEPT ![p] = size[p]]
            /\ ret' = [ret EXCEPT ![p] = 0]
            /\ UNCHANGED res
       ELSE /\ Return(p, "EAGAIN") \/ (Goto(p, "cond") /\ UNCHANGED res)
            /\ UNCHANGED <<ret, want>>
    /\ UNCHANGED <<ring, timer, queue, size, file, out>>

\* wait_event_interruptible tests the condition before it queues, ...
WaitTest(p) ==
    /\ Runs(p) /\ pc[p] = "cond"
    /\ Goto(p, IF NotEmpty THEN "lock" ELSE "prepare")
    /\ UNCHANGED <<ring, timer, queue, reader, file, out>>

\* ... queues (prepare_to_wait), ...
WaitPrepare(p) ==
    /\ Runs(p) /\ pc[p] = "prepare"
    /\ queue' = queue \cup {p}
    /\ Goto(p, "recheck")
    /\ UNCHANGED <<ring, timer, reader, file, out>>

\* ... and tests again before it sleeps.  A wake-up since it queued makes
\* schedule() return at once.
WaitRecheck(p) ==
    /\ Runs(p) /\ pc[p] = "recheck"
    /\ Goto(p, IF NotEmpty THEN "lock" ELSE IF p \in queue THEN "asleep" ELSE "prepare")
    /\ queue' = IF NotEmpty THEN queue \ {p} ELSE queue
    /\ UNCHANGED <<ring, timer, reader, file, out>>

\* A signal ends the wait with -ERESTARTSYS, unless there is data by now.
WaitSignal(p) ==
    /\ Runs(p) /\ pc[p] = "asleep"
    /\ queue' = queue \ {p}
    /\ IF NotEmpty THEN Goto(p, "lock") /\ UNCHANGED res ELSE Return(p, "ERESTARTSYS")
    /\ UNCHANGED <<ring, timer, size, ret, want, file, out>>

\* One iteration of kb_buf_get; the last one drops the lock, and a key that
\* came out short ends the call with -EFAULT.
kb_buf_get(p) ==
    /\ Runs(p) /\ pc[p] = "get"
    /\ LET c == Smaller(want[p], CntToEnd)
       IN  IF c <= 0
           THEN /\ IF ret[p] # size[p] THEN Return(p, "short")
                   ELSE Goto(p, "copy") /\ UNCHANGED res
                /\ UNCHANGED <<tail, out, ret, want>>
           ELSE /\ out' = out \o [i \in 1 .. c |-> buf[tail + i - 1]]
                /\ tail' = Mask(tail + c)
                /\ ret' = [ret EXCEPT ![p] = @ + c]
                /\ want' = [want EXCEPT ![p] = @ - c]
                /\ UNCHANGED <<pc, res>>
    /\ UNCHANGED <<buf, head, accepted, timer, queue, size, file>>

\* copy_to_user succeeds or faults.
CopyToUser(p) ==
    /\ Runs(p) /\ pc[p] = "copy"
    /\ \E r \in {"ok", "EFAULT"} : Return(p, r)
    /\ UNCHANGED <<ring, timer, queue, size, ret, want, file, out>>

-----------------------------------------------------------------------------

TimerNext == \/ \E k \in KeyStates : Scan(k)
             \/ \E n \in CustomSizes : CustomKey(n)
             \/ kb_buf_put \/ WakeUp

ReadStep(p) == \/ ReadLocked(p) \/ WaitTest(p) \/ WaitPrepare(p) \/ WaitRecheck(p)
               \/ kb_buf_get(p) \/ CopyToUser(p)

ProcNext(p) == \/ kb_open(p) \/ Close(p) \/ \E q \in Procs : Fork(p, q)
               \/ \E n \in ReadSizes : ReadEnter(p, n)
               \/ ReadStep(p) \/ WaitSignal(p)

KbNext == TimerNext \/ \E p \in Procs : ProcNext(p)

KbSpec == KbInit /\ [][KbNext]_kbvars

\* The timer, once begun, ends; the scheduler runs every runnable process.
KbFairSpec == /\ KbSpec
              /\ WF_kbvars(kb_buf_put \/ WakeUp)
              /\ \A p \in Procs : WF_kbvars(ReadStep(p))

-----------------------------------------------------------------------------
(* Properties *)

\* Types; the copied sizes never leave the buffer and a loop never overshoots.
KbTypeOK ==
    /\ buf \in [Index -> Nat] /\ head \in Index /\ tail \in Index
    /\ key_i_last \in KeyStates /\ ipc \in {"idle", "put", "wake"} /\ left \in Nat
    /\ queue \subseteq Procs /\ pc \in [Procs -> Steps]
    /\ size \in [Procs -> Nat] /\ ret \in [Procs -> Nat] /\ want \in [Procs -> Nat]
    /\ res \in [Procs -> {"none", "ok", "EBUSY", "EAGAIN", "ERESTARTSYS", "short", "EFAULT"}]
    /\ holders \subseteq Procs /\ is_open \in BOOLEAN
    /\ accepted \in Nat /\ refused \in Nat /\ out \in Seq(Nat)

\* First in, first out: the bytes readers have taken are those accepted first,
\* in order, each once, and those the buffer holds from tail on are the rest,
\* across every wrap of kb_buf_put and kb_buf_get.
BytesInOrder ==
    /\ \A i \in 1 .. Len(out) : out[i] = i
    /\ accepted = Len(out) + Avail
    /\ \A i \in 0 .. Avail-1 : buf[Mask(tail + i)] = Len(out) + i + 1

\* kb_buf_put refuses bytes only when the buffer holds N - 1, however little
\* space there is up to its end ("Restrict to the amount of space available").
LostOnlyWhenFull ==
    [][refused' # refused => accepted - Len(out) = N - 1]_kbvars

\* No lost wake-up: when the timer is done, no process sleeps on a buffer that
\* has data, although kb_read tests the buffer without the lock.
NoSleepOnData ==
    (ipc = "idle" /\ NotEmpty) => \A p \in Procs : pc[p] # "asleep"

\* Readers of one-byte keys that share the file never find the buffer empty
\* once they have the lock: kb_read tests it again after every wait.
NoShortKey ==
    \A p \in Procs : size[p] = 1 => res[p] # "short"

\* A process that waits for a key returns once there is one, or another
\* process took it.
ReaderServed ==
    \A p \in Procs :
        (pc[p] # "user" /\ NotEmpty) ~> (pc[p] = "user" \/ ~ NotEmpty)
=============================================================================

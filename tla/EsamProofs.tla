----------------------------- MODULE EsamProofs -----------------------------
(***************************************************************************)
(* Proofs about Esam for bytes of two or more bits, all commands, all      *)
(* answers that are as long as they say, all counts and any patience of    *)
(* the poll: commands are delivered whole, accepted answers are exact, the *)
(* chip is left deselected and the infrared pin alone.                     *)
(*                                                                         *)
(* The inductive invariant says, for each place of a call, how many of the *)
(* settings of its list are done, what the lines show after so many, and   *)
(* which bits the chip has heard or sent by then.  It holds until two      *)
(* calls are mixed or rx_buf is overrun (lost # "no").  What holds of the  *)
(* infrared pin does so afterwards too, by an invariant of its own.        *)
(***************************************************************************)
EXTENDS Esam, FiniteSetTheorems, SequenceTheorems, TLAPS

Bit   == {0, 1}
Lines == [ir : Bit, clk : Bit, cs : Bit, mosi : Bit]
Ops   == {"clk", "cs", "mosi", "sample"} \X Bit

\* prog is what is left of the list l, of which Done(l) entries are done
Rest(l) ==
    /\ Len(prog) <= Len(l)
    /\ \A k \in 1 .. Len(prog) : prog[k] = l[Len(l) - Len(prog) + k]
Done(l) == Len(l) - Len(prog)

\* the chip is deselected and at rest, the clock high
Quiet == port.cs = 1 /\ port.clk = 1 /\ heard = <<>> /\ out = <<>>

\* The process between the two statements of a setting holds the register as it
\* is, but for the infrared pin, and that differs only after a tick.
HeldCopy ==
    /\ t \in {<<>>} \cup {<<p>> : p \in Lines}
    /\ t # <<>> => /\ prog # <<>> /\ Op[1] # "sample"
                   /\ t[1].clk = port.clk /\ t[1].cs = port.cs /\ t[1].mosi = port.mosi
                   /\ t[1].ir # level => hit

\* What the chip may answer with belongs to the last command.
AnswerKnows ==
    /\ heard \in Seq(Bit) /\ in \in Seq(Bit)
    /\ answer # <<>> => due \in Answers /\ \E f \in Sent(due) : answer = BitsOf(f)
    /\ then # "written" => cmd = last

\* A write: three settings per bit, of which the chip has heard those clocked in.
StartKnows(l) ==
    /\ port.cs = 1 /\ heard = <<>> /\ out = <<>>
    /\ port.clk = IF Done(l) = 2 THEN 0 ELSE 1

FrameKnows(fb, p) ==
    /\ port.cs = 0
    /\ \E r \in 0 .. 2 :
        /\ p = 3 * Len(heard) + r
        /\ port.clk = IF r = 0 THEN 1 ELSE 0
        /\ r = 2 => port.mosi = fb[Len(heard) + 1]
    /\ \A j \in 1 .. Len(heard) : heard[j] = fb[j]

\* the chip's last command after a write of d: no bytes are no command
After(d) == IF d = <<>> THEN last ELSE d

WriteKnows ==
    LET fb == BitsOf(Frame(arg))
        l  == WriteStart \o WriteFrame(arg)
    IN  then = "written" =>
            /\ arg \in Seq(Byte) /\ Len(arg) + 2 <= BufSize /\ Rest(l)
            /\ Done(l) <= 4 => StartKnows(l)
            /\ Done(l) \in 5 .. 5 + 3 * Len(fb) => FrameKnows(fb, Done(l) - 5)
            /\ Done(l) < 6 + 3 * Len(fb) => cmd = last
            /\ Done(l) = 6 + 3 * Len(fb) => Quiet /\ cmd = After(arg)

RefusedKnows == then = "refused" => Rest(WriteStart) /\ StartKnows(WriteStart)

\* While a read clocks bits in, the chip hears only ones ...
Listening ==
    /\ port.cs = 0 /\ port.mosi = 1
    /\ \A j \in 1 .. Len(heard) : heard[j] = 1

\* ... and sends src: base bits went before this list, m of the list's bits are
\* done and r of the three entries of the next one; in has what was sampled.
Sending(src, base, m, r) ==
    LET c == base + m + (IF r = 0 THEN 0 ELSE 1)
    IN  /\ port.clk = IF r = 0 THEN 1 ELSE 0
        /\ Len(in) = IF r = 2 THEN m + 1 ELSE m
        /\ \A j \in 1 .. Len(in) : in[j] = src[base + j]
        /\ r # 0 => miso = src[c]
        /\ IF c = 0 THEN out = <<>> ELSE out = SubSeq(src, c + 1, Len(src))

Stream(src, base, p) ==
    \E m \in Nat, r \in 0 .. 2 : p = 3 * m + r /\ Sending(src, base, m, r)

CheckKnows ==
    then = "check" => /\ Rest(Pin("mosi", 1)) /\ Quiet
                      /\ prog = <<>> => port.mosi = 1

PollList == Pin("cs", 0) \o ReceiveBytes(1)

PollKnows ==
    then = "poll" =>
        /\ CMD_SENT /\ polls < Polls /\ Rest(PollList)
        /\ Done(PollList) = 0 => Quiet /\ port.mosi = 1 /\ in = <<>>
        /\ Done(PollList) > 0 =>
                /\ Listening
                /\ \E src \in {BitsOf(<<Zero>>), answer} \ {<<>>} :
                        Stream(src, 0, Done(PollList) - 1)

HeaderKnows ==
    then = "header" =>
        /\ CMD_SENT /\ Rest(ReceiveBytes(4)) /\ Listening /\ answer # <<>>
        /\ Stream(answer, Bits, Done(ReceiveBytes(4)))

\* ... or, after a length that is not the answer's, bits of which nothing is known.
Taking(p) ==
    \E m \in Nat, r \in 0 .. 2 :
        /\ p = 3 * m + r
        /\ port.clk = IF r = 0 THEN 1 ELSE 0
        /\ Len(in) = IF r = 2 THEN m + 1 ELSE m
        /\ out \in Seq(Bit)
        /\ r # 0 => miso \in Bit

\* The data: if the length read is the answer's, the bytes after the header are
\* those after the answer's header.  Any length fits the buffer (lost = "no").
RightKnows(l) ==
    \E f \in Sent(due) :
        /\ got = [i \in 1 .. 4 |-> f[i + 1]]
        /\ prog # <<>> => /\ Listening /\ answer = BitsOf(f)
                          /\ Stream(answer, 5 * Bits, Done(l))
        /\ prog = <<>> => /\ Quiet /\ Len(in) = (DataLen(got) + 1) * Bits
                          /\ \A j \in 1 .. Len(in) : in[j] = BitsOf(f)[5 * Bits + j]

WrongKnows(l) ==
    /\ prog # <<>> => Listening /\ Taking(Done(l))
    /\ prog = <<>> => Quiet /\ Len(in) = (DataLen(got) + 1) * Bits

DataKnows ==
    LET l == ReceiveBytes(DataLen(got) + 1) \o Pin("cs", 1)
    IN  then = "data" =>
            /\ Rest(l) /\ due \in Answers /\ got \in Seq(Byte) /\ Len(got) = 4
            /\ DataLen(got) \in Nat /\ DataLen(got) + 5 <= BufSize
            /\ DataLen(got) = DataLen(due) => RightKnows(l)
            /\ DataLen(got) # DataLen(due) => WrongKnows(l)

FailedKnows ==
    then = "failed" =>
        /\ Rest(Pin("cs", 1))
        /\ IF prog = <<>> THEN Quiet ELSE Listening /\ port.clk = 1

\* Outside its lists a call has no bits, and between calls all is at rest.
AtRest ==
    /\ then \in {"idle", "check"} \/ then \in {"written", "refused"} => in = <<>> /\ polls = 0
    /\ then = "idle" => prog = <<>> /\ Quiet
    /\ then = "check" => arg \in Nat

PortOK == EsamTypeOK /\ DeselectedWhenIdle /\ IrWrongOnlyByOverlap

EsamInv ==
    /\ PortOK /\ prog \in Seq(Ops)
    /\ HeldCopy /\ AnswerKnows
    /\ WriteKnows /\ RefusedKnows /\ CheckKnows
    /\ PollKnows /\ HeaderKnows /\ DataKnows /\ FailedKnows /\ AtRest

-----------------------------------------------------------------------------
(* Numbers *)

LEMMA Consts ==
    /\ Bits \in Nat /\ Bits > 1 /\ Polls \in Nat /\ Polls > 0
    /\ BufSize \in Nat /\ BufSize > 5 /\ Counts \subseteq Nat
BY EsamConstants

\* A place among bits is a byte and a bit in it.
LEMMA PlaceSplit ==
    ASSUME NEW i \in Nat, NEW j \in 1 .. Bits
    PROVE  /\ (i * Bits + j - 1) \div Bits = i
           /\ (i * Bits + j - 1) % Bits = j - 1
BY Consts

\* The place is among the bits of c bytes exactly if the byte is one of them.
LEMMA PlaceIn ==
    ASSUME NEW c \in Nat, NEW i \in Nat, i < c, NEW j \in 1 .. Bits
    PROVE  i * Bits + j \in 1 .. c * Bits
<1>1. i + 1 <= c
  OBVIOUS
<1>2. (i + 1) * Bits <= c * Bits
  BY <1>1, Consts
<1>. QED  BY <1>2, Consts

LEMMA Monotone ==
    ASSUME NEW a \in Nat, NEW b \in Nat, a <= b
    PROVE  a * Bits <= b * Bits /\ a * Bits <= Bits * b /\ a * Bits \in Nat
<1>1. b * Bits = Bits * b
  BY Consts
<1>2. a * Bits <= b * Bits
  BY Consts
<1>. QED  BY <1>1, <1>2, Consts

LEMMA PlaceOf ==
    ASSUME NEW c \in Nat, NEW k \in 1 .. c * Bits
    PROVE  \E i \in Nat, j \in 1 .. Bits : i < c /\ k = i * Bits + j
<1>. DEFINE i == (k - 1) \div Bits
            j == ((k - 1) % Bits) + 1
<1>1. i \in Nat /\ j \in 1 .. Bits /\ k = i * Bits + j
  BY Consts
<1>2. i < c
  <2>. SUFFICES ASSUME i >= c  PROVE FALSE
    BY <1>1
  <2>1. i * Bits >= c * Bits
    BY <1>1, Consts
  <2>. QED  BY <1>1, <2>1, Consts
<1>. QED  BY <1>1, <1>2

LEMMA Blocks ==
    ASSUME NEW c \in Nat
    PROVE  c * Bits \in Nat /\ (c * Bits) \div Bits = c /\ (c * Bits) % Bits = 0
BY Consts

-----------------------------------------------------------------------------
(* Bytes and bits *)

LEMMA ByteValues ==
    /\ Zero \in Byte /\ HEAD \in Byte /\ Zero # HEAD /\ HEAD[1] = 0
    /\ \A a \in Byte : Not(a) \in Byte
    /\ \A a, b \in Byte : Xor(a, b) \in Byte
<1>1. Zero \in Byte /\ HEAD \in Byte
  BY Consts DEF Zero, HEAD, Byte
<1>2. HEAD[1] = 0 /\ HEAD[2] = 1 /\ Zero[2] = 0
  BY Consts DEF Zero, HEAD
<1>3. ASSUME NEW a \in Byte  PROVE Not(a) \in Byte
  <2>1. \A i \in 1 .. Bits : 1 - a[i] \in {0, 1}
    BY DEF Byte
  <2>. QED  BY <2>1 DEF Byte, Not
<1>4. ASSUME NEW a \in Byte, NEW b \in Byte  PROVE Xor(a, b) \in Byte
  <2>1. \A i \in 1 .. Bits : (a[i] + b[i]) % 2 \in {0, 1}
    BY DEF Byte
  <2>. QED  BY <2>1 DEF Byte, Xor
<1>. QED  BY <1>1, <1>2, <1>3, <1>4

\* The bits of a sequence of bytes, one by one.
LEMMA BitsOfIs ==
    ASSUME NEW s \in Seq(Byte)
    PROVE  /\ BitsOf(s) \in Seq(Bit) /\ Len(BitsOf(s)) = Len(s) * Bits
           /\ \A i \in Nat, j \in 1 .. Bits :
                    i < Len(s) => BitsOf(s)[i * Bits + j] = s[i + 1][j]
<1>. DEFINE w == Len(s) * Bits
            e(k) == s[((k - 1) \div Bits) + 1][((k - 1) % Bits) + 1]
<1>1. Len(s) \in Nat /\ w \in Nat
  BY Blocks
<1>2. ASSUME NEW i \in Nat, NEW j \in 1 .. Bits, i < Len(s)
      PROVE  e(i * Bits + j) = s[i + 1][j] /\ s[i + 1][j] \in Bit
  <2>1. s[i + 1] \in Byte
    BY <1>1, <1>2
  <2>2. s[i + 1][j] \in Bit
    BY <2>1 DEF Byte, Bit
  <2>3. ((i * Bits + j) - 1) = (i * Bits + j - 1)
    BY Consts
  <2>. QED  BY PlaceSplit, <2>2, <2>3, Consts
<1>3. \A k \in 1 .. w : e(k) \in Bit
  <2>. SUFFICES ASSUME NEW k \in 1 .. w  PROVE e(k) \in Bit
    OBVIOUS
  <2>1. PICK i \in Nat, j \in 1 .. Bits : i < Len(s) /\ k = i * Bits + j
    BY PlaceOf, <1>1
  <2>. QED  BY <2>1, <1>2
<1>4. BitsOf(s) = [k \in 1 .. w |-> e(k)]
  BY DEF BitsOf
<1>5. BitsOf(s) \in Seq(Bit) /\ Len(BitsOf(s)) = w
  <2>. HIDE DEF e, w
  <2>. QED  BY <1>1, <1>3, <1>4
<1>6. ASSUME NEW i \in Nat, NEW j \in 1 .. Bits, i < Len(s)
      PROVE  BitsOf(s)[i * Bits + j] = s[i + 1][j]
  <2>1. i * Bits + j \in 1 .. w
    BY <1>1, <1>6, PlaceIn
  <2>2. BitsOf(s)[i * Bits + j] = e(i * Bits + j)
    <3>. DEFINE x == i * Bits + j
    <3>. HIDE DEF e, w, x
    <3>1. BitsOf(s)[x] = e(x)
      BY <1>4, <2>1 DEF x
    <3>. QED  BY <3>1 DEF x
  <2>. QED  BY <2>2, <1>2, <1>6
<1>. QED  BY <1>5, <1>6

\* Bits taken together are bytes.
LEMMA BytesOfIs ==
    ASSUME NEW s \in Seq(Bit), NEW c \in Nat, Len(s) = c * Bits
    PROVE  /\ BytesOf(s) \in Seq(Byte) /\ Len(BytesOf(s)) = c
           /\ \A i \in 1 .. c : BytesOf(s)[i] = [j \in 1 .. Bits |-> s[(i - 1) * Bits + j]]
<1>. DEFINE e(i) == [j \in 1 .. Bits |-> s[(i - 1) * Bits + j]]
<1>1. Len(s) \div Bits = c
  BY Blocks
<1>2. ASSUME NEW i \in 1 .. c  PROVE e(i) \in Byte
  <2>1. \A j \in 1 .. Bits : s[(i - 1) * Bits + j] \in Bit
    BY PlaceIn
  <2>. QED  BY <2>1 DEF Byte, Bit
<1>3. BytesOf(s) = [i \in 1 .. c |-> e(i)]
  BY <1>1 DEF BytesOf
<1>4. /\ BytesOf(s) \in Seq(Byte) /\ Len(BytesOf(s)) = c
      /\ \A i \in 1 .. c : BytesOf(s)[i] = e(i)
  <2>. HIDE DEF e
  <2>. QED  BY <1>2, <1>3
<1>. QED  BY <1>4

\* Bits received in step with the bytes of f are those bytes.
LEMMA BytesReceived ==
    ASSUME NEW f \in Seq(Byte), NEW b \in Nat, NEW c \in Nat, b + c <= Len(f),
           NEW s \in Seq(Bit), Len(s) = c * Bits,
           \A j \in 1 .. Len(s) : s[j] = BitsOf(f)[b * Bits + j]
    PROVE  \A i \in 1 .. c : BytesOf(s)[i] = f[b + i]
<1>. SUFFICES ASSUME NEW i \in 1 .. c  PROVE BytesOf(s)[i] = f[b + i]
  OBVIOUS
<1>1. BytesOf(s)[i] = [j \in 1 .. Bits |-> s[(i - 1) * Bits + j]]
  BY BytesOfIs
<1>2. ASSUME NEW j \in 1 .. Bits  PROVE s[(i - 1) * Bits + j] = f[b + i][j]
  <2>1. (i - 1) * Bits + j \in 1 .. Len(s)
    BY PlaceIn
  <2>2. s[(i - 1) * Bits + j] = BitsOf(f)[b * Bits + ((i - 1) * Bits + j)]
    BY <2>1
  <2>3. b * Bits + ((i - 1) * Bits + j) = (b + (i - 1)) * Bits + j
    BY Consts
  <2>4. BitsOf(f)[(b + (i - 1)) * Bits + j] = f[(b + (i - 1)) + 1][j]
    <3>1. b + (i - 1) \in Nat /\ b + (i - 1) < Len(f)
      OBVIOUS
    <3>. QED  BY <3>1, BitsOfIs
  <2>5. (b + (i - 1)) + 1 = b + i
    OBVIOUS
  <2>. QED  BY <2>2, <2>3, <2>4, <2>5
<1>3. f[b + i] \in Byte
  OBVIOUS
<1>4. f[b + i] = [j \in 1 .. Bits |-> f[b + i][j]]
  BY <1>3 DEF Byte
<1>. QED  BY <1>1, <1>2, <1>4

-----------------------------------------------------------------------------
(* The checksum *)

LEMMA PlacesFinite ==
    ASSUME NEW s \in Seq(Byte), NEW j \in 1 .. Bits
    PROVE  /\ IsFiniteSet(Places(s, j)) /\ Cardinality(Places(s, j)) \in Nat
           /\ Places(s, j) \subseteq 1 .. Len(s)
<1>1. Len(s) \in Nat
  OBVIOUS
<1>2. IsFiniteSet(1 .. Len(s))
  BY <1>1, FS_Interval
<1>3. Places(s, j) \subseteq 1 .. Len(s)
  BY DEF Places
<1>4. IsFiniteSet(Places(s, j))
  BY <1>2, <1>3, FS_Subset
<1>. QED  BY <1>3, <1>4, FS_CardinalityType

LEMMA XorAllByte ==
    ASSUME NEW s \in Seq(Byte)
    PROVE  XorAll(s) \in Byte /\ cal_lrc(s) \in Byte
<1>1. \A j \in 1 .. Bits : Cardinality(Places(s, j)) % 2 \in {0, 1}
  <2>. SUFFICES ASSUME NEW j \in 1 .. Bits  PROVE Cardinality(Places(s, j)) % 2 \in {0, 1}
    OBVIOUS
  <2>1. Cardinality(Places(s, j)) \in Nat
    BY PlacesFinite
  <2>. QED  BY <2>1
<1>2. XorAll(s) \in Byte
  BY <1>1 DEF XorAll, Byte
<1>. QED  BY <1>2, ByteValues DEF cal_lrc

\* The exclusive or of bytes and their checksum is all ones.
LEMMA ChecksumCloses ==
    ASSUME NEW s \in Seq(Byte), s # <<>>
    PROVE  XorAll(Append(s, cal_lrc(s))) = Not(Zero)
<1>. DEFINE u == Append(s, cal_lrc(s))
            x == cal_lrc(s)
<1>1. cal_lrc(s) \in Byte /\ XorAll(s) \in Byte
  BY XorAllByte
<1>2. /\ u \in Seq(Byte) /\ Len(u) = Len(s) + 1 /\ u[Len(s) + 1] = x
      /\ \A i \in 1 .. Len(s) : u[i] = s[i]
  BY <1>1
<1>3. ASSUME NEW j \in 1 .. Bits  PROVE Cardinality(Places(u, j)) % 2 = 1
  <2>. DEFINE P == Places(s, j)
              k == Len(s) + 1
  <2>1. /\ IsFiniteSet(P) /\ Cardinality(P) \in Nat /\ k \notin P
    <3>1. P \subseteq 1 .. Len(s)
      BY PlacesFinite
    <3>. QED  BY PlacesFinite, <3>1
  <2>2. x[j] = 1 - (Cardinality(P) % 2)
    BY DEF cal_lrc, Not, XorAll
  <2>3. CASE x[j] = 1
    <3>1. Places(u, j) = P \cup {k}
      <4>. HIDE DEF u, x
      <4>. QED  BY <1>2, <2>3 DEF Places
    <3>2. Cardinality(P \cup {k}) = Cardinality(P) + 1
      <4>. HIDE DEF P, k
      <4>. QED  BY <2>1, FS_AddElement
    <3>. HIDE DEF P, k, u, x
    <3>. QED  BY <2>1, <2>2, <2>3, <3>1, <3>2
  <2>4. CASE x[j] # 1
    <3>1. Places(u, j) = P
      <4>. HIDE DEF u, x
      <4>. QED  BY <1>2, <2>4 DEF Places
    <3>. HIDE DEF P, k, u, x
    <3>. QED  BY <2>1, <2>2, <2>4, <3>1
  <2>. QED  BY <2>3, <2>4
<1>. HIDE DEF u
<1>4. XorAll(u) = [j \in 1 .. Bits |-> 1]
  BY <1>3 DEF XorAll
<1>5. Not(Zero) = [j \in 1 .. Bits |-> 1]
  BY DEF Not, Zero
<1>. QED  BY <1>4, <1>5 DEF u

\* The exclusive or tells two sequences that differ in one bit.
LEMMA ChecksumTells ==
    ASSUME NEW s \in Seq(Byte), NEW u \in Seq(Byte), Len(u) = Len(s), NEW k \in 1 .. Len(s),
           NEW j \in 1 .. Bits, u[k][j] # s[k][j],
           \A i \in 1 .. Len(s) : i # k => u[i] = s[i]
    PROVE  XorAll(s) # XorAll(u)
<1>. DEFINE P == Places(s, j)
            Q == Places(u, j)
<1>1. IsFiniteSet(P) /\ Cardinality(P) \in Nat /\ IsFiniteSet(Q) /\ Cardinality(Q) \in Nat
  BY PlacesFinite
<1>2. Cardinality(P) = Cardinality(Q) + 1 \/ Cardinality(Q) = Cardinality(P) + 1
  <2>0. s[k] \in Byte /\ u[k] \in Byte
    OBVIOUS
  <2>1. s[k][j] \in Bit /\ u[k][j] \in Bit
    BY <2>0 DEF Byte, Bit
  <2>2. CASE s[k][j] = 1
    <3>1. P = Q \cup {k} /\ k \notin Q
      BY <2>1, <2>2 DEF Places, Bit
    <3>. HIDE DEF P, Q
    <3>. QED  BY <1>1, <3>1, FS_AddElement
  <2>3. CASE s[k][j] = 0
    <3>1. Q = P \cup {k} /\ k \notin P
      BY <2>1, <2>3 DEF Places, Bit
    <3>. HIDE DEF P, Q
    <3>. QED  BY <1>1, <3>1, FS_AddElement
  <2>. QED  BY <2>1, <2>2, <2>3 DEF Bit
<1>3. Cardinality(P) % 2 # Cardinality(Q) % 2
  <2>1. \A a \in Nat : a % 2 # (a + 1) % 2
    OBVIOUS
  <2>. HIDE DEF P, Q
  <2>. QED  BY <1>1, <1>2, <2>1
<1>4. XorAll(s)[j] = Cardinality(P) % 2 /\ XorAll(u)[j] = Cardinality(Q) % 2
  BY DEF XorAll
<1>. QED  BY <1>3, <1>4

-----------------------------------------------------------------------------
(* Frames and answers *)

LEMMA FrameIs ==
    ASSUME NEW d \in Seq(Byte)
    PROVE  /\ Len(d) \in Nat /\ cal_lrc(d) \in Byte
           /\ Frame(d) \in Seq(Byte) /\ Len(Frame(d)) = Len(d) + 2
           /\ Frame(d)[1] = HEAD /\ Tail(Frame(d)) = Append(d, cal_lrc(d))
           /\ SubSeq(Frame(d), 2, Len(Frame(d)) - 1) = d
<1>1. d \in Seq(Byte)
  OBVIOUS
<1>2. Len(d) \in Nat
  BY <1>1
<1>3. cal_lrc(d) \in Byte /\ HEAD \in Byte
  BY <1>1, XorAllByte, ByteValues
<1>. DEFINE h == HEAD
            x == cal_lrc(d)
            F == <<h>> \o d \o <<x>>
<1>4. /\ F \in Seq(Byte) /\ Len(F) = Len(d) + 2 /\ F[1] = h
      /\ \A i \in 1 .. Len(d) : F[i + 1] = d[i]
      /\ F[Len(d) + 2] = x
  <2>. HIDE DEF h, x
  <2>. QED  BY <1>1, <1>2, <1>3 DEF h, x
<1>. HIDE DEF F, h, x
<1>5. Tail(F) = Append(d, x)
  <2>1. Tail(F) \in Seq(Byte) /\ Append(d, x) \in Seq(Byte)
    BY <1>1, <1>2, <1>3, <1>4 DEF x
  <2>2. Len(Tail(F)) = Len(d) + 1 /\ Len(Append(d, x)) = Len(d) + 1
    BY <1>1, <1>2, <1>3, <1>4 DEF x
  <2>3. \A i \in 1 .. Len(d) + 1 : Tail(F)[i] = Append(d, x)[i]
    BY <1>1, <1>2, <1>3, <1>4 DEF x
  <2>. QED  BY <2>1, <2>2, <2>3, SeqEqual
<1>6. SubSeq(F, 2, Len(F) - 1) = d
  <2>1. SubSeq(F, 2, Len(d) + 1) \in Seq(Byte) /\ Len(SubSeq(F, 2, Len(d) + 1)) = Len(d)
    BY <1>2, <1>4
  <2>2. \A i \in 1 .. Len(d) : SubSeq(F, 2, Len(d) + 1)[i] = d[i]
    BY <1>2, <1>4
  <2>3. Len(F) - 1 = Len(d) + 1
    BY <1>2, <1>4
  <2>. QED  BY <1>1, <2>1, <2>2, <2>3, SeqEqual
<1>7. Frame(d) = F
  BY DEF Frame, F, h, x
<1>. QED  BY <1>1, <1>2, <1>3, <1>4, <1>5, <1>6, <1>7 DEF h, x

\* The chip takes the bits of a frame for the command the driver was given.
LEMMA FrameAccepted ==
    ASSUME NEW d \in Seq(Byte), d # <<>>, NEW s \in Seq(Bit), Len(s) = Len(BitsOf(Frame(d))),
           \A j \in 1 .. Len(s) : s[j] = BitsOf(Frame(d))[j]
    PROVE  IsCommand(s) /\ SubSeq(BytesOf(s), 2, Len(BytesOf(s)) - 1) = d
<1>. DEFINE F == Frame(d)
            c == Len(d) + 2
<1>1. /\ F \in Seq(Byte) /\ Len(F) = c /\ c \in Nat /\ c >= 3
      /\ F[1] = HEAD /\ Tail(F) = Append(d, cal_lrc(d)) /\ SubSeq(F, 2, Len(F) - 1) = d
  <2>1. Len(d) \in Nat /\ Len(d) # 0
    OBVIOUS
  <2>2. c \in Nat /\ c >= 3
    BY <2>1
  <2>3. /\ F \in Seq(Byte) /\ Len(F) = c
        /\ F[1] = HEAD /\ Tail(F) = Append(d, cal_lrc(d)) /\ SubSeq(F, 2, Len(F) - 1) = d
    BY FrameIs, Zenon
  <2>. QED  BY <2>2, <2>3, Zenon
<1>. HIDE DEF F, c
<1>2. Len(s) = c * Bits
  BY <1>1, BitsOfIs DEF F
<1>3. BytesOf(s) \in Seq(Byte) /\ Len(BytesOf(s)) = c
  BY <1>1, <1>2, BytesOfIs
<1>4. \A i \in 1 .. c : BytesOf(s)[i] = F[i]
  <2>1. \A j \in 1 .. Len(s) : s[j] = BitsOf(F)[0 * Bits + j]
    BY Consts DEF F
  <2>0. 0 \in Nat /\ 0 + c <= Len(F)
    BY <1>1
  <2>2. \A i \in 1 .. c : BytesOf(s)[i] = F[0 + i]
    BY <1>1, <1>2, <2>0, <2>1, BytesReceived, ZenonT(60)
  <2>. QED  BY <1>1, <2>2
<1>5. BytesOf(s) = F
  BY <1>1, <1>3, <1>4, SeqEqual
<1>6. Len(s) % Bits = 0
  BY <1>1, <1>2, Blocks
<1>7. XorAll(Tail(F)) = Not(Zero)
  BY <1>1, FrameIs, ChecksumCloses
<1>. QED  BY <1>1, <1>3, <1>5, <1>6, <1>7 DEF IsCommand

\* A frame without bytes is no command.
LEMMA EmptyRefused ==
    ASSUME NEW d \in Seq(Byte), d = <<>>, NEW s \in Seq(Bit), Len(s) = Len(BitsOf(Frame(d)))
    PROVE  ~ IsCommand(s)
<1>1. Frame(d) \in Seq(Byte) /\ Len(Frame(d)) = 2
  <2>1. Len(d) + 2 = 2
    OBVIOUS
  <2>2. Frame(d) \in Seq(Byte) /\ Len(Frame(d)) = Len(d) + 2
    BY FrameIs, Zenon
  <2>. QED  BY <2>1, <2>2, Zenon
<1>2. Len(s) = 2 * Bits
  BY <1>1, BitsOfIs
<1>3. Len(BytesOf(s)) = 2
  BY <1>2, BytesOfIs
<1>4. ~ (Len(BytesOf(s)) >= 3)
  BY <1>3
<1>. QED  BY <1>4 DEF IsCommand

\* The ones it hears during a read are no command.
LEMMA OnesRefused ==
    ASSUME NEW s \in Seq(Bit), \A j \in 1 .. Len(s) : s[j] = 1
    PROVE  ~ IsCommand(s)
<1>. SUFFICES ASSUME IsCommand(s)  PROVE FALSE
  OBVIOUS
<1>. DEFINE c == Len(s) \div Bits
            b == BytesOf(s)
<1>1. Len(s) % Bits = 0 /\ Len(b) >= 3 /\ b[1] = HEAD
  BY DEF IsCommand
<1>2. c \in Nat /\ Len(s) = c * Bits /\ Len(s) \in Nat
  BY <1>1, Consts
<1>3. Len(b) = c /\ \A i \in 1 .. c : b[i] = [j \in 1 .. Bits |-> s[(i - 1) * Bits + j]]
  <2>. HIDE DEF c
  <2>. QED  BY <1>2, BytesOfIs
<1>. HIDE DEF c, b
<1>4. 1 \in 1 .. c /\ 1 \in 1 .. Bits
  BY <1>1, <1>2, <1>3, Consts
<1>5. b[1][1] = s[(1 - 1) * Bits + 1]
  <2>1. b[1] = [j \in 1 .. Bits |-> s[(1 - 1) * Bits + j]]
    BY <1>3, <1>4
  <2>. QED  BY <1>4, <2>1
<1>6. (1 - 1) * Bits + 1 = 1 /\ Len(s) >= 1
  BY <1>2, <1>4, Consts
<1>. QED  BY <1>1, <1>2, <1>5, <1>6, ByteValues

\* What is sent for an answer: one of its bytes may be disturbed, those of the length too.
LEMMA SentIs ==
    ASSUME NEW a \in Answers, NEW f \in Sent(a)
    PROVE  /\ a \in Seq(Byte) /\ Len(a) \in Nat /\ Len(a) >= 4
           /\ DataLen(a) = Len(a) - 4
           /\ f \in Seq(Byte) /\ Len(f) = Len(a) + 2
           /\ f[1] = HEAD
           /\ \/ f = <<HEAD>> \o a \o <<cal_lrc(a)>>
              \/ \E k \in 2 .. Len(f) :
                    f = [<<HEAD>> \o a \o <<cal_lrc(a)>> EXCEPT ![k] = Xor(@, HEAD)]
<1>1. a \in Seq(Byte) /\ Len(a) >= 4 /\ DataLen(a) = Len(a) - 4
  BY EsamConstants
<1>2. Len(a) \in Nat
  BY <1>1
<1>3. cal_lrc(a) \in Byte /\ HEAD \in Byte
  BY <1>1, XorAllByte, ByteValues
<1>. DEFINE h == HEAD
            x == cal_lrc(a)
            g == <<h>> \o a \o <<x>>
<1>4. g \in Seq(Byte) /\ Len(g) = Len(a) + 2 /\ g[1] = h
  <2>. HIDE DEF h, x
  <2>. QED  BY <1>1, <1>2, <1>3 DEF h, x
<1>5. f = g \/ \E k \in DOMAIN g \ {1} : f = [g EXCEPT ![k] = Xor(@, h)]
  <2>1. x = Not(XorAll(a))
    BY <1>1 DEF cal_lrc
  <2>. HIDE DEF x
  <2>. QED  BY <2>1 DEF Sent
<1>6. ASSUME f = g
      PROVE  /\ f \in Seq(Byte) /\ Len(f) = Len(a) + 2 /\ f[1] = HEAD
  <2>. HIDE DEF g
  <2>. QED  BY <1>4, <1>6 DEF h
<1>7. ASSUME NEW k \in DOMAIN g \ {1}, f = [g EXCEPT ![k] = Xor(@, h)]
      PROVE  /\ f \in Seq(Byte) /\ Len(f) = Len(a) + 2 /\ f[1] = HEAD
             /\ k \in 2 .. Len(f)
  <2>1. k \in 1 .. Len(a) + 2 /\ Xor(g[k], h) \in Byte
    <3>. HIDE DEF g
    <3>. QED  BY <1>2, <1>3, <1>4, ByteValues DEF h
  <2>. HIDE DEF g
  <2>. DEFINE v == Xor(g[k], h)
  <2>2. f = [g EXCEPT ![k] = v]
    BY <1>7
  <2>3. v \in Byte
    BY <2>1
  <2>. HIDE DEF v
  <2>4. Len(g) \in Nat /\ \A i \in 1 .. Len(a) + 2 : g[i] \in Byte
    BY <1>2, <1>4
  <2>5. DOMAIN g = 1 .. Len(a) + 2
    BY <1>4
  <2>6. f = [i \in 1 .. Len(a) + 2 |-> IF i = k THEN v ELSE g[i]]
    BY <2>2, <2>5
  <2>7. f \in Seq(Byte) /\ Len(f) = Len(a) + 2
    BY <2>6, <2>3, <2>4, <1>2
  <2>8. f[1] = g[1]
    BY <2>6, <1>1, <1>2
  <2>. QED  BY <2>1, <2>7, <2>8, <1>4, <1>2 DEF h
<1>. QED  BY <1>1, <1>2, <1>5, <1>6, <1>7

\* A disturbed byte has another second bit; the complement loses nothing.
LEMMA XorHead ==
    ASSUME NEW b \in Byte
    PROVE  2 \in 1 .. Bits /\ Xor(b, HEAD)[2] # b[2] /\ Xor(b, HEAD) # b
<1>1. 2 \in 1 .. Bits
  BY Consts
<1>2. HEAD[2] = 1 /\ b[2] \in {0, 1}
  BY <1>1 DEF HEAD, Byte
<1>3. Xor(b, HEAD)[2] = (b[2] + 1) % 2
  BY <1>1, <1>2 DEF Xor
<1>. QED  BY <1>1, <1>2, <1>3

LEMMA NotInjective ==
    ASSUME NEW a \in Byte, NEW b \in Byte, Not(a) = Not(b)
    PROVE  a = b
<1>1. \A i \in 1 .. Bits : a[i] = b[i]
  <2>. SUFFICES ASSUME NEW i \in 1 .. Bits  PROVE a[i] = b[i]
    OBVIOUS
  <2>1. Not(a)[i] = 1 - a[i] /\ Not(b)[i] = 1 - b[i]
    BY DEF Not
  <2>2. a[i] \in {0, 1} /\ b[i] \in {0, 1}
    BY DEF Byte
  <2>. QED  BY <2>1, <2>2
<1>2. a = [i \in 1 .. Bits |-> a[i]] /\ b = [i \in 1 .. Bits |-> b[i]]
  BY DEF Byte
<1>. QED  BY <1>1, <1>2

\* Data that agrees with its checksum is the answer.
LEMMA DisturbedRefused ==
    ASSUME NEW a \in Answers, NEW f \in Sent(a), NEW u \in Seq(Byte), Len(u) = Len(a),
           \A i \in 1 .. Len(a) : u[i] = f[i + 1],
           f[Len(a) + 2] = cal_lrc(u)
    PROVE  u = a
<1>. DEFINE h == HEAD
            x == cal_lrc(a)
            g == <<h>> \o a \o <<x>>
            m == Len(a)
<1>1. a \in Seq(Byte) /\ m \in Nat /\ m >= 4 /\ Len(f) = m + 2
  BY SentIs
<1>2. x \in Byte /\ h \in Byte /\ XorAll(a) \in Byte /\ XorAll(u) \in Byte
  BY <1>1, XorAllByte, ByteValues
<1>3. f = g \/ \E k \in 2 .. Len(f) : f = [g EXCEPT ![k] = Xor(@, h)]
  BY SentIs, Zenon
<1>4. /\ g \in Seq(Byte) /\ Len(g) = m + 2 /\ DOMAIN g = 1 .. m + 2
      /\ g[m + 2] = x /\ \A i \in 1 .. m : g[i + 1] = a[i]
  <2>. HIDE DEF h, x
  <2>. QED  BY <1>1, <1>2
<1>. HIDE DEF g, h, x, m
<1>5. CASE f = g
  <2>1. \A i \in 1 .. m : u[i] = a[i]
    BY <1>4, <1>5 DEF m
  <2>. QED  BY <1>1, <2>1, SeqEqual DEF m
<1>6. ASSUME NEW k \in 2 .. Len(f), f = [g EXCEPT ![k] = Xor(@, h)]
      PROVE  u = a
  <2>1. /\ f[k] = Xor(g[k], h)
        /\ \A i \in 1 .. m + 2 : i # k => f[i] = g[i]
    BY <1>1, <1>4, <1>6
  <2>2. CASE k = m + 2
    <3>1. ASSUME NEW i \in 1 .. m  PROVE u[i] = a[i]
      <4>1. i + 1 # k /\ i + 1 \in 1 .. m + 2
        BY <1>1, <2>2
      <4>. QED  BY <4>1, <2>1, <1>4 DEF m
    <3>2. u = a
      BY <1>1, <3>1, SeqEqual DEF m
    <3>. QED  BY <3>2
  <2>3. CASE k # m + 2
    <3>1. k - 1 \in 1 .. m /\ f[m + 2] = x
      BY <1>1, <1>4, <2>1, <2>3
    <3>2. u[k - 1] = Xor(a[k - 1], h)
      <4>1. u[k - 1] = f[(k - 1) + 1] /\ g[(k - 1) + 1] = a[k - 1]
        BY <3>1, <1>4 DEF m
      <4>2. (k - 1) + 1 = k
        BY <1>1
      <4>. QED  BY <4>1, <4>2, <2>1
    <3>3. a[k - 1] \in Byte
      BY <1>1, <3>1 DEF m
    <3>4. 2 \in 1 .. Bits /\ u[k - 1][2] # a[k - 1][2]
      BY <3>2, <3>3, XorHead DEF h
    <3>5. ASSUME NEW i \in 1 .. m, i # k - 1  PROVE u[i] = a[i]
      <4>1. i + 1 # k /\ i + 1 \in 1 .. m + 2
        BY <1>1, <3>5
      <4>. QED  BY <4>1, <2>1, <1>4 DEF m
    <3>6. XorAll(a) # XorAll(u)
      <4>1. k - 1 \in 1 .. Len(a) /\ \A i \in 1 .. Len(a) : i # k - 1 => u[i] = a[i]
        BY <3>1, <3>5 DEF m
      <4>. DEFINE q == k - 1
      <4>. HIDE DEF q
      <4>2. q \in 1 .. Len(a) /\ u[q][2] # a[q][2] /\ \A i \in 1 .. Len(a) : i # q => u[i] = a[i]
        BY <3>4, <4>1 DEF q
      <4>. QED  BY <4>2, <3>4, <1>1, ChecksumTells
    <3>7. Not(XorAll(u)) = Not(XorAll(a))
      <4>1. a # <<>> /\ u # <<>>
        BY <1>1 DEF m
      <4>. QED  BY <3>1, <4>1 DEF cal_lrc, x, m
    <3>. QED  BY <1>2, <3>6, <3>7, NotInjective
  <2>. QED  BY <2>2, <2>3
<1>. QED  BY <1>3, <1>5, <1>6

-----------------------------------------------------------------------------
(* Lists of pin settings, entry by entry *)

LEMMA WriteStartIs ==
    /\ WriteStart \in Seq(Ops) /\ Len(WriteStart) = 4
    /\ WriteStart[1] = <<"mosi", 0>> /\ WriteStart[2] = <<"clk", 0>>
    /\ WriteStart[3] = <<"clk", 1>> /\ WriteStart[4] = <<"cs", 1>>
BY DEF WriteStart, Pin, Ops, Bit

LEMMA PinIs ==
    ASSUME NEW p \in {"clk", "cs", "mosi"}, NEW v \in Bit
    PROVE  Pin(p, v) \in Seq(Ops) /\ Len(Pin(p, v)) = 1 /\ Pin(p, v)[1] = <<p, v>>
BY DEF Pin, Ops

LEMMA Thirds ==
    ASSUME NEW m \in Nat
    PROVE  /\ (3 * m + 1 - 1) \div 3 = m /\ (3 * m + 1 - 1) % 3 = 0
           /\ (3 * m + 2 - 1) \div 3 = m /\ (3 * m + 2 - 1) % 3 = 1
           /\ (3 * m + 3 - 1) \div 3 = m /\ (3 * m + 3 - 1) % 3 = 2
OBVIOUS

LEMMA ThirdOf ==
    ASSUME NEW w \in Nat, NEW k \in 1 .. 3 * w
    PROVE  \E m \in Nat : m < w /\ k \in {3 * m + 1, 3 * m + 2, 3 * m + 3}
<1>. DEFINE m == (k - 1) \div 3
<1>1. m \in Nat /\ m < w /\ k \in {3 * m + 1, 3 * m + 2, 3 * m + 3}
  OBVIOUS
<1>. QED  BY <1>1

LEMMA ReceiveIs ==
    ASSUME NEW c \in Nat
    PROVE  /\ ReceiveBytes(c) \in Seq(Ops) /\ Len(ReceiveBytes(c)) = 3 * (c * Bits)
           /\ \A m \in Nat : m < c * Bits =>
                /\ ReceiveBytes(c)[3 * m + 1] = <<"clk", 0>>
                /\ ReceiveBytes(c)[3 * m + 2] = <<"sample", 0>>
                /\ ReceiveBytes(c)[3 * m + 3] = <<"clk", 1>>
<1>. DEFINE w == c * Bits
            e(k) == BitIn[((k - 1) % 3) + 1]
            l == [k \in 1 .. 3 * w |-> e(k)]
<1>1. w \in Nat
  BY Blocks
<1>2. BitIn[1] = <<"clk", 0>> /\ BitIn[2] = <<"sample", 0>> /\ BitIn[3] = <<"clk", 1>>
  BY DEF BitIn, Pin, Sample
<1>. HIDE DEF w
<1>3. ASSUME NEW m \in Nat
      PROVE  /\ e(3 * m + 1) = <<"clk", 0>> /\ e(3 * m + 2) = <<"sample", 0>>
             /\ e(3 * m + 3) = <<"clk", 1>>
  BY <1>2
<1>. HIDE DEF e
<1>4. \A k \in 1 .. 3 * w : e(k) \in Ops
  <2>. SUFFICES ASSUME NEW k \in 1 .. 3 * w  PROVE e(k) \in Ops
    OBVIOUS
  <2>1. PICK m \in Nat : k \in {3 * m + 1, 3 * m + 2, 3 * m + 3}
    BY <1>1, ThirdOf
  <2>. QED  BY <2>1, <1>3 DEF Ops, Bit
<1>5. l \in Seq(Ops) /\ Len(l) = 3 * w
  BY <1>1, <1>4
<1>6. ASSUME NEW m \in Nat, m < w
      PROVE  l[3 * m + 1] = <<"clk", 0>> /\ l[3 * m + 2] = <<"sample", 0>> /\ l[3 * m + 3] = <<"clk", 1>>
  <2>1. {3 * m + 1, 3 * m + 2, 3 * m + 3} \subseteq 1 .. 3 * w
    BY <1>1, <1>6
  <2>. QED  BY <2>1, <1>3
<1>7. ReceiveBytes(c) = l
  BY DEF ReceiveBytes, w, e
<1>. HIDE DEF l
<1>. QED  BY <1>5, <1>6, <1>7 DEF w

LEMMA BitsOutIs ==
    ASSUME NEW s \in Seq(Bit)
    PROVE  /\ BitsOut(s) \in Seq(Ops) /\ Len(BitsOut(s)) = 3 * Len(s)
           /\ \A m \in Nat : m < Len(s) =>
                /\ BitsOut(s)[3 * m + 1] = <<"clk", 0>>
                /\ BitsOut(s)[3 * m + 2] = <<"mosi", s[m + 1]>>
                /\ BitsOut(s)[3 * m + 3] = <<"clk", 1>>
<1>. DEFINE w == Len(s)
            e(k) == BitOut(s[((k - 1) \div 3) + 1])[((k - 1) % 3) + 1]
            l == [k \in 1 .. 3 * w |-> e(k)]
<1>1. w \in Nat
  OBVIOUS
<1>2. ASSUME NEW b \in Bit
      PROVE BitOut(b)[1] = <<"clk", 0>> /\ BitOut(b)[2] = <<"mosi", b>> /\ BitOut(b)[3] = <<"clk", 1>>
  BY DEF BitOut, Pin
<1>. HIDE DEF w
<1>3. ASSUME NEW m \in Nat, m < w
      PROVE  /\ e(3 * m + 1) = <<"clk", 0>> /\ e(3 * m + 2) = <<"mosi", s[m + 1]>>
             /\ e(3 * m + 3) = <<"clk", 1>> /\ s[m + 1] \in Bit
  <2>1. s[m + 1] \in Bit
    BY <1>1, <1>3 DEF w
  <2>2. /\ e(3 * m + 1) = BitOut(s[m + 1])[1] /\ e(3 * m + 2) = BitOut(s[m + 1])[2]
        /\ e(3 * m + 3) = BitOut(s[m + 1])[3]
    BY Thirds
  <2>. QED  BY <2>1, <2>2, <1>2
<1>. HIDE DEF e
<1>4. \A k \in 1 .. 3 * w : e(k) \in Ops
  <2>. SUFFICES ASSUME NEW k \in 1 .. 3 * w  PROVE e(k) \in Ops
    OBVIOUS
  <2>1. PICK m \in Nat : m < w /\ k \in {3 * m + 1, 3 * m + 2, 3 * m + 3}
    BY <1>1, ThirdOf
  <2>2. e(k) \in {<<"clk", 0>>, <<"mosi", s[m + 1]>>, <<"clk", 1>>} /\ s[m + 1] \in Bit
    BY <2>1, <1>3
  <2>3. \A b \in Bit : {<<"clk", 0>>, <<"mosi", b>>, <<"clk", 1>>} \subseteq Ops
    BY DEF Ops, Bit
  <2>. QED  BY <2>2, <2>3, Zenon
<1>5. l \in Seq(Ops) /\ Len(l) = 3 * w
  BY <1>1, <1>4
<1>6. ASSUME NEW m \in Nat, m < w
      PROVE  l[3 * m + 1] = <<"clk", 0>> /\ l[3 * m + 2] = <<"mosi", s[m + 1]>> /\ l[3 * m + 3] = <<"clk", 1>>
  <2>1. {3 * m + 1, 3 * m + 2, 3 * m + 3} \subseteq 1 .. 3 * w
    BY <1>1, <1>6
  <2>. QED  BY <2>1, <1>3, <1>6
<1>7. BitsOut(s) = l
  BY DEF BitsOut, w, e
<1>. HIDE DEF l
<1>. QED  BY <1>5, <1>6, <1>7 DEF w

LEMMA Joined ==
    ASSUME NEW a \in Seq(Ops), NEW b \in Seq(Ops)
    PROVE  /\ a \o b \in Seq(Ops) /\ Len(a \o b) = Len(a) + Len(b)
           /\ \A k \in 1 .. Len(a) : (a \o b)[k] = a[k]
           /\ \A k \in 1 .. Len(b) : (a \o b)[Len(a) + k] = b[k]
OBVIOUS

LEMMA WriteListIs ==
    ASSUME NEW d \in Seq(Byte), NEW fb, fb = BitsOf(Frame(d)),
           NEW l, l = WriteStart \o WriteFrame(d)
    PROVE  /\ fb \in Seq(Bit) /\ Len(fb) = (Len(d) + 2) * Bits /\ Len(fb) \in Nat /\ Len(fb) > 0
           /\ l \in Seq(Ops) /\ Len(l) = 6 + 3 * Len(fb)
           /\ l[1] = <<"mosi", 0>> /\ l[2] = <<"clk", 0>> /\ l[3] = <<"clk", 1>>
           /\ l[4] = <<"cs", 1>> /\ l[5] = <<"cs", 0>> /\ l[6 + 3 * Len(fb)] = <<"cs", 1>>
           /\ \A m \in Nat : m < Len(fb) =>
                /\ l[6 + 3 * m] = <<"clk", 0>>
                /\ l[7 + 3 * m] = <<"mosi", fb[m + 1]>>
                /\ l[8 + 3 * m] = <<"clk", 1>>
<1>1. Frame(d) \in Seq(Byte) /\ Len(Frame(d)) = Len(d) + 2 /\ Len(d) \in Nat
  BY FrameIs
<1>2. fb \in Seq(Bit) /\ Len(fb) = (Len(d) + 2) * Bits
  BY <1>1, BitsOfIs
<1>3. Len(fb) \in Nat
  BY <1>2
<1>4. Len(fb) > 0
  BY <1>1, <1>2, Consts
<1>. DEFINE a == WriteStart
            b == BitsOut(fb)
            s == Pin("cs", 0)
            u == Pin("cs", 1)
            w == 3 * Len(fb)
            y == s \o b
            z == y \o u
<1>5. a \in Seq(Ops) /\ Len(a) = 4
  BY WriteStartIs
<1>6. b \in Seq(Ops) /\ Len(b) = w /\ w \in Nat
  BY <1>2, <1>3, BitsOutIs
<1>7. s \in Seq(Ops) /\ Len(s) = 1 /\ u \in Seq(Ops) /\ Len(u) = 1
  BY PinIs DEF Bit
<1>8. s[1] = <<"cs", 0>> /\ u[1] = <<"cs", 1>>
  BY PinIs DEF Bit
<1>9. l = a \o z
  BY DEF WriteFrame
<1>. HIDE DEF a, b, s, u, w, y, z
<1>10. /\ y \in Seq(Ops) /\ Len(y) = 1 + w
       /\ \A k \in 1 .. 1 : y[k] = s[k]
       /\ \A k \in 1 .. w : y[1 + k] = b[k]
  <2>1. s \in Seq(Ops) /\ b \in Seq(Ops) /\ Len(s) = 1 /\ Len(b) = w
    BY <1>6, <1>7
  <2>2. /\ y \in Seq(Ops) /\ Len(y) = Len(s) + Len(b)
        /\ \A k \in 1 .. Len(s) : y[k] = s[k]
        /\ \A k \in 1 .. Len(b) : y[Len(s) + k] = b[k]
    BY <2>1, Joined, Zenon DEF y
  <2>. QED  BY <2>1, <2>2, Zenon
<1>11. /\ z \in Seq(Ops) /\ Len(z) = (1 + w) + 1
       /\ \A k \in 1 .. 1 + w : z[k] = y[k]
       /\ \A k \in 1 .. 1 : z[(1 + w) + k] = u[k]
  <2>1. y \in Seq(Ops) /\ u \in Seq(Ops) /\ Len(y) = 1 + w /\ Len(u) = 1
    BY <1>7, <1>10
  <2>2. /\ z \in Seq(Ops) /\ Len(z) = Len(y) + Len(u)
        /\ \A k \in 1 .. Len(y) : z[k] = y[k]
        /\ \A k \in 1 .. Len(u) : z[Len(y) + k] = u[k]
    BY <2>1, Joined, Zenon DEF z
  <2>. QED  BY <2>1, <2>2, Zenon
<1>12. y[1] = s[1] /\ z[(1 + w) + 1] = u[1]
  <2>1. 1 \in 1 .. 1
    OBVIOUS
  <2>. QED  BY <1>10, <1>11, <2>1, Zenon
<1>14. /\ l \in Seq(Ops) /\ Len(l) = 4 + ((1 + w) + 1)
       /\ \A k \in 1 .. 4 : l[k] = a[k]
       /\ \A k \in 1 .. (1 + w) + 1 : l[4 + k] = z[k]
  <2>1. a \in Seq(Ops) /\ z \in Seq(Ops) /\ Len(a) = 4 /\ Len(z) = (1 + w) + 1
    BY <1>5, <1>11
  <2>2. /\ l \in Seq(Ops) /\ Len(l) = Len(a) + Len(z)
        /\ \A k \in 1 .. Len(a) : l[k] = a[k]
        /\ \A k \in 1 .. Len(z) : l[Len(a) + k] = z[k]
    <3>. DEFINE v == a \o z
    <3>1. /\ v \in Seq(Ops) /\ Len(v) = Len(a) + Len(z)
          /\ \A k \in 1 .. Len(a) : v[k] = a[k]
          /\ \A k \in 1 .. Len(z) : v[Len(a) + k] = z[k]
      BY <2>1, Joined, Zenon
    <3>. HIDE DEF v
    <3>2. l = v
      BY <1>9 DEF v
    <3>. QED  BY <3>1, <3>2, Zenon
  <2>. QED  BY <2>1, <2>2, Zenon
<1>17. l[1] = <<"mosi", 0>> /\ l[2] = <<"clk", 0>> /\ l[3] = <<"clk", 1>> /\ l[4] = <<"cs", 1>>
  <2>1. 1 \in 1 .. 4 /\ 2 \in 1 .. 4 /\ 3 \in 1 .. 4 /\ 4 \in 1 .. 4
    OBVIOUS
  <2>2. l[1] = a[1] /\ l[2] = a[2] /\ l[3] = a[3] /\ l[4] = a[4]
    BY <1>14, <2>1, Zenon
  <2>. QED  BY <2>2, WriteStartIs DEF a
<1>18. l[5] = <<"cs", 0>>
  <2>1. 1 \in 1 .. 1 + w /\ 1 \in 1 .. (1 + w) + 1 /\ 4 + 1 = 5
    BY <1>6
  <2>2. l[4 + 1] = z[1] /\ z[1] = y[1]
    BY <1>11, <1>14, <2>1, Zenon
  <2>. QED  BY <1>8, <1>12, <2>1, <2>2
<1>19. l[6 + w] = <<"cs", 1>>
  <2>1. (1 + w) + 1 \in 1 .. (1 + w) + 1 /\ 4 + ((1 + w) + 1) = 6 + w
    BY <1>6
  <2>2. l[4 + ((1 + w) + 1)] = z[(1 + w) + 1]
    BY <1>14, <2>1, Zenon
  <2>. QED  BY <1>8, <1>12, <2>1, <2>2
<1>20. ASSUME NEW k \in 1 .. w  PROVE l[5 + k] = b[k]
  <2>1. 1 + k \in 1 .. 1 + w /\ 1 + k \in 1 .. (1 + w) + 1 /\ 4 + (1 + k) = 5 + k
    BY <1>6
  <2>2. l[4 + (1 + k)] = z[1 + k] /\ z[1 + k] = y[1 + k] /\ y[1 + k] = b[k]
    BY <1>10, <1>11, <1>14, <2>1, Zenon
  <2>. QED  BY <2>1, <2>2
<1>21. Len(l) = 6 + w
  BY <1>6, <1>14
<1>22. ASSUME NEW m \in Nat, m < Len(fb)
       PROVE  /\ l[6 + 3 * m] = <<"clk", 0>> /\ l[7 + 3 * m] = <<"mosi", fb[m + 1]>>
              /\ l[8 + 3 * m] = <<"clk", 1>>
  <2>1. b[3 * m + 1] = <<"clk", 0>> /\ b[3 * m + 2] = <<"mosi", fb[m + 1]>> /\ b[3 * m + 3] = <<"clk", 1>>
    BY <1>2, <1>22, BitsOutIs DEF b
  <2>2. /\ {3 * m + 1, 3 * m + 2, 3 * m + 3} \subseteq 1 .. w
        /\ 5 + (3 * m + 1) = 6 + 3 * m /\ 5 + (3 * m + 2) = 7 + 3 * m /\ 5 + (3 * m + 3) = 8 + 3 * m
    BY <1>3, <1>22 DEF w
  <2>3. l[5 + (3 * m + 1)] = b[3 * m + 1] /\ l[5 + (3 * m + 2)] = b[3 * m + 2] /\ l[5 + (3 * m + 3)] = b[3 * m + 3]
    BY <1>20, <2>2
  <2>. QED  BY <2>1, <2>2, <2>3
<1>. QED  BY <1>2, <1>3, <1>4, <1>14, <1>17, <1>18, <1>19, <1>21, <1>22 DEF w

LEMMA PollListIs ==
    /\ PollList \in Seq(Ops) /\ Len(PollList) = 1 + 3 * Bits /\ PollList[1] = <<"cs", 0>>
    /\ \A m \in Nat : m < Bits =>
            /\ PollList[1 + (3 * m + 1)] = <<"clk", 0>>
            /\ PollList[1 + (3 * m + 2)] = <<"sample", 0>>
            /\ PollList[1 + (3 * m + 3)] = <<"clk", 1>>
<1>. DEFINE s == Pin("cs", 0)
            b == ReceiveBytes(1)
<1>1. s \in Seq(Ops) /\ Len(s) = 1 /\ s[1] = <<"cs", 0>>
  BY PinIs DEF Bit
<1>2. 1 * Bits = Bits /\ Bits \in Nat
  BY Consts
<1>3. /\ b \in Seq(Ops) /\ Len(b) = 3 * Bits
      /\ \A m \in Nat : m < Bits => /\ b[3 * m + 1] = <<"clk", 0>> /\ b[3 * m + 2] = <<"sample", 0>>
                                    /\ b[3 * m + 3] = <<"clk", 1>>
  BY <1>2, ReceiveIs
<1>4. PollList = s \o b
  BY DEF PollList
<1>. HIDE DEF s, b
<1>5. /\ PollList \in Seq(Ops) /\ Len(PollList) = 1 + 3 * Bits /\ PollList[1] = <<"cs", 0>>
      /\ \A k \in 1 .. 3 * Bits : PollList[1 + k] = b[k]
  <2>1. b \in Seq(Ops) /\ Len(b) = 3 * Bits /\ 3 * Bits \in Nat
    BY <1>2, <1>3
  <2>. HIDE DEF b
  <2>2. 1 \in 1 .. 1
    OBVIOUS
  <2>3. /\ PollList \in Seq(Ops) /\ Len(PollList) = Len(s) + Len(b)
        /\ \A k \in 1 .. Len(s) : PollList[k] = s[k]
        /\ \A k \in 1 .. Len(b) : PollList[Len(s) + k] = b[k]
    BY <1>1, <1>4, <2>1, Joined, Zenon
  <2>. QED  BY <1>1, <2>1, <2>2, <2>3, Zenon
<1>6. \A m \in Nat : m < Bits => {3 * m + 1, 3 * m + 2, 3 * m + 3} \subseteq 1 .. 3 * Bits
  BY <1>2
<1>. QED  BY <1>3, <1>5, <1>6

LEMMA DataListIs ==
    ASSUME NEW c \in Nat, NEW l, l = ReceiveBytes(c) \o Pin("cs", 1)
    PROVE  /\ l \in Seq(Ops) /\ Len(l) = 3 * (c * Bits) + 1 /\ l[3 * (c * Bits) + 1] = <<"cs", 1>>
           /\ c * Bits \in Nat
           /\ \A m \in Nat : m < c * Bits =>
                /\ l[3 * m + 1] = <<"clk", 0>>
                /\ l[3 * m + 2] = <<"sample", 0>>
                /\ l[3 * m + 3] = <<"clk", 1>>
<1>. DEFINE s == Pin("cs", 1)
            b == ReceiveBytes(c)
            w == c * Bits
<1>1. s \in Seq(Ops) /\ Len(s) = 1 /\ s[1] = <<"cs", 1>>
  BY PinIs DEF Bit
<1>2. w \in Nat
  BY Blocks
<1>3. /\ b \in Seq(Ops) /\ Len(b) = 3 * w
      /\ \A m \in Nat : m < w => /\ b[3 * m + 1] = <<"clk", 0>> /\ b[3 * m + 2] = <<"sample", 0>>
                                 /\ b[3 * m + 3] = <<"clk", 1>>
  BY ReceiveIs
<1>. HIDE DEF s, b, w
<1>5. /\ l \in Seq(Ops) /\ Len(l) = 3 * w + 1 /\ l[3 * w + 1] = <<"cs", 1>>
      /\ \A k \in 1 .. 3 * w : l[k] = b[k]
  BY <1>1, <1>2, <1>3, SMTT(60) DEF s, b
<1>6. \A m \in Nat : m < w => {3 * m + 1, 3 * m + 2, 3 * m + 3} \subseteq 1 .. 3 * w
  BY <1>2
<1>7. \A m \in Nat : m < w => /\ l[3 * m + 1] = <<"clk", 0>> /\ l[3 * m + 2] = <<"sample", 0>>
                              /\ l[3 * m + 3] = <<"clk", 1>>
  BY <1>3, <1>5, <1>6
<1>. QED  BY <1>2, <1>5, <1>7 DEF w

-----------------------------------------------------------------------------
(* What is left of a list *)

LEMMA RestNew ==
    ASSUME NEW l \in Seq(Ops), prog' = l
    PROVE  Rest(l)' /\ Done(l)' = 0 /\ prog' \in Seq(Ops)
<1>1. Len(l) \in Nat
  OBVIOUS
<1>. QED  BY <1>1 DEF Rest, Done

LEMMA RestNow ==
    ASSUME NEW l \in Seq(Ops), prog \in Seq(Ops), Rest(l)
    PROVE  /\ Len(prog) \in Nat /\ Len(l) \in Nat
           /\ Done(l) \in 0 .. Len(l) /\ (prog = <<>> <=> Done(l) = Len(l))
           /\ prog # <<>> => Op = l[Done(l) + 1] /\ Done(l) < Len(l)
<1>1. Len(prog) \in Nat /\ Len(l) \in Nat /\ (prog = <<>> <=> Len(prog) = 0)
  OBVIOUS
<1>2. Len(prog) <= Len(l)
  BY DEF Rest
<1>3. Done(l) \in 0 .. Len(l) /\ (prog = <<>> <=> Done(l) = Len(l))
  BY <1>1, <1>2 DEF Done
<1>4. ASSUME prog # <<>>  PROVE Op = l[Done(l) + 1] /\ Done(l) < Len(l)
  <2>1. 1 \in 1 .. Len(prog) /\ Op = prog[1]
    BY <1>1, <1>4 DEF Op
  <2>2. prog[1] = l[Len(l) - Len(prog) + 1]
    BY <2>1 DEF Rest
  <2>. QED  BY <1>1, <2>1, <2>2 DEF Done
<1>. QED  BY <1>1, <1>3, <1>4

LEMMA RestStep ==
    ASSUME NEW l \in Seq(Ops), prog \in Seq(Ops), Rest(l), prog # <<>>, prog' = Tail(prog)
    PROVE  /\ Rest(l)' /\ Done(l)' = Done(l) + 1 /\ prog' \in Seq(Ops)
           /\ (prog' = <<>> <=> Done(l) + 1 = Len(l))
<1>1. Len(prog) \in Nat /\ Len(l) \in Nat /\ Len(prog) > 0
  OBVIOUS
<1>2. prog' \in Seq(Ops) /\ Len(prog') = Len(prog) - 1
  OBVIOUS
<1>3. \A k \in 1 .. Len(prog) - 1 : prog'[k] = prog[k + 1]
  OBVIOUS
<1>4. ASSUME NEW k \in 1 .. Len(prog')  PROVE prog'[k] = l[Len(l) - Len(prog') + k]
  <2>1. prog'[k] = prog[k + 1] /\ k + 1 \in 1 .. Len(prog)
    BY <1>1, <1>2, <1>3
  <2>2. prog[k + 1] = l[Len(l) - Len(prog) + (k + 1)]
    BY <2>1 DEF Rest
  <2>3. Len(l) - Len(prog) + (k + 1) = Len(l) - Len(prog') + k
    BY <1>1, <1>2
  <2>. QED  BY <2>1, <2>2, <2>3
<1>5. Len(prog) <= Len(l)
  BY DEF Rest
<1>6. Rest(l)'
  <2>1. Len(prog') <= Len(l)
    BY <1>1, <1>2, <1>5
  <2>. QED  BY <1>4, <2>1 DEF Rest
<1>7. Done(l)' = Done(l) + 1
  BY <1>1, <1>2 DEF Done
<1>8. prog' = <<>> <=> Len(prog') = 0
  <2>1. \A x \in Seq(Ops) : x = <<>> <=> Len(x) = 0
    OBVIOUS
  <2>. QED  BY <1>2, <2>1, Zenon
<1>9. Done(l) + 1 = Len(l) <=> Len(prog') = 0
  <2>1. \A x, y \in Nat : y - x + 1 = y <=> x - 1 = 0
    OBVIOUS
  <2>. QED  BY <1>1, <1>2, <2>1, Zenon DEF Done
<1>. QED  BY <1>2, <1>6, <1>7, <1>8, <1>9

-----------------------------------------------------------------------------
(* One setting: the register and the chip *)

\* A setting changes its pin and, of the others, at most the infrared pin.
LEMMA WrittenIs ==
    ASSUME HeldCopy, t # <<>>, port \in Lines, prog \in Seq(Ops)
    PROVE  /\ Op[1] \in {"clk", "cs", "mosi"} /\ Op[2] \in Bit /\ Op = <<Op[1], Op[2]>>
           /\ Written \in Lines /\ Written.ir = t[1].ir
           /\ Written.clk  = IF Op[1] = "clk"  THEN Op[2] ELSE port.clk
           /\ Written.cs   = IF Op[1] = "cs"   THEN Op[2] ELSE port.cs
           /\ Written.mosi = IF Op[1] = "mosi" THEN Op[2] ELSE port.mosi
<1>1. prog # <<>> /\ Op[1] # "sample"
  BY DEF HeldCopy
<1>2. Op \in Ops
  BY <1>1 DEF Op
<1>3. Op[1] \in {"clk", "cs", "mosi"} /\ Op[2] \in Bit /\ Op = <<Op[1], Op[2]>>
  BY <1>1, <1>2 DEF Ops
<1>4. t[1] \in Lines
  BY DEF HeldCopy
<1>5. t[1].clk = port.clk /\ t[1].cs = port.cs /\ t[1].mosi = port.mosi
  BY DEF HeldCopy
<1>. QED  BY <1>3, <1>4, <1>5 DEF Written, Lines

\* The chip takes no notice of a setting but for edges while it is selected.
LEMMA ChipIdle ==
    ASSUME NEW p \in Lines, NEW q \in Lines, ChipSees(p, q),
           ~ (p.cs = 0 /\ q.cs = 1), q.cs = 1 \/ p.clk = q.clk
    PROVE  UNCHANGED chip
BY DEF ChipSees, Selected, Lines, Bit

LEMMA ChipFall ==
    ASSUME NEW p \in Lines, NEW q \in Lines, ChipSees(p, q),
           q.cs = 0, p.clk = 1, q.clk = 0
    PROVE  /\ \E o \in IF out # <<>> THEN {out}
                      ELSE IF q.mosi = 0 THEN {BitsOf(<<Zero>>)}
                      ELSE {BitsOf(<<Zero>>), answer} \ {<<>>} :
                   miso' = Head(o) /\ out' = Tail(o)
           /\ UNCHANGED <<heard, answer, cmd, due>>
BY DEF ChipSees, Selected, Lines, Bit

LEMMA ChipRise ==
    ASSUME NEW p \in Lines, NEW q \in Lines, ChipSees(p, q),
           q.cs = 0, p.clk = 0, q.clk = 1
    PROVE  /\ heard' = IF Len(heard) < Bits * BufSize THEN Append(heard, q.mosi) ELSE heard
           /\ UNCHANGED <<miso, out, answer, cmd, due>>
BY DEF ChipSees, Selected, Lines, Bit

LEMMA ChipCommand ==
    ASSUME NEW p \in Lines, NEW q \in Lines, ChipSees(p, q),
           p.cs = 0, q.cs = 1, IsCommand(heard)
    PROVE  /\ \E a \in Answers : \E f \in Sent(a) : due' = a /\ answer' = BitsOf(f)
           /\ cmd' = SubSeq(BytesOf(heard), 2, Len(BytesOf(heard)) - 1)
           /\ heard' = <<>> /\ out' = <<>>
BY DEF ChipSees, Selected, Lines, Bit

LEMMA ChipDeselect ==
    ASSUME NEW p \in Lines, NEW q \in Lines, ChipSees(p, q),
           p.cs = 0, q.cs = 1, ~ IsCommand(heard)
    PROVE  /\ answer' \in {answer, <<>>}
           /\ heard' = <<>> /\ out' = <<>> /\ UNCHANGED <<miso, cmd, due>>
BY DEF ChipSees, Selected, Lines, Bit

-----------------------------------------------------------------------------
(* Bits on their way from the chip to the driver *)

\* What the chip sends is bits, and starts with a whole byte: all zeros, or 0x55
\* and the rest of what it sends for an answer.
LEMMA SourceBits ==
    ASSUME AnswerKnows, NEW src \in {BitsOf(<<Zero>>), answer} \ {<<>>}
    PROVE  /\ src \in Seq(Bit) /\ src # <<>> /\ Len(src) >= Bits
           /\ \/ src = BitsOf(<<Zero>>) /\ Len(src) = Bits
              \/ src = answer /\ due \in Answers /\ \E f \in Sent(due) : answer = BitsOf(f)
<1>1. CASE src = BitsOf(<<Zero>>)
  <2>1. <<Zero>> \in Seq(Byte) /\ Len(<<Zero>>) = 1
    BY ByteValues
  <2>2. src \in Seq(Bit) /\ Len(src) = 1 * Bits
    BY <1>1, <2>1, BitsOfIs
  <2>3. 1 * Bits = Bits
    BY Consts
  <2>. QED  BY <1>1, <2>2, <2>3, Consts
<1>2. CASE src = answer
  <2>1. due \in Answers /\ \E f \in Sent(due) : answer = BitsOf(f)
    BY <1>2 DEF AnswerKnows
  <2>2. PICK f \in Sent(due) : answer = BitsOf(f)
    BY <2>1
  <2>3. f \in Seq(Byte) /\ Len(f) \in Nat /\ Len(f) >= 1
    <3>1. Len(due) \in Nat /\ f \in Seq(Byte) /\ Len(f) = Len(due) + 2
      BY <2>1, SentIs, Zenon
    <3>. QED  BY <3>1
  <2>4. src \in Seq(Bit) /\ Len(src) = Len(f) * Bits
    BY <1>2, <2>2, <2>3, BitsOfIs
  <2>5. 1 * Bits <= Len(f) * Bits /\ 1 * Bits = Bits
    BY <2>3, Consts, Monotone
  <2>. QED  BY <1>2, <2>1, <2>4, <2>5
<1>. QED  BY <1>1, <1>2

LEMMA StreamSplit ==
    ASSUME NEW src, NEW base \in Nat, NEW p \in Nat, Stream(src, base, p)
    PROVE  \E m \in Nat, r \in 0 .. 2 : p = 3 * m + r /\ Sending(src, base, m, r)
BY DEF Stream

LEMMA StreamAt ==
    ASSUME NEW src, NEW base \in Nat, NEW m \in Nat, Stream(src, base, 3 * m)
    PROVE  Sending(src, base, m, 0)
<1>1. PICK k \in Nat, r \in 0 .. 2 : 3 * m = 3 * k + r /\ Sending(src, base, k, r)
  BY DEF Stream
<1>2. k = m /\ r = 0
  BY <1>1
<1>. QED  BY <1>1, <1>2

LEMMA Appended ==
    ASSUME NEW s \in Seq(Bit), NEW b \in Bit
    PROVE  /\ Append(s, b) \in Seq(Bit) /\ Len(Append(s, b)) = Len(s) + 1
           /\ Append(s, b)[Len(s) + 1] = b /\ \A j \in 1 .. Len(s) : Append(s, b)[j] = s[j]
OBVIOUS

LEMMA SuffixParts ==
    ASSUME NEW src \in Seq(Bit), NEW c \in Nat, c < Len(src)
    PROVE  /\ Head(SubSeq(src, c + 1, Len(src))) = src[c + 1]
           /\ Tail(SubSeq(src, c + 1, Len(src))) = SubSeq(src, (c + 1) + 1, Len(src))
<1>. DEFINE x == SubSeq(src, c + 1, Len(src))
            z == SubSeq(src, (c + 1) + 1, Len(src))
<1>0. Len(src) \in Nat
  OBVIOUS
<1>1. x \in Seq(Bit) /\ Len(x) = Len(src) - c
  BY <1>0
<1>2. \A i \in 1 .. Len(src) - c : x[i] = src[c + i]
  BY <1>0
<1>3. z \in Seq(Bit) /\ Len(z) = (Len(src) - c) - 1
  BY <1>0
<1>4. \A i \in 1 .. (Len(src) - c) - 1 : z[i] = src[c + (i + 1)]
  BY <1>0
<1>. HIDE DEF x, z
<1>5. Head(x) = src[c + 1]
  BY <1>0, <1>1, <1>2
<1>6. Tail(x) \in Seq(Bit) /\ Len(Tail(x)) = (Len(src) - c) - 1
  BY <1>0, <1>1
<1>7. \A i \in 1 .. (Len(src) - c) - 1 : Tail(x)[i] = src[c + (i + 1)]
  BY <1>0, <1>1, <1>2
<1>8. Tail(x) = z
  BY <1>3, <1>4, <1>6, <1>7, SeqEqual
<1>. QED  BY <1>5, <1>8 DEF x, z

LEMMA SuffixThere ==
    ASSUME NEW src \in Seq(Bit), NEW c \in Nat, c < Len(src)
    PROVE  SubSeq(src, c + 1, Len(src)) # <<>>
<1>1. Len(src) \in Nat
  OBVIOUS
<1>2. Len(SubSeq(src, c + 1, Len(src))) = Len(src) - c
  BY <1>1
<1>3. Len(<<>>) = 0
  OBVIOUS
<1>4. Len(SubSeq(src, c + 1, Len(src))) # 0
  BY <1>1, <1>2
<1>. QED  BY <1>3, <1>4, Zenon

LEMMA StreamFall ==
    ASSUME NEW src \in Seq(Bit), NEW base \in Nat, NEW m \in Nat, Sending(src, base, m, 0),
           base + m > 0, base + m < Len(src),
           port'.clk = 0, in' = in, miso' = Head(out), out' = Tail(out)
    PROVE  Sending(src, base, m, 1)'
<1>. DEFINE c == base + m
<1>1. /\ Len(in) = m /\ \A j \in 1 .. Len(in) : in[j] = src[base + j]
      /\ out = SubSeq(src, c + 1, Len(src))
  BY SMTT(60) DEF Sending
<1>2. c \in Nat /\ c < Len(src) /\ Len(src) \in Nat
  OBVIOUS
<1>3. Head(out) = src[c + 1] /\ Tail(out) = SubSeq(src, (c + 1) + 1, Len(src))
  BY <1>1, <1>2, SuffixParts
<1>4. base + m + 1 = c + 1 /\ base + m + 1 # 0
  BY <1>2
<1>. QED  BY <1>1, <1>3, <1>4 DEF Sending

LEMMA StreamFirst ==
    ASSUME NEW src \in Seq(Bit), src # <<>>, NEW any, Sending(any, 0, 0, 0),
           port'.clk = 0, in' = in, miso' = Head(src), out' = Tail(src)
    PROVE  Sending(src, 0, 0, 1)'
<1>1. Len(in) = 0
  BY DEF Sending
<1>2. Head(src) = src[1] /\ Tail(src) = SubSeq(src, 2, Len(src))
  OBVIOUS
<1>. QED  BY <1>1, <1>2 DEF Sending

LEMMA StreamSample ==
    ASSUME NEW src \in Seq(Bit), NEW base \in Nat, NEW m \in Nat, Sending(src, base, m, 1),
           base + m < Len(src), in \in Seq(Bit),
           in' = Append(in, miso), UNCHANGED <<port, miso, out>>
    PROVE  Sending(src, base, m, 2)' /\ in' \in Seq(Bit) /\ Len(in') = m + 1
<1>1. /\ Len(in) = m /\ \A j \in 1 .. Len(in) : in[j] = src[base + j]
      /\ miso = src[base + m + 1] /\ port.clk = 0
      /\ IF base + m + 1 = 0 THEN out = <<>> ELSE out = SubSeq(src, base + m + 1 + 1, Len(src))
  BY DEF Sending
<1>2. miso \in Bit
  BY <1>1
<1>3. in' \in Seq(Bit) /\ Len(in') = m + 1 /\ in'[m + 1] = miso /\ \A j \in 1 .. m : in'[j] = in[j]
  BY <1>1, <1>2
<1>4. \A j \in 1 .. m + 1 : in'[j] = src[base + j]
  BY <1>1, <1>3
<1>. QED  BY <1>1, <1>3, <1>4 DEF Sending

LEMMA StreamRise ==
    ASSUME NEW src \in Seq(Bit), NEW base \in Nat, NEW m \in Nat, Sending(src, base, m, 2),
           port'.clk = 1, UNCHANGED <<in, miso, out>>
    PROVE  Sending(src, base, m + 1, 0)'
<1>1. /\ Len(in) = m + 1 /\ \A j \in 1 .. Len(in) : in[j] = src[base + j]
      /\ IF base + m + 1 = 0 THEN out = <<>> ELSE out = SubSeq(src, base + m + 1 + 1, Len(src))
  BY DEF Sending
<1>2. base + (m + 1) + 0 = base + m + 1 /\ base + m + 1 # 0
  OBVIOUS
<1>. QED  BY <1>1, <1>2 DEF Sending

-----------------------------------------------------------------------------
(* The settings of a write *)

LEMMA Setting ==
    ASSUME EsamInv, PinWrite
    PROVE  /\ prog \in Seq(Ops) /\ prog # <<>> /\ prog' = Tail(prog)
           /\ port \in Lines /\ port' \in Lines /\ ChipSees(port, port')
           /\ port'.clk  = IF Op[1] = "clk"  THEN Op[2] ELSE port.clk
           /\ port'.cs   = IF Op[1] = "cs"   THEN Op[2] ELSE port.cs
           /\ port'.mosi = IF Op[1] = "mosi" THEN Op[2] ELSE port.mosi
           /\ Op[1] # "sample" /\ HeldCopy' /\ IrWrongOnlyByOverlap'
           /\ UNCHANGED <<then, arg, in, got, polls, CMD_SENT, is_open, ret, buf, fault, n, last>>
<1>1. t # <<>> /\ port' = Written /\ t' = <<>> /\ prog' = Tail(prog) /\ ChipSees(port, Written)
  BY DEF PinWrite
<1>2. UNCHANGED <<then, arg, in, got, polls, CMD_SENT, is_open, ret, buf, fault, n, last, ir>>
  BY DEF PinWrite
<1>3. HeldCopy /\ prog \in Seq(Ops) /\ port \in Lines /\ IrWrongOnlyByOverlap
  BY DEF EsamInv, PortOK, EsamTypeOK, Lines, Bit
<1>4. /\ Op[1] \in {"clk", "cs", "mosi"}
      /\ Written \in Lines /\ Written.ir = t[1].ir
      /\ Written.clk  = IF Op[1] = "clk"  THEN Op[2] ELSE port.clk
      /\ Written.cs   = IF Op[1] = "cs"   THEN Op[2] ELSE port.cs
      /\ Written.mosi = IF Op[1] = "mosi" THEN Op[2] ELSE port.mosi
  BY <1>1, <1>3, WrittenIs
<1>5. prog # <<>> /\ (t[1].ir # level => hit)
  BY <1>1, <1>3 DEF HeldCopy
<1>6. HeldCopy'
  BY <1>1 DEF HeldCopy
<1>7. IrWrongOnlyByOverlap'
  BY <1>1, <1>2, <1>4, <1>5 DEF IrWrongOnlyByOverlap, ir
<1>. QED  BY <1>1, <1>2, <1>3, <1>4, <1>5, <1>6, <1>7

\* The first four settings are made while the chip is deselected.
LEMMA StartStep ==
    ASSUME EsamInv, PinWrite, NEW l \in Seq(Ops), Len(l) >= 4, Rest(l), Done(l) <= 3,
           l[1] = <<"mosi", 0>>, l[2] = <<"clk", 0>>, l[3] = <<"clk", 1>>, l[4] = <<"cs", 1>>,
           StartKnows(l)
    PROVE  StartKnows(l)' /\ UNCHANGED chip
<1>1. /\ prog \in Seq(Ops) /\ prog # <<>> /\ prog' = Tail(prog)
      /\ port \in Lines /\ port' \in Lines /\ ChipSees(port, port')
      /\ port'.clk  = IF Op[1] = "clk"  THEN Op[2] ELSE port.clk
      /\ port'.cs   = IF Op[1] = "cs"   THEN Op[2] ELSE port.cs
  BY Setting
<1>2. Done(l)' = Done(l) + 1 /\ Done(l) \in 0 .. Len(l) /\ Op = l[Done(l) + 1]
  BY <1>1, RestNow, RestStep
<1>3. Done(l) \in 0 .. 3
  BY <1>2
<1>4. /\ port.cs = 1 /\ heard = <<>> /\ out = <<>>
      /\ port.clk = IF Done(l) = 2 THEN 0 ELSE 1
  BY DEF StartKnows
<1>5. Op = IF Done(l) = 0 THEN <<"mosi", 0>> ELSE IF Done(l) = 1 THEN <<"clk", 0>>
           ELSE IF Done(l) = 2 THEN <<"clk", 1>> ELSE <<"cs", 1>>
  <2>1. CASE Done(l) = 0
    BY <1>2, <2>1
  <2>2. CASE Done(l) = 1
    BY <1>2, <2>2
  <2>3. CASE Done(l) = 2
    BY <1>2, <2>3
  <2>4. CASE Done(l) = 3
    BY <1>2, <2>4
  <2>. QED  BY <1>3, <2>1, <2>2, <2>3, <2>4
<1>6. port'.cs = 1 /\ port'.clk = IF Done(l) + 1 = 2 THEN 0 ELSE 1
  BY <1>1, <1>3, <1>4, <1>5
<1>7. UNCHANGED chip
  BY <1>1, <1>4, <1>6, ChipIdle
<1>. QED  BY <1>2, <1>4, <1>6, <1>7 DEF StartKnows, chip

\* A setting of a bit, of which three make the chip hear it.
LEMMA FrameStep ==
    ASSUME EsamInv, PinWrite, NEW d \in Seq(Byte), Len(d) + 2 <= BufSize,
           NEW fb, fb = BitsOf(Frame(d)), NEW l, l = WriteStart \o WriteFrame(d),
           Rest(l), Done(l) >= 5, Done(l) < 5 + 3 * Len(fb), FrameKnows(fb, Done(l) - 5)
    PROVE  FrameKnows(fb, Done(l) - 5)' /\ heard' \in Seq(Bit) /\ UNCHANGED <<answer, cmd, due>>
<1>1. /\ prog \in Seq(Ops) /\ prog # <<>> /\ prog' = Tail(prog)
      /\ port \in Lines /\ port' \in Lines /\ ChipSees(port, port')
      /\ port'.clk  = IF Op[1] = "clk"  THEN Op[2] ELSE port.clk
      /\ port'.cs   = IF Op[1] = "cs"   THEN Op[2] ELSE port.cs
      /\ port'.mosi = IF Op[1] = "mosi" THEN Op[2] ELSE port.mosi
  BY Setting
<1>2. /\ fb \in Seq(Bit) /\ Len(fb) = (Len(d) + 2) * Bits /\ Len(fb) \in Nat
      /\ l \in Seq(Ops) /\ Len(l) = 6 + 3 * Len(fb)
  BY WriteListIs
<1>3. Done(l)' = Done(l) + 1 /\ Done(l) \in Nat /\ Op = l[Done(l) + 1]
  <2>1. Done(l)' = Done(l) + 1
    BY <1>1, <1>2, RestStep, Zenon
  <2>2. Len(l) \in Nat /\ Done(l) \in 0 .. Len(l) /\ Op = l[Done(l) + 1]
    BY <1>1, <1>2, RestNow, Zenon
  <2>. QED  BY <2>1, <2>2
<1>4. heard \in Seq(Bit) /\ Len(heard) \in Nat
  BY DEF EsamInv, AnswerKnows
<1>5. PICK r \in 0 .. 2 :
        /\ Done(l) - 5 = 3 * Len(heard) + r
        /\ port.clk = IF r = 0 THEN 1 ELSE 0
        /\ r = 2 => port.mosi = fb[Len(heard) + 1]
  BY DEF FrameKnows
<1>6. port.cs = 0 /\ \A j \in 1 .. Len(heard) : heard[j] = fb[j]
  BY DEF FrameKnows
<1>. DEFINE m == Len(heard)
<1>7. m < Len(fb) /\ Done(l) = 5 + 3 * m + r
  BY SMTT(60), <1>2, <1>3, <1>4, <1>5
<1>8. /\ l[6 + 3 * m] = <<"clk", 0>> /\ l[7 + 3 * m] = <<"mosi", fb[m + 1]>>
      /\ l[8 + 3 * m] = <<"clk", 1>>
  BY ZenonT(60), <1>4, <1>7, WriteListIs
<1>9. CASE r = 0
  <2>1. Done(l) + 1 = 6 + 3 * m
    BY <1>4, <1>7, <1>9
  <2>2. Op = <<"clk", 0>>
    BY <1>3, <1>8, <2>1
  <2>3. port'.cs = 0 /\ port.clk = 1 /\ port'.clk = 0
    BY <1>1, <1>5, <1>6, <1>9, <2>2
  <2>4. UNCHANGED <<heard, answer, cmd, due>>
    BY <1>1, <2>3, ChipFall
  <2>5. Done(l)' - 5 = 3 * Len(heard) + 1
    BY <1>3, <1>4, <2>1
  <2>. QED  BY <1>4, <1>6, <2>3, <2>4, <2>5 DEF FrameKnows
<1>10. CASE r = 1
  <2>1. Done(l) + 1 = 7 + 3 * m
    BY <1>4, <1>7, <1>10
  <2>2. Op = <<"mosi", fb[m + 1]>>
    BY <1>3, <1>8, <2>1
  <2>3. port'.cs = 0 /\ port.clk = 0 /\ port'.clk = 0 /\ port'.mosi = fb[m + 1]
    BY <1>1, <1>5, <1>6, <1>10, <2>2
  <2>4. UNCHANGED chip
    BY <1>1, <1>6, <2>3, ChipIdle
  <2>5. Done(l)' - 5 = 3 * Len(heard) + 2
    BY <1>3, <1>4, <2>1
  <2>. QED  BY <1>4, <1>6, <2>3, <2>4, <2>5 DEF FrameKnows, chip
<1>11. CASE r = 2
  <2>1. Done(l) + 1 = 8 + 3 * m
    BY <1>4, <1>7, <1>11
  <2>2. Op = <<"clk", 1>>
    BY <1>3, <1>8, <2>1
  <2>3. port'.cs = 0 /\ port.clk = 0 /\ port'.clk = 1 /\ port'.mosi = fb[m + 1]
    BY <1>1, <1>5, <1>6, <1>11, <2>2
  <2>4. m < Bits * BufSize
    <3>1. (Len(d) + 2) * Bits <= Bits * BufSize
      <4>1. Len(d) \in Nat
        BY FrameIs
      <4>2. Len(d) + 2 \in Nat /\ BufSize \in Nat
        BY <4>1, Consts
      <4>. QED  BY <4>2, Monotone, Zenon
    <3>2. Bits * BufSize \in Nat
      BY Consts
    <3>. QED  BY <1>2, <1>4, <1>7, <3>1, <3>2
  <2>5. heard' = Append(heard, fb[m + 1]) /\ UNCHANGED <<answer, cmd, due>>
    BY <1>1, <2>3, <2>4, ChipRise
  <2>6. fb[m + 1] \in Bit
    BY <1>2, <1>4, <1>7, SMTT(30)
  <2>7. heard' \in Seq(Bit) /\ Len(heard') = m + 1 /\ \A j \in 1 .. m + 1 : heard'[j] = fb[j]
    <3>1. /\ heard' \in Seq(Bit) /\ Len(heard') = Len(heard) + 1
          /\ heard'[Len(heard) + 1] = fb[m + 1] /\ \A j \in 1 .. Len(heard) : heard'[j] = heard[j]
      BY <1>4, <2>5, <2>6, Appended, Zenon
    <3>2. \A j \in 1 .. m + 1 : j \in 1 .. m \/ j = m + 1
      BY <1>4
    <3>. QED  BY <1>6, <3>1, <3>2
  <2>8. Done(l)' - 5 = 3 * Len(heard') + 0
    BY <1>3, <1>4, <2>1, <2>7
  <2>. QED  BY <2>3, <2>5, <2>7, <2>8 DEF FrameKnows
<1>. QED  BY <1>5, <1>9, <1>10, <1>11

LEMMA AnswerStays ==
    ASSUME AnswerKnows, answer' \in {answer, <<>>}, heard' \in Seq(Bit), in' \in Seq(Bit),
           UNCHANGED <<then, CMD_SENT, last, cmd, due>>
    PROVE  AnswerKnows'
BY DEF AnswerKnows

LEMMA WriteStep ==
    ASSUME EsamInv, PinWrite, then = "written"
    PROVE  WriteKnows' /\ AnswerKnows'
<1>1. PICK d : d = arg
  OBVIOUS
<1>2. PICK fb : fb = BitsOf(Frame(d))
  OBVIOUS
<1>3. PICK l : l = WriteStart \o WriteFrame(d)
  OBVIOUS
<1>4. /\ d \in Seq(Byte) /\ Len(d) + 2 <= BufSize /\ Rest(l)
      /\ Done(l) <= 4 => StartKnows(l)
      /\ Done(l) \in 5 .. 5 + 3 * Len(fb) => FrameKnows(fb, Done(l) - 5)
      /\ Done(l) < 6 + 3 * Len(fb) => cmd = last
  BY <1>1, <1>2, <1>3 DEF EsamInv, WriteKnows
<1>5. /\ fb \in Seq(Bit) /\ Len(fb) \in Nat /\ Len(fb) > 0
      /\ l \in Seq(Ops) /\ Len(l) = 6 + 3 * Len(fb)
      /\ l[1] = <<"mosi", 0>> /\ l[2] = <<"clk", 0>> /\ l[3] = <<"clk", 1>>
      /\ l[4] = <<"cs", 1>> /\ l[5] = <<"cs", 0>> /\ l[6 + 3 * Len(fb)] = <<"cs", 1>>
  BY <1>2, <1>3, <1>4, WriteListIs
<1>6. /\ prog \in Seq(Ops) /\ prog # <<>> /\ prog' = Tail(prog)
      /\ port \in Lines /\ port' \in Lines /\ ChipSees(port, port')
      /\ port'.clk  = IF Op[1] = "clk"  THEN Op[2] ELSE port.clk
      /\ port'.cs   = IF Op[1] = "cs"   THEN Op[2] ELSE port.cs
  BY Setting
<1>7. UNCHANGED <<then, arg, in, CMD_SENT, last>>
  BY Setting
<1>8. /\ Rest(l)' /\ Done(l)' = Done(l) + 1
      /\ Done(l) \in Nat /\ Op = l[Done(l) + 1] /\ Done(l) < 6 + 3 * Len(fb)
  <2>1. Rest(l)' /\ Done(l)' = Done(l) + 1
    BY <1>4, <1>5, <1>6, RestStep, Zenon
  <2>2. Len(l) \in Nat /\ Done(l) \in 0 .. Len(l) /\ Op = l[Done(l) + 1] /\ Done(l) < Len(l)
    BY <1>4, <1>5, <1>6, RestNow, Zenon
  <2>. QED  BY <1>5, <2>1, <2>2
<1>9. AnswerKnows
  BY DEF EsamInv
<1>16. cmd = last
  BY <1>4, <1>8
<1>10. ASSUME /\ Done(l) + 1 <= 4 => StartKnows(l)'
              /\ Done(l) + 1 \in 5 .. 5 + 3 * Len(fb) => FrameKnows(fb, Done(l) - 5)'
              /\ Done(l) + 1 < 6 + 3 * Len(fb) => cmd' = cmd
              /\ Done(l) + 1 = 6 + 3 * Len(fb) => Quiet' /\ cmd' = After(d)
       PROVE  WriteKnows'
  <2>1. /\ arg' = d /\ BitsOf(Frame(arg')) = fb /\ WriteStart \o WriteFrame(arg') = l
    BY <1>1, <1>2, <1>3, <1>7
  <2>2. /\ Done(l)' <= 4 => StartKnows(l)'
        /\ Done(l)' \in 5 .. 5 + 3 * Len(fb) => FrameKnows(fb, Done(l) - 5)'
        /\ Done(l)' < 6 + 3 * Len(fb) => cmd' = last'
        /\ Done(l)' = 6 + 3 * Len(fb) => Quiet' /\ cmd' = After(arg)'
    BY <1>1, <1>7, <1>8, <1>10, <1>16 DEF After
  <2>. QED  BY <1>4, <1>8, <2>1, <2>2 DEF WriteKnows, Rest, Done, StartKnows, FrameKnows
<1>11. CASE Done(l) <= 3
  <2>1. StartKnows(l)' /\ UNCHANGED chip
    <3>1. Len(l) >= 4 /\ StartKnows(l)
      BY <1>4, <1>5, <1>8, <1>11
    <3>. QED  BY <1>4, <1>5, <1>11, <3>1, StartStep, Zenon
  <2>2. WriteKnows'
    BY <1>5, <1>8, <1>10, <1>11, <2>1 DEF chip
  <2>. QED  BY <1>7, <1>9, <2>1, <2>2 DEF AnswerKnows, chip
<1>12. CASE Done(l) = 4
  <2>1. Op = <<"cs", 0>> /\ port.cs = 1 /\ port.clk = 1 /\ heard = <<>>
    BY <1>4, <1>5, <1>8, <1>12 DEF StartKnows
  <2>2. port'.cs = 0 /\ port'.clk = 1
    BY <1>6, <2>1
  <2>3. UNCHANGED chip
    BY <1>6, <2>1, <2>2, ChipIdle
  <2>4. Done(l)' - 5 = 3 * Len(heard') + 0 /\ Len(heard') = 0
    BY <1>8, <1>12, <2>1, <2>3 DEF chip
  <2>5. FrameKnows(fb, Done(l) - 5)'
    BY <2>2, <2>4 DEF FrameKnows
  <2>6. WriteKnows'
    BY <1>5, <1>8, <1>10, <1>12, <2>3, <2>5 DEF chip
  <2>. QED  BY <1>7, <1>9, <2>3, <2>6 DEF AnswerKnows, chip
<1>13. CASE Done(l) >= 5 /\ Done(l) < 5 + 3 * Len(fb)
  <2>1. FrameKnows(fb, Done(l) - 5)
    BY <1>4, <1>5, <1>8, <1>13
  <2>2. FrameKnows(fb, Done(l) - 5)' /\ heard' \in Seq(Bit) /\ UNCHANGED <<answer, cmd, due>>
    BY <1>2, <1>3, <1>4, <1>13, <2>1, FrameStep
  <2>3. WriteKnows'
    BY <1>5, <1>8, <1>10, <1>13, <2>2
  <2>. QED  BY <1>7, <1>9, <2>2, <2>3 DEF AnswerKnows
<1>14. CASE Done(l) = 5 + 3 * Len(fb)
  <2>1. FrameKnows(fb, Done(l) - 5)
    BY <1>4, <1>5, <1>8, <1>14
  <2>2. heard \in Seq(Bit) /\ Len(heard) \in Nat
    BY <1>9 DEF AnswerKnows
  <2>3. PICK r \in 0 .. 2 :
            /\ Done(l) - 5 = 3 * Len(heard) + r
            /\ port.clk = IF r = 0 THEN 1 ELSE 0
    BY <2>1 DEF FrameKnows
  <2>4. Len(heard) = Len(fb) /\ r = 0
    BY <1>5, <1>14, <2>2, <2>3
  <2>5. port.clk = 1 /\ port.cs = 0 /\ \A j \in 1 .. Len(heard) : heard[j] = fb[j]
    BY <2>1, <2>3, <2>4 DEF FrameKnows
  <2>6. Done(l) + 1 = 6 + 3 * Len(fb)
    BY <1>5, <1>14
  <2>7. Op = <<"cs", 1>>
    BY <1>5, <1>8, <2>6
  <2>8. port'.cs = 1 /\ port'.clk = 1
    BY <1>6, <2>5, <2>7
  <2>9. CASE d # <<>>
    <3>1. IsCommand(heard) /\ SubSeq(BytesOf(heard), 2, Len(BytesOf(heard)) - 1) = d
      BY <1>2, <1>4, <2>2, <2>4, <2>5, <2>9, FrameAccepted
    <3>2. /\ \E a \in Answers : \E f \in Sent(a) : due' = a /\ answer' = BitsOf(f)
          /\ cmd' = d /\ heard' = <<>> /\ out' = <<>>
      BY <1>6, <2>5, <2>8, <3>1, ChipCommand
    <3>3. WriteKnows'
      BY <1>5, <1>8, <1>10, <1>14, <2>8, <2>9, <3>2 DEF Quiet, After
    <3>4. due' \in Answers /\ \E f \in Sent(due') : answer' = BitsOf(f)
      BY <3>2
    <3>5. heard' \in Seq(Bit)
      BY <3>2
    <3>. QED  BY <1>7, <1>9, <3>3, <3>4, <3>5 DEF AnswerKnows
  <2>10. CASE d = <<>>
    <3>1. ~ IsCommand(heard)
      BY <1>2, <1>4, <2>2, <2>4, <2>10, EmptyRefused
    <3>2. answer' \in {answer, <<>>} /\ heard' = <<>> /\ out' = <<>> /\ UNCHANGED <<cmd, due>>
      BY <1>6, <2>5, <2>8, <3>1, ChipDeselect
    <3>3. WriteKnows'
      BY <1>5, <1>8, <1>10, <1>14, <1>16, <2>8, <2>10, <3>2 DEF Quiet, After
    <3>4. heard' \in Seq(Bit) /\ in' \in Seq(Bit)
      BY <1>7, <1>9, <3>2 DEF AnswerKnows
    <3>. QED  BY <1>7, <1>9, <3>2, <3>3, <3>4, AnswerStays
  <2>. QED  BY <2>9, <2>10
<1>15. \/ Done(l) <= 3 \/ Done(l) = 4 \/ (Done(l) >= 5 /\ Done(l) < 5 + 3 * Len(fb))
       \/ Done(l) = 5 + 3 * Len(fb)
  <2>1. \A x, w \in Nat :
            x < 6 + 3 * w => x <= 3 \/ x = 4 \/ (x >= 5 /\ x < 5 + 3 * w) \/ x = 5 + 3 * w
    OBVIOUS
  <2>. QED  BY <1>5, <1>8, <2>1, Zenon
<1>. QED  BY <1>11, <1>12, <1>13, <1>14, <1>15

LEMMA RefusedStep ==
    ASSUME EsamInv, PinWrite, then = "refused"
    PROVE  RefusedKnows' /\ AnswerKnows'
<1>1. PICK l : l = WriteStart
  OBVIOUS
<1>2. Rest(l) /\ StartKnows(l)
  BY <1>1 DEF EsamInv, RefusedKnows
<1>3. /\ l \in Seq(Ops) /\ Len(l) = 4
      /\ l[1] = <<"mosi", 0>> /\ l[2] = <<"clk", 0>> /\ l[3] = <<"clk", 1>> /\ l[4] = <<"cs", 1>>
  BY <1>1, WriteStartIs
<1>4. prog \in Seq(Ops) /\ prog # <<>> /\ prog' = Tail(prog)
  BY Setting
<1>5. Rest(l)' /\ Done(l) \in 0 .. Len(l) /\ Done(l) < Len(l)
  BY <1>2, <1>3, <1>4, RestStep, RestNow, Zenon
<1>6. Done(l) <= 3 /\ Len(l) >= 4
  BY <1>3, <1>5
<1>7. StartKnows(l)' /\ UNCHANGED chip
  BY <1>2, <1>3, <1>6, StartStep, Zenon
<1>8. RefusedKnows'
  BY <1>1, <1>5, <1>7 DEF RefusedKnows, Rest, StartKnows, Done
<1>9. AnswerKnows /\ UNCHANGED <<then, in, CMD_SENT, last>>
  BY Setting DEF EsamInv
<1>10. heard' \in Seq(Bit) /\ in' \in Seq(Bit)
  BY <1>7, <1>9 DEF AnswerKnows, chip
<1>11. AnswerKnows'
  BY <1>7, <1>9, <1>10, AnswerStays DEF chip
<1>. QED  BY <1>8, <1>11

LEMMA CheckStep ==
    ASSUME EsamInv, PinWrite, then = "check"
    PROVE  CheckKnows' /\ AnswerKnows'
<1>1. PICK l : l = Pin("mosi", 1)
  OBVIOUS
<1>2. Rest(l) /\ Quiet
  BY <1>1 DEF EsamInv, CheckKnows
<1>3. l \in Seq(Ops) /\ Len(l) = 1 /\ l[1] = <<"mosi", 1>>
  BY <1>1, PinIs DEF Bit
<1>4. /\ prog \in Seq(Ops) /\ prog # <<>> /\ prog' = Tail(prog)
      /\ port \in Lines /\ port' \in Lines /\ ChipSees(port, port')
      /\ port'.clk  = IF Op[1] = "clk"  THEN Op[2] ELSE port.clk
      /\ port'.cs   = IF Op[1] = "cs"   THEN Op[2] ELSE port.cs
      /\ port'.mosi = IF Op[1] = "mosi" THEN Op[2] ELSE port.mosi
  BY Setting
<1>5. Rest(l)' /\ Done(l) \in 0 .. Len(l) /\ Done(l) < Len(l) /\ Op = l[Done(l) + 1]
  BY <1>2, <1>3, <1>4, RestStep, RestNow, Zenon
<1>6. Op = <<"mosi", 1>>
  BY <1>3, <1>5
<1>7. port'.clk = 1 /\ port'.cs = 1 /\ port'.mosi = 1
  BY <1>2, <1>4, <1>6 DEF Quiet
<1>8. UNCHANGED chip
  <2>1. ~ (port.cs = 0 /\ port'.cs = 1)
    BY <1>2 DEF Quiet
  <2>. QED  BY <1>4, <1>7, <2>1, ChipIdle, Zenon
<1>9. CheckKnows'
  BY <1>1, <1>2, <1>5, <1>7, <1>8 DEF CheckKnows, Rest, Quiet, chip
<1>10. AnswerKnows /\ UNCHANGED <<then, in, CMD_SENT, last>>
  BY Setting DEF EsamInv
<1>11. heard' \in Seq(Bit) /\ in' \in Seq(Bit)
  BY <1>8, <1>10 DEF AnswerKnows, chip
<1>12. AnswerKnows'
  BY <1>8, <1>10, <1>11, AnswerStays DEF chip
<1>. QED  BY <1>9, <1>12

-----------------------------------------------------------------------------
(* The settings of a read *)

\* Deselecting the chip after a read puts it to rest; it may drop its answer.
LEMMA DeselectStep ==
    ASSUME EsamInv, PinWrite, Listening, port.clk = 1, Op = <<"cs", 1>>
    PROVE  Quiet' /\ answer' \in {answer, <<>>} /\ UNCHANGED <<cmd, due>> /\ AnswerKnows'
<1>1. /\ port \in Lines /\ port' \in Lines /\ ChipSees(port, port')
      /\ port'.clk  = IF Op[1] = "clk"  THEN Op[2] ELSE port.clk
      /\ port'.cs   = IF Op[1] = "cs"   THEN Op[2] ELSE port.cs
  BY Setting
<1>2. port'.clk = 1 /\ port'.cs = 1 /\ port.cs = 0
  BY <1>1 DEF Listening
<1>3. AnswerKnows /\ UNCHANGED <<then, in, CMD_SENT, last>>
  BY Setting DEF EsamInv
<1>4. ~ IsCommand(heard)
  BY <1>3, OnesRefused DEF AnswerKnows, Listening
<1>5. answer' \in {answer, <<>>} /\ heard' = <<>> /\ out' = <<>> /\ UNCHANGED <<cmd, due>>
  BY <1>1, <1>2, <1>4, ChipDeselect
<1>6. heard' \in Seq(Bit) /\ in' \in Seq(Bit)
  BY <1>3, <1>5 DEF AnswerKnows
<1>7. AnswerKnows'
  BY <1>3, <1>5, <1>6, AnswerStays
<1>. QED  BY <1>2, <1>5, <1>7 DEF Quiet

LEMMA FallStep ==
    ASSUME EsamInv, PinWrite, Listening, Op = <<"clk", 0>>,
           NEW src \in Seq(Bit), NEW base \in Nat, NEW m \in Nat, Sending(src, base, m, 0),
           base + m > 0, base + m < Len(src)
    PROVE  Sending(src, base, m, 1)' /\ Listening' /\ UNCHANGED <<heard, answer, cmd, due>>
<1>1. /\ port \in Lines /\ port' \in Lines /\ ChipSees(port, port')
      /\ port'.clk  = IF Op[1] = "clk"  THEN Op[2] ELSE port.clk
      /\ port'.cs   = IF Op[1] = "cs"   THEN Op[2] ELSE port.cs
      /\ port'.mosi = IF Op[1] = "mosi" THEN Op[2] ELSE port.mosi
      /\ in' = in
  BY Setting
<1>2. port.clk = 1 /\ port'.clk = 0 /\ port'.cs = 0 /\ port'.mosi = 1
  BY <1>1 DEF Listening, Sending
<1>3. out = SubSeq(src, base + m + 1, Len(src))
  BY DEF Sending
<1>4. out # <<>>
  <2>1. base + m \in Nat
    OBVIOUS
  <2>. QED  BY <1>3, <2>1, SuffixThere, Zenon
<1>5. miso' = Head(out) /\ out' = Tail(out) /\ UNCHANGED <<heard, answer, cmd, due>>
  BY <1>1, <1>2, <1>4, ChipFall
<1>6. Sending(src, base, m, 1)'
  BY <1>1, <1>2, <1>5, StreamFall
<1>. QED  BY <1>2, <1>5, <1>6 DEF Listening

\* At the beginning of a byte of the poll the chip is not ready or starts its answer.
LEMMA FirstStep ==
    ASSUME EsamInv, PinWrite, Listening, Op = <<"clk", 0>>, NEW any, Sending(any, 0, 0, 0)
    PROVE  /\ \E src \in {BitsOf(<<Zero>>), answer} \ {<<>>} : Sending(src, 0, 0, 1)'
           /\ Listening' /\ UNCHANGED <<heard, answer, cmd, due>>
<1>1. /\ port \in Lines /\ port' \in Lines /\ ChipSees(port, port')
      /\ port'.clk  = IF Op[1] = "clk"  THEN Op[2] ELSE port.clk
      /\ port'.cs   = IF Op[1] = "cs"   THEN Op[2] ELSE port.cs
      /\ port'.mosi = IF Op[1] = "mosi" THEN Op[2] ELSE port.mosi
      /\ in' = in
  BY Setting
<1>2. port.clk = 1 /\ port'.clk = 0 /\ port'.cs = 0 /\ port'.mosi = 1 /\ out = <<>>
  BY <1>1 DEF Listening, Sending
<1>3. PICK src \in {BitsOf(<<Zero>>), answer} \ {<<>>} : miso' = Head(src) /\ out' = Tail(src)
  <2>1. \E o \in IF out # <<>> THEN {out}
                 ELSE IF port'.mosi = 0 THEN {BitsOf(<<Zero>>)}
                 ELSE {BitsOf(<<Zero>>), answer} \ {<<>>} :
             miso' = Head(o) /\ out' = Tail(o)
    BY <1>1, <1>2, ChipFall, Zenon
  <2>. QED  BY <1>2, <2>1
<1>4. UNCHANGED <<heard, answer, cmd, due>>
  BY <1>1, <1>2, ChipFall
<1>5. src \in Seq(Bit) /\ src # <<>>
  BY <1>3, SourceBits DEF EsamInv
<1>6. Sending(src, 0, 0, 1)'
  BY <1>1, <1>2, <1>3, <1>5, StreamFirst
<1>. QED  BY <1>2, <1>3, <1>4, <1>6 DEF Listening

LEMMA RiseHeard ==
    ASSUME EsamInv, PinWrite, Listening, Op = <<"clk", 1>>, port.clk = 0
    PROVE  /\ port'.clk = 1 /\ Listening' /\ heard' \in Seq(Bit)
           /\ UNCHANGED <<in, miso, out, answer, cmd, due>>
<1>1. /\ port \in Lines /\ port' \in Lines /\ ChipSees(port, port')
      /\ port'.clk  = IF Op[1] = "clk"  THEN Op[2] ELSE port.clk
      /\ port'.cs   = IF Op[1] = "cs"   THEN Op[2] ELSE port.cs
      /\ port'.mosi = IF Op[1] = "mosi" THEN Op[2] ELSE port.mosi
      /\ in' = in
  BY Setting
<1>2. port.clk = 0 /\ port'.clk = 1 /\ port'.cs = 0 /\ port'.mosi = 1
  BY <1>1 DEF Listening
<1>3. /\ heard' = IF Len(heard) < Bits * BufSize THEN Append(heard, 1) ELSE heard
      /\ UNCHANGED <<miso, out, answer, cmd, due>>
  BY <1>1, <1>2, ChipRise
<1>4. heard \in Seq(Bit) /\ 1 \in Bit /\ \A j \in 1 .. Len(heard) : heard[j] = 1
  BY DEF EsamInv, AnswerKnows, Listening, Bit
<1>5. heard' \in Seq(Bit) /\ \A j \in 1 .. Len(heard') : heard'[j] = 1
  <2>1. CASE heard' = heard
    BY <1>4, <2>1
  <2>2. CASE heard' = Append(heard, 1)
    <3>1. /\ heard' \in Seq(Bit) /\ Len(heard') = Len(heard) + 1
          /\ heard'[Len(heard) + 1] = 1 /\ \A j \in 1 .. Len(heard) : heard'[j] = heard[j]
      BY <1>4, <2>2, Appended, ZenonT(60)
    <3>2. Len(heard) \in Nat
      BY <1>4
    <3>3. \A j \in 1 .. Len(heard) + 1 : j \in 1 .. Len(heard) \/ j = Len(heard) + 1
      BY <3>2
    <3>. QED  BY <1>4, <3>1, <3>3
  <2>. QED  BY <1>3, <2>1, <2>2
<1>. QED  BY <1>1, <1>2, <1>3, <1>5 DEF Listening

LEMMA RiseStep ==
    ASSUME EsamInv, PinWrite, Listening, Op = <<"clk", 1>>,
           NEW src \in Seq(Bit), NEW base \in Nat, NEW m \in Nat, Sending(src, base, m, 2)
    PROVE  /\ Sending(src, base, m + 1, 0)' /\ Listening' /\ heard' \in Seq(Bit)
           /\ UNCHANGED <<answer, cmd, due>>
<1>1. port.clk = 0
  BY DEF Sending
<1>2. /\ port'.clk = 1 /\ Listening' /\ heard' \in Seq(Bit)
      /\ UNCHANGED <<in, miso, out, answer, cmd, due>>
  BY <1>1, RiseHeard
<1>3. Sending(src, base, m + 1, 0)'
  BY <1>2, StreamRise
<1>. QED  BY <1>2, <1>3

\* The entries of a list that receives w bits, after p of them: falling edge,
\* sample, rising edge.
Expects(p, w) ==
    \A m \in Nat : m < w => /\ p = 3 * m     => Op = <<"clk", 0>>
                            /\ p = 3 * m + 1 => Op = <<"sample", 0>>
                            /\ p = 3 * m + 2 => Op = <<"clk", 1>>

LEMMA ClockStep ==
    ASSUME EsamInv, PinWrite, Listening,
           NEW src \in Seq(Bit), NEW base \in Nat, NEW w \in Nat, NEW p \in Nat, p < 3 * w,
           base + w <= Len(src), base + p > 0, Expects(p, w), Stream(src, base, p)
    PROVE  /\ Stream(src, base, p + 1)' /\ Listening' /\ heard' \in Seq(Bit)
           /\ UNCHANGED <<answer, cmd, due>>
<1>1. PICK m \in Nat, r \in 0 .. 2 : p = 3 * m + r /\ Sending(src, base, m, r)
  BY DEF Stream
<1>2. Len(src) \in Nat
  OBVIOUS
<1>3. m < w /\ base + m < Len(src)
  BY <1>1, <1>2
<1>4. heard \in Seq(Bit)
  BY DEF EsamInv, AnswerKnows
<1>5. CASE r = 0
  <2>1. Op = <<"clk", 0>> /\ base + m > 0 /\ p + 1 = 3 * m + 1
    BY <1>1, <1>3, <1>5 DEF Expects
  <2>2. Sending(src, base, m, 0)
    BY <1>1, <1>5
  <2>3. Sending(src, base, m, 1)' /\ Listening' /\ UNCHANGED <<heard, answer, cmd, due>>
    BY <1>3, <2>1, <2>2, FallStep, Zenon
  <2>4. Stream(src, base, p + 1)'
    BY <2>1, <2>3 DEF Stream
  <2>. QED  BY <1>4, <2>3, <2>4
<1>6. CASE r = 1
  <2>1. Op = <<"sample", 0>>
    BY <1>1, <1>3, <1>6 DEF Expects
  <2>2. Op[1] # "sample"
    BY Setting
  <2>. QED  BY <2>1, <2>2
<1>7. CASE r = 2
  <2>1. Op = <<"clk", 1>> /\ p + 1 = 3 * (m + 1) + 0 /\ m + 1 \in Nat
    BY <1>1, <1>3, <1>7 DEF Expects
  <2>2. Sending(src, base, m, 2)
    BY <1>1, <1>7
  <2>3. Sending(src, base, m + 1, 0)' /\ Listening' /\ heard' \in Seq(Bit) /\ UNCHANGED <<answer, cmd, due>>
    BY <2>1, <2>2, RiseStep, Zenon
  <2>4. Stream(src, base, p + 1)'
    BY <2>1, <2>3 DEF Stream
  <2>. QED  BY <2>3, <2>4
<1>. QED  BY <1>1, <1>5, <1>6, <1>7

LEMMA SampleStep ==
    ASSUME EsamInv, SampleMiso, Listening,
           NEW src \in Seq(Bit), NEW base \in Nat, NEW w \in Nat, NEW p \in Nat, p < 3 * w,
           base + w <= Len(src), Expects(p, w), Stream(src, base, p)
    PROVE  /\ Stream(src, base, p + 1)' /\ Listening' /\ in' \in Seq(Bit) /\ Len(in') <= w
<1>1. PICK m \in Nat, r \in 0 .. 2 : p = 3 * m + r /\ Sending(src, base, m, r)
  BY DEF Stream
<1>2. Len(src) \in Nat
  OBVIOUS
<1>3. m < w /\ base + m < Len(src)
  BY <1>1, <1>2
<1>4. Op[1] = "sample" /\ in' = Append(in, miso) /\ UNCHANGED <<port, miso, out, heard>>
  BY DEF SampleMiso, lines, chip
<1>5. r = 1 /\ p + 1 = 3 * m + 2
  <2>1. r # 0 /\ r # 2
    BY <1>1, <1>3, <1>4 DEF Expects
  <2>. QED  BY <1>1, <2>1
<1>6. Sending(src, base, m, 1)
  BY <1>1, <1>5
<1>7. in \in Seq(Bit)
  BY DEF EsamInv, AnswerKnows
<1>8. Sending(src, base, m, 2)' /\ in' \in Seq(Bit) /\ Len(in') = m + 1
  BY <1>3, <1>4, <1>6, <1>7, StreamSample
<1>9. Stream(src, base, p + 1)'
  BY <1>5, <1>8 DEF Stream
<1>10. Listening'
  BY <1>4 DEF Listening
<1>. QED  BY <1>3, <1>8, <1>9, <1>10

\* The same, if nothing is known of the bits.
LEMMA TakingFall ==
    ASSUME EsamInv, PinWrite, Listening, Op = <<"clk", 0>>, port.clk = 1, out \in Seq(Bit)
    PROVE  /\ port'.clk = 0 /\ in' = in /\ miso' \in Bit /\ out' \in Seq(Bit)
           /\ Listening' /\ UNCHANGED <<heard, answer, cmd, due>>
<1>1. /\ port \in Lines /\ port' \in Lines /\ ChipSees(port, port')
      /\ port'.clk  = IF Op[1] = "clk"  THEN Op[2] ELSE port.clk
      /\ port'.cs   = IF Op[1] = "cs"   THEN Op[2] ELSE port.cs
      /\ port'.mosi = IF Op[1] = "mosi" THEN Op[2] ELSE port.mosi
      /\ in' = in
  BY Setting
<1>2. port'.clk = 0 /\ port'.cs = 0 /\ port'.mosi = 1
  BY <1>1 DEF Listening
<1>3. /\ \E o \in IF out # <<>> THEN {out}
                 ELSE IF port'.mosi = 0 THEN {BitsOf(<<Zero>>)}
                 ELSE {BitsOf(<<Zero>>), answer} \ {<<>>} :
             miso' = Head(o) /\ out' = Tail(o)
      /\ UNCHANGED <<heard, answer, cmd, due>>
  BY <1>1, <1>2, ChipFall, Zenon
<1>4. PICK o : /\ (o = out /\ out # <<>>) \/ o \in {BitsOf(<<Zero>>), answer} \ {<<>>}
               /\ miso' = Head(o) /\ out' = Tail(o)
  BY <1>2, <1>3
<1>5. o \in Seq(Bit) /\ o # <<>>
  BY <1>4, SourceBits DEF EsamInv
<1>6. miso' \in Bit /\ out' \in Seq(Bit)
  BY <1>4, <1>5
<1>. QED  BY <1>1, <1>2, <1>3, <1>6 DEF Listening

LEMMA TakingStep ==
    ASSUME EsamInv, PinWrite, Listening, NEW w \in Nat, NEW p \in Nat, p < 3 * w,
           Expects(p, w), Taking(p)
    PROVE  /\ Taking(p + 1)' /\ Listening' /\ heard' \in Seq(Bit)
           /\ UNCHANGED <<answer, cmd, due>>
<1>1. PICK m \in Nat, r \in 0 .. 2 :
        /\ p = 3 * m + r
        /\ port.clk = IF r = 0 THEN 1 ELSE 0
        /\ Len(in) = IF r = 2 THEN m + 1 ELSE m
        /\ out \in Seq(Bit)
        /\ r # 0 => miso \in Bit
  BY DEF Taking
<1>2. m < w
  BY <1>1
<1>3. heard \in Seq(Bit)
  BY DEF EsamInv, AnswerKnows
<1>4. CASE r = 0
  <2>1. Op = <<"clk", 0>> /\ port.clk = 1 /\ Len(in) = m /\ p + 1 = 3 * m + 1
    BY <1>1, <1>2, <1>4 DEF Expects
  <2>2. /\ port'.clk = 0 /\ in' = in /\ miso' \in Bit /\ out' \in Seq(Bit)
        /\ Listening' /\ UNCHANGED <<heard, answer, cmd, due>>
    BY <1>1, <2>1, TakingFall
  <2>3. Taking(p + 1)'
    BY <2>1, <2>2 DEF Taking
  <2>. QED  BY <1>3, <2>2, <2>3
<1>5. CASE r = 1
  <2>1. Op = <<"sample", 0>>
    BY <1>1, <1>2, <1>5 DEF Expects
  <2>2. Op[1] # "sample"
    BY Setting
  <2>. QED  BY <2>1, <2>2
<1>6. CASE r = 2
  <2>1. Op = <<"clk", 1>> /\ port.clk = 0 /\ Len(in) = m + 1 /\ p + 1 = 3 * (m + 1) + 0
    BY <1>1, <1>2, <1>6 DEF Expects
  <2>2. /\ port'.clk = 1 /\ Listening' /\ heard' \in Seq(Bit)
        /\ UNCHANGED <<in, miso, out, answer, cmd, due>>
    BY <2>1, RiseHeard
  <2>3. Taking(p + 1)'
    BY <1>1, <2>1, <2>2 DEF Taking
  <2>. QED  BY <2>2, <2>3
<1>. QED  BY <1>1, <1>4, <1>5, <1>6

LEMMA TakingSample ==
    ASSUME EsamInv, SampleMiso, Listening, NEW w \in Nat, NEW p \in Nat, p < 3 * w,
           Expects(p, w), Taking(p)
    PROVE  /\ Taking(p + 1)' /\ Listening' /\ in' \in Seq(Bit) /\ Len(in') <= w
<1>1. PICK m \in Nat, r \in 0 .. 2 :
        /\ p = 3 * m + r
        /\ port.clk = IF r = 0 THEN 1 ELSE 0
        /\ Len(in) = IF r = 2 THEN m + 1 ELSE m
        /\ out \in Seq(Bit)
        /\ r # 0 => miso \in Bit
  BY DEF Taking
<1>2. m < w
  BY <1>1
<1>3. Op[1] = "sample" /\ in' = Append(in, miso) /\ UNCHANGED <<port, miso, out, heard>>
  BY DEF SampleMiso, lines, chip
<1>4. r = 1
  <2>1. r # 0 /\ r # 2
    BY <1>1, <1>2, <1>3 DEF Expects
  <2>. QED  BY <1>1, <2>1
<1>5. miso \in Bit /\ Len(in) = m /\ port.clk = 0 /\ p + 1 = 3 * m + 2
  BY <1>1, <1>4
<1>6. in \in Seq(Bit)
  BY DEF EsamInv, AnswerKnows
<1>7. in' \in Seq(Bit) /\ Len(in') = m + 1
  BY <1>3, <1>5, <1>6, Appended
<1>8. Taking(p + 1)'
  BY <1>1, <1>3, <1>5, <1>7 DEF Taking
<1>9. Listening'
  BY <1>3 DEF Listening
<1>. QED  BY <1>2, <1>7, <1>8, <1>9

\* Where the poll for the first byte is: before its list, or at bit entries of it.
LEMMA PollAt ==
    ASSUME EsamInv, then = "poll", prog # <<>>
    PROVE  /\ CMD_SENT /\ polls < Polls /\ Rest(PollList) /\ prog \in Seq(Ops)
           /\ Done(PollList) \in Nat /\ Done(PollList) < 1 + 3 * Bits
           /\ Done(PollList) = 0 =>
                Op = <<"cs", 0>> /\ Quiet /\ port.mosi = 1 /\ in = <<>>
           /\ Done(PollList) > 0 =>
                /\ Listening /\ Done(PollList) - 1 \in Nat /\ Done(PollList) - 1 < 3 * Bits
                /\ Expects(Done(PollList) - 1, Bits)
                /\ \E src \in {BitsOf(<<Zero>>), answer} \ {<<>>} :
                        /\ Stream(src, 0, Done(PollList) - 1)
                        /\ src \in Seq(Bit) /\ 0 + Bits <= Len(src)
<1>1. /\ CMD_SENT /\ polls < Polls /\ Rest(PollList) /\ prog \in Seq(Ops) /\ AnswerKnows
      /\ Done(PollList) = 0 => Quiet /\ port.mosi = 1 /\ in = <<>>
      /\ Done(PollList) > 0 =>
                /\ Listening
                /\ \E src \in {BitsOf(<<Zero>>), answer} \ {<<>>} :
                        Stream(src, 0, Done(PollList) - 1)
  BY DEF EsamInv, PollKnows
<1>2. PICK l : l = PollList
  OBVIOUS
<1>3. /\ l \in Seq(Ops) /\ Len(l) = 1 + 3 * Bits /\ l[1] = <<"cs", 0>>
      /\ \A m \in Nat : m < Bits =>
            /\ l[1 + (3 * m + 1)] = <<"clk", 0>>
            /\ l[1 + (3 * m + 2)] = <<"sample", 0>>
            /\ l[1 + (3 * m + 3)] = <<"clk", 1>>
  BY <1>2, PollListIs
<1>4. Done(l) \in 0 .. Len(l) /\ Op = l[Done(l) + 1] /\ Done(l) < Len(l)
  BY <1>1, <1>2, <1>3, RestNow, Zenon
<1>5. Done(l) \in Nat /\ Done(l) < 1 + 3 * Bits
  BY <1>3, <1>4, Consts
<1>6. ASSUME Done(l) = 0  PROVE Op = <<"cs", 0>>
  BY <1>3, <1>4, <1>6
<1>7. ASSUME Done(l) > 0
      PROVE  /\ Done(l) - 1 \in Nat /\ Done(l) - 1 < 3 * Bits
             /\ Expects(Done(l) - 1, Bits)
  <2>1. Done(l) - 1 \in Nat /\ Done(l) - 1 < 3 * Bits
    BY <1>5, <1>7, Consts
  <2>2. ASSUME NEW m \in Nat, m < Bits
        PROVE  /\ Done(l) - 1 = 3 * m     => Op = <<"clk", 0>>
               /\ Done(l) - 1 = 3 * m + 1 => Op = <<"sample", 0>>
               /\ Done(l) - 1 = 3 * m + 2 => Op = <<"clk", 1>>
    <3>1. /\ l[1 + (3 * m + 1)] = <<"clk", 0>>
          /\ l[1 + (3 * m + 2)] = <<"sample", 0>>
          /\ l[1 + (3 * m + 3)] = <<"clk", 1>>
      BY <1>3, <2>2
    <3>2. /\ Done(l) - 1 = 3 * m     => Done(l) + 1 = 1 + (3 * m + 1)
          /\ Done(l) - 1 = 3 * m + 1 => Done(l) + 1 = 1 + (3 * m + 2)
          /\ Done(l) - 1 = 3 * m + 2 => Done(l) + 1 = 1 + (3 * m + 3)
      BY <1>5
    <3>3. Op = l[Done(l) + 1]
      BY <1>4
    <3>. QED  BY <3>1, <3>2, <3>3, Zenon
  <2>. QED  BY <2>1, <2>2 DEF Expects
<1>8. ASSUME NEW src \in {BitsOf(<<Zero>>), answer} \ {<<>>}
      PROVE  src \in Seq(Bit) /\ 0 + Bits <= Len(src)
  <2>1. src \in Seq(Bit) /\ Len(src) >= Bits
    BY <1>1, SourceBits
  <2>. QED  BY <2>1, Consts
<1>. QED  BY <1>1, <1>2, <1>5, <1>6, <1>7, <1>8, Zenon

\* The poll after a step that leaves it in step with the chip.
LEMMA PollNext ==
    ASSUME EsamInv, then = "poll", prog # <<>>, prog' = Tail(prog), UNCHANGED <<then, polls, CMD_SENT>>,
           Listening', NEW p, p = Done(PollList),
           NEW src, src \in {BitsOf(<<Zero>>), answer'} \ {<<>>}, Stream(src, 0, p)'
    PROVE  PollKnows'
<1>1. CMD_SENT /\ polls < Polls /\ Rest(PollList) /\ prog \in Seq(Ops) /\ p \in Nat
  BY PollAt
<1>2. PICK l : l = PollList
  OBVIOUS
<1>3. l \in Seq(Ops)
  BY <1>2, PollListIs
<1>4. Rest(l)' /\ Done(l)' = Done(l) + 1
  BY <1>1, <1>2, <1>3, RestStep, Zenon
<1>5. Rest(PollList)'
  BY <1>2, <1>4
<1>6. Done(PollList)' # 0 /\ Done(PollList)' > 0 /\ Done(PollList)' - 1 = p
  BY <1>1, <1>2, <1>4
<1>7. Stream(src, 0, Done(PollList) - 1)'
  BY <1>6 DEF Stream
<1>. QED  BY <1>1, <1>5, <1>6, <1>7 DEF PollKnows

LEMMA PollStep ==
    ASSUME EsamInv, PinWrite, then = "poll"
    PROVE  PollKnows' /\ AnswerKnows'
<1>1. /\ prog # <<>> /\ prog' = Tail(prog) /\ UNCHANGED <<then, in, polls, CMD_SENT, last>>
  BY Setting
<1>2. AnswerKnows
  BY DEF EsamInv
<1>3. PICK p : p = Done(PollList)
  OBVIOUS
<1>4. p \in Nat
  BY <1>1, <1>3, PollAt
<1>5. CASE p = 0
  <2>1. Op = <<"cs", 0>> /\ Quiet /\ port.mosi = 1 /\ in = <<>>
    BY <1>1, <1>3, <1>5, PollAt
  <2>2. /\ port \in Lines /\ port' \in Lines /\ ChipSees(port, port')
        /\ port'.clk  = IF Op[1] = "clk"  THEN Op[2] ELSE port.clk
        /\ port'.cs   = IF Op[1] = "cs"   THEN Op[2] ELSE port.cs
        /\ port'.mosi = IF Op[1] = "mosi" THEN Op[2] ELSE port.mosi
    BY Setting
  <2>3. port.clk = 1 /\ port'.clk = 1 /\ port'.cs = 0 /\ port'.mosi = 1 /\ port.cs = 1
    BY <2>1, <2>2 DEF Quiet
  <2>4. UNCHANGED chip
    BY <2>2, <2>3, ChipIdle
  <2>5. PICK src : src = BitsOf(<<Zero>>)
    OBVIOUS
  <2>6. src \in {BitsOf(<<Zero>>), answer'} \ {<<>>}
    <3>1. <<Zero>> \in Seq(Byte) /\ Len(<<Zero>>) = 1
      BY ByteValues
    <3>2. Len(src) = 1 * Bits
      BY <2>5, <3>1, BitsOfIs
    <3>3. Len(src) # 0
      BY <3>2, Consts
    <3>4. src # <<>>
      BY <3>3
    <3>. QED  BY <2>5, <3>4
  <2>7. Sending(src, 0, 0, 0)'
    BY <1>1, <2>1, <2>3, <2>4 DEF Sending, Quiet, chip
  <2>8. Stream(src, 0, p)'
    BY <1>5, <2>7 DEF Stream
  <2>9. Listening'
    BY <2>1, <2>3, <2>4 DEF Listening, Quiet, chip
  <2>10. PollKnows'
    BY <1>1, <1>3, <2>6, <2>8, <2>9, PollNext
  <2>11. heard' \in Seq(Bit) /\ in' \in Seq(Bit)
    BY <1>1, <1>2, <2>4 DEF AnswerKnows, chip
  <2>12. AnswerKnows'
    BY <1>1, <1>2, <2>4, <2>11, AnswerStays DEF chip
  <2>. QED  BY <2>10, <2>12
<1>6. CASE p > 0
  <2>1. /\ Listening /\ p - 1 \in Nat /\ p - 1 < 3 * Bits /\ Expects(p - 1, Bits)
        /\ \E src \in {BitsOf(<<Zero>>), answer} \ {<<>>} :
                Stream(src, 0, p - 1) /\ src \in Seq(Bit) /\ 0 + Bits <= Len(src)
    BY <1>1, <1>3, <1>6, PollAt
  <2>2. PICK src \in {BitsOf(<<Zero>>), answer} \ {<<>>} :
                Stream(src, 0, p - 1) /\ src \in Seq(Bit) /\ 0 + Bits <= Len(src)
    BY <2>1
  <2>3. \E s2 \in {BitsOf(<<Zero>>), answer} \ {<<>>} :
            /\ Stream(s2, 0, p)' /\ Listening' /\ heard' \in Seq(Bit)
            /\ UNCHANGED <<answer, cmd, due>>
    <3>1. CASE p = 1
      <4>1. p - 1 = 3 * 0 /\ 0 \in Nat /\ 0 < Bits /\ p = 3 * 0 + 1
        BY <3>1, Consts
      <4>2. Sending(src, 0, 0, 0)
        BY <2>2, <4>1, StreamAt
      <4>3. Op = <<"clk", 0>>
        BY <2>1, <4>1 DEF Expects
      <4>4. /\ \E s2 \in {BitsOf(<<Zero>>), answer} \ {<<>>} : Sending(s2, 0, 0, 1)'
            /\ Listening' /\ UNCHANGED <<heard, answer, cmd, due>>
        BY <2>1, <4>2, <4>3, FirstStep
      <4>5. PICK s2 \in {BitsOf(<<Zero>>), answer} \ {<<>>} : Sending(s2, 0, 0, 1)'
        BY <4>4
      <4>6. Stream(s2, 0, p)'
        BY <4>1, <4>5 DEF Stream
      <4>. QED  BY <1>2, <4>4, <4>5, <4>6 DEF AnswerKnows
    <3>2. CASE p # 1
      <4>1. 0 + (p - 1) > 0 /\ (p - 1) + 1 = p
        BY <1>4, <1>6, <3>2
      <4>2. 0 \in Nat /\ Bits \in Nat
        BY Consts
      <4>3. /\ Stream(src, 0, (p - 1) + 1)' /\ Listening' /\ heard' \in Seq(Bit)
            /\ UNCHANGED <<answer, cmd, due>>
        BY <2>1, <2>2, <4>1, <4>2, ClockStep, Zenon
      <4>. QED  BY <2>2, <4>1, <4>3
    <3>. QED  BY <3>1, <3>2
  <2>4. PICK s2 \in {BitsOf(<<Zero>>), answer} \ {<<>>} :
            /\ Stream(s2, 0, p)' /\ Listening' /\ heard' \in Seq(Bit)
            /\ UNCHANGED <<answer, cmd, due>>
    BY <2>3
  <2>5. PollKnows'
    BY <1>1, <1>3, <2>4, PollNext
  <2>6. in' \in Seq(Bit)
    BY <1>1, <1>2 DEF AnswerKnows
  <2>7. AnswerKnows'
    BY <1>1, <1>2, <2>4, <2>6, AnswerStays
  <2>. QED  BY <2>5, <2>7
<1>. QED  BY <1>4, <1>5, <1>6

LEMMA PollSample ==
    ASSUME EsamInv, SampleMiso, then = "poll"
    PROVE  PollKnows' /\ AnswerKnows' /\ Len(in') <= Bits
<1>1. /\ prog # <<>> /\ prog' = Tail(prog) /\ Op[1] = "sample"
      /\ UNCHANGED <<then, polls, CMD_SENT, last, port, heard, answer, cmd, due>>
  BY DEF SampleMiso, lines, chip
<1>2. AnswerKnows
  BY DEF EsamInv
<1>3. PICK p : p = Done(PollList)
  OBVIOUS
<1>4. p \in Nat /\ p # 0
  BY <1>1, <1>3, PollAt
<1>5. /\ Listening /\ p - 1 \in Nat /\ p - 1 < 3 * Bits /\ Expects(p - 1, Bits)
      /\ \E src \in {BitsOf(<<Zero>>), answer} \ {<<>>} :
              Stream(src, 0, p - 1) /\ src \in Seq(Bit) /\ 0 + Bits <= Len(src)
  BY <1>1, <1>3, <1>4, PollAt
<1>6. PICK src \in {BitsOf(<<Zero>>), answer} \ {<<>>} :
              Stream(src, 0, p - 1) /\ src \in Seq(Bit) /\ 0 + Bits <= Len(src)
  BY <1>5
<1>7. 0 \in Nat /\ Bits \in Nat /\ (p - 1) + 1 = p
  BY <1>4, Consts
<1>8. Stream(src, 0, (p - 1) + 1)' /\ Listening' /\ in' \in Seq(Bit) /\ Len(in') <= Bits
  BY <1>5, <1>6, <1>7, SampleStep, Zenon
<1>9. Stream(src, 0, p)'
  BY <1>7, <1>8
<1>10. PollKnows'
  BY <1>1, <1>3, <1>6, <1>8, <1>9, PollNext
<1>11. heard' \in Seq(Bit)
  BY <1>1, <1>2 DEF AnswerKnows
<1>12. AnswerKnows'
  BY <1>1, <1>2, <1>8, <1>11, AnswerStays
<1>. QED  BY <1>8, <1>10, <1>12

LEMMA FailedStep ==
    ASSUME EsamInv, PinWrite, then = "failed"
    PROVE  FailedKnows' /\ AnswerKnows'
<1>1. PICK l : l = Pin("cs", 1)
  OBVIOUS
<1>2. prog \in Seq(Ops) /\ prog # <<>> /\ prog' = Tail(prog) /\ UNCHANGED then
  BY Setting
<1>3. Rest(l) /\ Listening /\ port.clk = 1
  BY <1>1, <1>2 DEF EsamInv, FailedKnows
<1>4. l \in Seq(Ops) /\ Len(l) = 1 /\ l[1] = <<"cs", 1>>
  BY <1>1, PinIs DEF Bit
<1>5. /\ Rest(l)' /\ Done(l) \in 0 .. Len(l) /\ Done(l) < Len(l) /\ Op = l[Done(l) + 1]
      /\ (prog' = <<>> <=> Done(l) + 1 = Len(l))
  BY <1>2, <1>3, <1>4, RestStep, RestNow, Zenon
<1>6. Op = <<"cs", 1>> /\ prog' = <<>>
  <2>1. Done(l) = 0
    BY <1>4, <1>5
  <2>. QED  BY <1>4, <1>5, <2>1
<1>7. Quiet' /\ AnswerKnows'
  BY <1>3, <1>6, DeselectStep
<1>. QED  BY <1>1, <1>5, <1>6, <1>7 DEF FailedKnows, Rest

LEMMA AnswerBits ==
    ASSUME NEW a \in Answers, NEW f \in Sent(a)
    PROVE  /\ BitsOf(f) \in Seq(Bit) /\ Len(BitsOf(f)) = (Len(a) + 2) * Bits
           /\ Len(a) - 3 \in Nat /\ Bits + 4 * Bits <= Len(BitsOf(f))
           /\ 5 * Bits + (Len(a) - 3) * Bits = Len(BitsOf(f))
<1>1. f \in Seq(Byte) /\ Len(f) = Len(a) + 2 /\ Len(a) \in Nat /\ Len(a) >= 4
  BY SentIs
<1>2. BitsOf(f) \in Seq(Bit) /\ Len(BitsOf(f)) = (Len(a) + 2) * Bits
  BY <1>1, BitsOfIs
<1>3. 5 * Bits <= (Len(a) + 2) * Bits
  BY <1>1, Monotone
<1>4. 5 * Bits + (Len(a) - 3) * Bits = (Len(a) + 2) * Bits /\ Bits + 4 * Bits = 5 * Bits
  BY <1>1, Consts
<1>. QED  BY <1>1, <1>2, <1>3, <1>4

\* Any list that receives w bits is, with what is left of it, in step with Expects.
LEMMA ListExpects ==
    ASSUME NEW l \in Seq(Ops), NEW w \in Nat, Len(l) \in Nat, prog \in Seq(Ops), prog # <<>>, Rest(l),
           \A m \in Nat : m < w =>
                /\ l[3 * m + 1] = <<"clk", 0>>
                /\ l[3 * m + 2] = <<"sample", 0>>
                /\ l[3 * m + 3] = <<"clk", 1>>
    PROVE  Expects(Done(l), w) /\ Done(l) \in Nat /\ Done(l) < Len(l) /\ Op = l[Done(l) + 1]
<1>1. Done(l) \in 0 .. Len(l) /\ Op = l[Done(l) + 1] /\ Done(l) < Len(l)
  BY RestNow, Zenon
<1>2. Done(l) \in Nat
  BY <1>1
<1>3. ASSUME NEW m \in Nat, m < w
      PROVE  /\ Done(l) = 3 * m     => Op = <<"clk", 0>>
             /\ Done(l) = 3 * m + 1 => Op = <<"sample", 0>>
             /\ Done(l) = 3 * m + 2 => Op = <<"clk", 1>>
  <2>1. /\ l[3 * m + 1] = <<"clk", 0>>
        /\ l[3 * m + 2] = <<"sample", 0>>
        /\ l[3 * m + 3] = <<"clk", 1>>
    BY <1>3
  <2>2. /\ Done(l) = 3 * m     => Done(l) + 1 = 3 * m + 1
        /\ Done(l) = 3 * m + 1 => Done(l) + 1 = 3 * m + 2
        /\ Done(l) = 3 * m + 2 => Done(l) + 1 = 3 * m + 3
    BY <1>2
  <2>. QED  BY <1>1, <2>1, <2>2, Zenon
<1>. QED  BY <1>1, <1>2, <1>3 DEF Expects

LEMMA HeaderAt ==
    ASSUME EsamInv, then = "header", NEW l, l = ReceiveBytes(4)
    PROVE  /\ CMD_SENT /\ Rest(l) /\ Listening /\ prog \in Seq(Ops) /\ l \in Seq(Ops)
           /\ Len(l) = 3 * (4 * Bits) /\ 4 * Bits \in Nat
           /\ answer # <<>> /\ due \in Answers /\ \E f \in Sent(due) : answer = BitsOf(f)
           /\ answer \in Seq(Bit) /\ Bits + 4 * Bits <= Len(answer)
           /\ Stream(answer, Bits, Done(l))
           /\ prog # <<>> => /\ Expects(Done(l), 4 * Bits) /\ Done(l) \in Nat /\ Done(l) < 3 * (4 * Bits)
<1>1. /\ CMD_SENT /\ Rest(l) /\ Listening /\ prog \in Seq(Ops) /\ answer # <<>> /\ AnswerKnows
      /\ Stream(answer, Bits, Done(l))
  BY DEF EsamInv, HeaderKnows
<1>2. /\ l \in Seq(Ops) /\ Len(l) = 3 * (4 * Bits)
      /\ \A m \in Nat : m < 4 * Bits =>
                /\ l[3 * m + 1] = <<"clk", 0>>
                /\ l[3 * m + 2] = <<"sample", 0>>
                /\ l[3 * m + 3] = <<"clk", 1>>
  BY ReceiveIs
<1>3. 4 * Bits \in Nat /\ Len(l) \in Nat
  BY <1>2, Consts
<1>4. due \in Answers /\ \E f \in Sent(due) : answer = BitsOf(f)
  BY <1>1 DEF AnswerKnows
<1>5. answer \in Seq(Bit) /\ Bits + 4 * Bits <= Len(answer)
  BY <1>4, AnswerBits
<1>6. ASSUME prog # <<>>  PROVE Expects(Done(l), 4 * Bits) /\ Done(l) \in Nat /\ Done(l) < Len(l)
  BY <1>1, <1>2, <1>3, <1>6, ListExpects, Zenon
<1>. QED  BY <1>1, <1>2, <1>3, <1>4, <1>5, <1>6

LEMMA HeaderNext ==
    ASSUME EsamInv, then = "header", prog # <<>>, prog' = Tail(prog), UNCHANGED <<then, CMD_SENT, answer>>,
           Listening', NEW l, l = ReceiveBytes(4), NEW src, src = answer, NEW p, p = Done(l),
           Stream(src, Bits, p + 1)'
    PROVE  HeaderKnows'
<1>1. CMD_SENT /\ Rest(l) /\ prog \in Seq(Ops) /\ l \in Seq(Ops) /\ answer # <<>>
  BY HeaderAt
<1>2. Rest(l)' /\ Done(l)' = Done(l) + 1
  BY <1>1, RestStep, Zenon
<1>3. Rest(ReceiveBytes(4))' /\ Done(ReceiveBytes(4))' = p + 1 /\ answer' = src
  BY <1>2 DEF Rest, Done
<1>4. Stream(answer, Bits, Done(ReceiveBytes(4)))'
  BY <1>3 DEF Stream, Sending
<1>. QED  BY <1>1, <1>3, <1>4 DEF HeaderKnows

LEMMA HeaderStep ==
    ASSUME EsamInv, PinWrite, then = "header"
    PROVE  HeaderKnows' /\ AnswerKnows'
<1>1. prog # <<>> /\ prog' = Tail(prog) /\ UNCHANGED <<then, in, CMD_SENT, last>>
  BY Setting
<1>2. PICK l : l = ReceiveBytes(4)
  OBVIOUS
<1>3. PICK src : src = answer
  OBVIOUS
<1>4. PICK p : p = Done(l)
  OBVIOUS
<1>5. /\ Listening /\ 4 * Bits \in Nat /\ src \in Seq(Bit) /\ Bits + 4 * Bits <= Len(src)
      /\ Stream(src, Bits, p) /\ Expects(p, 4 * Bits) /\ p \in Nat /\ p < 3 * (4 * Bits)
  BY <1>1, <1>2, <1>3, <1>4, HeaderAt
<1>6. Bits \in Nat /\ Bits + p > 0
  BY <1>5, Consts
<1>7. /\ Stream(src, Bits, p + 1)' /\ Listening' /\ heard' \in Seq(Bit)
      /\ UNCHANGED <<answer, cmd, due>>
  BY <1>5, <1>6, ClockStep, Zenon
<1>8. HeaderKnows'
  BY <1>1, <1>2, <1>3, <1>4, <1>7, HeaderNext
<1>9. AnswerKnows /\ in' \in Seq(Bit)
  BY <1>1 DEF EsamInv, AnswerKnows
<1>10. AnswerKnows'
  BY <1>1, <1>7, <1>9, AnswerStays
<1>. QED  BY <1>8, <1>10

LEMMA HeaderSample ==
    ASSUME EsamInv, SampleMiso, then = "header"
    PROVE  HeaderKnows' /\ AnswerKnows' /\ Len(in') <= 4 * Bits
<1>1. /\ prog # <<>> /\ prog' = Tail(prog)
      /\ UNCHANGED <<then, CMD_SENT, last, heard, answer, cmd, due>>
  BY DEF SampleMiso, chip
<1>2. PICK l : l = ReceiveBytes(4)
  OBVIOUS
<1>3. PICK src : src = answer
  OBVIOUS
<1>4. PICK p : p = Done(l)
  OBVIOUS
<1>5. /\ Listening /\ 4 * Bits \in Nat /\ src \in Seq(Bit) /\ Bits + 4 * Bits <= Len(src)
      /\ Stream(src, Bits, p) /\ Expects(p, 4 * Bits) /\ p \in Nat /\ p < 3 * (4 * Bits)
  BY <1>1, <1>2, <1>3, <1>4, HeaderAt
<1>6. Bits \in Nat
  BY Consts
<1>7. Stream(src, Bits, p + 1)' /\ Listening' /\ in' \in Seq(Bit) /\ Len(in') <= 4 * Bits
  BY <1>5, <1>6, SampleStep, Zenon
<1>8. HeaderKnows'
  BY <1>1, <1>2, <1>3, <1>4, <1>7, HeaderNext
<1>9. AnswerKnows /\ heard' \in Seq(Bit)
  BY <1>1 DEF EsamInv, AnswerKnows
<1>10. AnswerKnows'
  BY <1>1, <1>7, <1>9, AnswerStays
<1>. QED  BY <1>7, <1>8, <1>10

\* Where the data is, whatever the length read; c bytes are received.
LEMMA DataAt ==
    ASSUME EsamInv, then = "data", NEW c, c = DataLen(got) + 1, NEW l, l = ReceiveBytes(c) \o Pin("cs", 1)
    PROVE  /\ Rest(l) /\ prog \in Seq(Ops) /\ due \in Answers /\ got \in Seq(Byte) /\ Len(got) = 4
           /\ DataLen(got) \in Nat /\ c \in Nat /\ c > 0 /\ c + 4 <= BufSize /\ c * Bits \in Nat
           /\ l \in Seq(Ops) /\ Len(l) = 3 * (c * Bits) + 1
           /\ l[3 * (c * Bits) + 1] = <<"cs", 1>>
           /\ prog # <<>> => /\ Expects(Done(l), c * Bits) /\ Done(l) \in Nat
                             /\ Done(l) < 3 * (c * Bits) + 1 /\ Op = l[Done(l) + 1]
<1>1. /\ Rest(l) /\ due \in Answers /\ prog \in Seq(Ops) /\ got \in Seq(Byte) /\ Len(got) = 4
      /\ DataLen(got) \in Nat /\ DataLen(got) + 5 <= BufSize
  BY DEF EsamInv, DataKnows
<1>2. c \in Nat /\ c > 0 /\ c + 4 <= BufSize
  <2>1. \A x, y \in Nat : x + 5 <= y => x + 1 \in Nat /\ x + 1 > 0 /\ (x + 1) + 4 <= y
    OBVIOUS
  <2>. QED  BY <1>1, <2>1, Consts, Zenon
<1>7. /\ l \in Seq(Ops) /\ Len(l) = 3 * (c * Bits) + 1 /\ l[3 * (c * Bits) + 1] = <<"cs", 1>>
      /\ c * Bits \in Nat
      /\ \A m \in Nat : m < c * Bits =>
                /\ l[3 * m + 1] = <<"clk", 0>>
                /\ l[3 * m + 2] = <<"sample", 0>>
                /\ l[3 * m + 3] = <<"clk", 1>>
  <2>1. c \in Nat /\ l = ReceiveBytes(c) \o Pin("cs", 1)
    BY <1>2
  <2>. QED  BY <2>1, DataListIs, ZenonT(60)
<1>8. Len(l) \in Nat
  BY <1>7
<1>9. ASSUME prog # <<>>
      PROVE  Expects(Done(l), c * Bits) /\ Done(l) \in Nat /\ Done(l) < Len(l) /\ Op = l[Done(l) + 1]
  BY <1>1, <1>7, <1>8, <1>9, ListExpects, Zenon
<1>. QED  BY <1>1, <1>2, <1>7, <1>9, Zenon

\* ... if the length is the answer's,
LEMMA RightAt ==
    ASSUME EsamInv, then = "data", DataLen(got) = DataLen(due),
           NEW c, c = DataLen(got) + 1, NEW l, l = ReceiveBytes(c) \o Pin("cs", 1)
    PROVE  /\ c = Len(due) - 3
           /\ \E f \in Sent(due) :
                /\ got = [i \in 1 .. 4 |-> f[i + 1]]
                /\ BitsOf(f) \in Seq(Bit) /\ 5 * Bits + c * Bits = Len(BitsOf(f))
                /\ prog # <<>> => /\ Listening /\ answer = BitsOf(f)
                                  /\ Stream(answer, 5 * Bits, Done(l))
                /\ prog = <<>> => /\ Quiet /\ Len(in) = c * Bits
                                  /\ \A j \in 1 .. Len(in) : in[j] = BitsOf(f)[5 * Bits + j]
<1>1. due \in Answers /\ RightKnows(l)
  BY DEF EsamInv, DataKnows
<1>2. PICK f \in Sent(due) :
        /\ got = [i \in 1 .. 4 |-> f[i + 1]]
        /\ prog # <<>> => /\ Listening /\ answer = BitsOf(f)
                          /\ Stream(answer, 5 * Bits, Done(l))
        /\ prog = <<>> => /\ Quiet /\ Len(in) = c * Bits
                          /\ \A j \in 1 .. Len(in) : in[j] = BitsOf(f)[5 * Bits + j]
  BY <1>1 DEF RightKnows
<1>3. DataLen(got) = Len(due) - 4 /\ Len(due) \in Nat
  BY <1>1, SentIs
<1>4. /\ BitsOf(f) \in Seq(Bit) /\ Len(due) - 3 \in Nat
      /\ 5 * Bits + (Len(due) - 3) * Bits = Len(BitsOf(f))
  BY <1>1, AnswerBits
<1>5. c = Len(due) - 3
  BY <1>3
<1>6. 5 * Bits + c * Bits = Len(BitsOf(f))
  BY <1>4, <1>5
<1>7. \E g \in Sent(due) :
                /\ got = [i \in 1 .. 4 |-> g[i + 1]]
                /\ BitsOf(g) \in Seq(Bit) /\ 5 * Bits + c * Bits = Len(BitsOf(g))
                /\ prog # <<>> => /\ Listening /\ answer = BitsOf(g)
                                  /\ Stream(answer, 5 * Bits, Done(l))
                /\ prog = <<>> => /\ Quiet /\ Len(in) = c * Bits
                                  /\ \A j \in 1 .. Len(in) : in[j] = BitsOf(g)[5 * Bits + j]
  BY <1>2, <1>4, <1>6, Zenon
<1>. QED  BY <1>5, <1>7

\* ... and if it is not.
LEMMA WrongAt ==
    ASSUME EsamInv, then = "data", DataLen(got) # DataLen(due),
           NEW c, c = DataLen(got) + 1, NEW l, l = ReceiveBytes(c) \o Pin("cs", 1)
    PROVE  /\ prog # <<>> => Listening /\ Taking(Done(l))
           /\ prog = <<>> => Quiet /\ Len(in) = c * Bits
BY DEF EsamInv, DataKnows, WrongKnows

\* The data after a step through its list.
LEMMA DataNext ==
    ASSUME EsamInv, then = "data", NEW c, c = DataLen(got) + 1, NEW l, l = ReceiveBytes(c) \o Pin("cs", 1),
           prog # <<>>, prog' = Tail(prog), UNCHANGED <<then, got, due>>,
           DataLen(got) = DataLen(due) => RightKnows(l)',
           DataLen(got) # DataLen(due) => WrongKnows(l)'
    PROVE  DataKnows'
<1>1. /\ Rest(l) /\ prog \in Seq(Ops) /\ due \in Answers /\ l \in Seq(Ops)
      /\ got \in Seq(Byte) /\ Len(got) = 4
  BY DataAt
<1>2. DataLen(got) \in Nat /\ DataLen(got) + 5 <= BufSize
  BY DEF EsamInv, DataKnows
<1>3. Rest(l)'
  BY <1>1, RestStep, Zenon
<1>4. ReceiveBytes(DataLen(got') + 1) \o Pin("cs", 1) = l
  OBVIOUS
<1>. QED  BY <1>1, <1>2, <1>3, <1>4 DEF DataKnows, Rest, RightKnows, WrongKnows, Done

LEMMA RightNext ==
    ASSUME EsamInv, then = "data", DataLen(got) = DataLen(due),
           NEW c, c = DataLen(got) + 1, NEW l, l = ReceiveBytes(c) \o Pin("cs", 1),
           prog # <<>>, prog' = Tail(prog), UNCHANGED <<then, got, due, answer>>,
           Listening', NEW src, src = answer, NEW p, p = Done(l), p < 3 * (c * Bits),
           Stream(src, 5 * Bits, p + 1)'
    PROVE  DataKnows'
<1>1. /\ Rest(l) /\ prog \in Seq(Ops) /\ due \in Answers
      /\ l \in Seq(Ops) /\ Len(l) = 3 * (c * Bits) + 1 /\ c * Bits \in Nat /\ p \in Nat
  BY DataAt
<1>2. PICK f \in Sent(due) : got = [i \in 1 .. 4 |-> f[i + 1]] /\ answer = BitsOf(f)
  BY RightAt
<1>3. Done(l)' = Done(l) + 1 /\ (prog' = <<>> <=> Done(l) + 1 = Len(l))
  BY <1>1, RestStep, Zenon
<1>4. prog' # <<>>
  BY <1>1, <1>3
<1>7. Stream(answer, 5 * Bits, Done(l))'
  BY <1>3 DEF Stream, Sending
<1>8. f \in Sent(due)' /\ got' = [i \in 1 .. 4 |-> f[i + 1]] /\ answer' = BitsOf(f)
  BY <1>2 DEF Sent
<1>9. RightKnows(l)'
  BY <1>4, <1>7, <1>8 DEF RightKnows
<1>. QED  BY <1>9, DataNext, Zenon

LEMMA WrongNext ==
    ASSUME EsamInv, then = "data", DataLen(got) # DataLen(due),
           NEW c, c = DataLen(got) + 1, NEW l, l = ReceiveBytes(c) \o Pin("cs", 1),
           prog # <<>>, prog' = Tail(prog), UNCHANGED <<then, got, due>>,
           Listening', NEW p, p = Done(l), p < 3 * (c * Bits), Taking(p + 1)'
    PROVE  DataKnows'
<1>1. /\ Rest(l) /\ prog \in Seq(Ops) /\ l \in Seq(Ops) /\ Len(l) = 3 * (c * Bits) + 1
      /\ c * Bits \in Nat /\ p \in Nat
  BY DataAt
<1>2. Done(l)' = Done(l) + 1 /\ (prog' = <<>> <=> Done(l) + 1 = Len(l))
  BY <1>1, RestStep, Zenon
<1>3. prog' # <<>>
  BY <1>1, <1>2
<1>4. Taking(Done(l))'
  BY <1>2 DEF Taking
<1>5. WrongKnows(l)'
  BY <1>3, <1>4 DEF WrongKnows
<1>. QED  BY <1>5, DataNext, Zenon

LEMMA DataStep ==
    ASSUME EsamInv, PinWrite, then = "data"
    PROVE  DataKnows' /\ AnswerKnows'
<1>1. prog # <<>> /\ prog' = Tail(prog) /\ UNCHANGED <<then, in, got, CMD_SENT, last>>
  BY Setting
<1>2. PICK c : c = DataLen(got) + 1
  OBVIOUS
<1>3. PICK l : l = ReceiveBytes(c) \o Pin("cs", 1)
  OBVIOUS
<1>4. PICK src : src = answer
  OBVIOUS
<1>5. PICK p : p = Done(l)
  OBVIOUS
<1>6. /\ Rest(l) /\ prog \in Seq(Ops) /\ due \in Answers
      /\ c * Bits \in Nat /\ c \in Nat
      /\ l \in Seq(Ops) /\ Len(l) = 3 * (c * Bits) + 1
      /\ l[3 * (c * Bits) + 1] = <<"cs", 1>>
      /\ Expects(p, c * Bits) /\ p \in Nat /\ p < 3 * (c * Bits) + 1 /\ Op = l[p + 1]
  BY <1>1, <1>2, <1>3, <1>5, DataAt
<1>9. AnswerKnows /\ in' \in Seq(Bit)
  BY <1>1 DEF EsamInv, AnswerKnows
<1>10. ASSUME p = 3 * (c * Bits)
       PROVE  Op = <<"cs", 1>> /\ prog' = <<>>
  <2>1. Op = <<"cs", 1>>
    BY <1>6, <1>10
  <2>2. prog' = <<>> <=> Done(l) + 1 = Len(l)
    BY <1>1, <1>6, RestStep, Zenon
  <2>. QED  BY <1>5, <1>6, <1>10, <2>1, <2>2
<1>11. ASSUME Quiet', DataLen(got) = DataLen(due) => RightKnows(l)',
              DataLen(got) # DataLen(due) => WrongKnows(l)', UNCHANGED due
       PROVE  DataKnows'
  BY <1>1, <1>2, <1>3, <1>11, DataNext
<1>12. CASE DataLen(got) = DataLen(due)
  <2>1. PICK f \in Sent(due) :
          /\ got = [i \in 1 .. 4 |-> f[i + 1]] /\ src = BitsOf(f)
          /\ src \in Seq(Bit) /\ 5 * Bits + c * Bits = Len(src)
          /\ Listening /\ Stream(src, 5 * Bits, p)
    BY <1>1, <1>2, <1>3, <1>4, <1>5, <1>12, RightAt
  <2>2. 5 * Bits \in Nat /\ 5 * Bits + p > 0 /\ 5 * Bits + c * Bits <= Len(src)
    <3>1. \A x, w, e \in Nat : x > 0 => x + w > 0 /\ (x + e = Len(src) => x + e <= Len(src))
      OBVIOUS
    <3>2. 5 * Bits \in Nat /\ 5 * Bits > 0
      BY Consts
    <3>3. p \in Nat /\ c * Bits \in Nat /\ 5 * Bits + c * Bits = Len(src)
      BY <1>6, <2>1
    <3>. QED  BY <3>1, <3>2, <3>3, Zenon
  <2>3. CASE p < 3 * (c * Bits)
    <3>1. /\ Stream(src, 5 * Bits, p + 1)' /\ Listening' /\ heard' \in Seq(Bit)
          /\ UNCHANGED <<answer, cmd, due>>
      BY <1>6, <2>1, <2>2, <2>3, ClockStep, Zenon
    <3>2. DataKnows'
      BY <1>1, <1>2, <1>3, <1>4, <1>5, <1>12, <2>3, <3>1, RightNext
    <3>3. AnswerKnows'
      BY <1>1, <1>9, <3>1, AnswerStays
    <3>. QED  BY <3>2, <3>3
  <2>4. CASE p = 3 * (c * Bits)
    <3>1. Op = <<"cs", 1>> /\ prog' = <<>>
      BY <1>10, <2>4
    <3>2. Sending(src, 5 * Bits, c * Bits, 0)
      BY <1>6, <2>1, <2>2, <2>4, StreamAt, Zenon
    <3>3. port.clk = 1 /\ Len(in) = c * Bits /\ \A j \in 1 .. Len(in) : in[j] = src[5 * Bits + j]
      BY <3>2 DEF Sending
    <3>4. Quiet' /\ UNCHANGED <<cmd, due>> /\ AnswerKnows'
      BY <2>1, <3>1, <3>3, DeselectStep
    <3>5. f \in Sent(due)' /\ got' = [i \in 1 .. 4 |-> f[i + 1]]
      BY <1>1, <2>1, <3>4 DEF Sent
    <3>6. DataLen(got') + 1 = c
      BY <1>1, <1>2
    <3>7. Len(in') = (DataLen(got') + 1) * Bits /\ \A j \in 1 .. Len(in') : in'[j] = BitsOf(f)[5 * Bits + j]
      BY <1>1, <2>1, <3>3, <3>6
    <3>8. RightKnows(l)'
      BY <3>1, <3>4, <3>5, <3>7 DEF RightKnows
    <3>. QED  BY <1>11, <1>12, <3>4, <3>8
  <2>. QED  BY <1>6, <2>3, <2>4
<1>13. CASE DataLen(got) # DataLen(due)
  <2>1. Listening /\ Taking(p)
    BY <1>1, <1>2, <1>3, <1>5, <1>13, WrongAt
  <2>2. CASE p < 3 * (c * Bits)
    <3>1. /\ Taking(p + 1)' /\ Listening' /\ heard' \in Seq(Bit)
          /\ UNCHANGED <<answer, cmd, due>>
      BY <1>6, <2>1, <2>2, TakingStep, Zenon
    <3>2. DataKnows'
      BY <1>1, <1>2, <1>3, <1>5, <1>13, <2>2, <3>1, WrongNext
    <3>3. AnswerKnows'
      BY <1>1, <1>9, <3>1, AnswerStays
    <3>. QED  BY <3>2, <3>3
  <2>3. CASE p = 3 * (c * Bits)
    <3>1. Op = <<"cs", 1>> /\ prog' = <<>>
      BY <1>10, <2>3
    <3>2. port.clk = 1 /\ Len(in) = c * Bits
      <4>1. PICK m \in Nat, r \in 0 .. 2 :
                /\ p = 3 * m + r
                /\ port.clk = IF r = 0 THEN 1 ELSE 0
                /\ Len(in) = IF r = 2 THEN m + 1 ELSE m
        BY <2>1 DEF Taking
      <4>2. \A x, y \in Nat, z \in 0 .. 2 : 3 * x = 3 * y + z => x = y /\ z = 0
        OBVIOUS
      <4>3. c * Bits = m /\ r = 0
        BY <1>6, <2>3, <4>1, <4>2, Zenon
      <4>. QED  BY <4>1, <4>3
    <3>3. Quiet' /\ UNCHANGED <<cmd, due>> /\ AnswerKnows'
      BY <2>1, <3>1, <3>2, DeselectStep
    <3>4. Len(in') = (DataLen(got') + 1) * Bits
      BY <1>1, <1>2, <3>2
    <3>5. WrongKnows(l)'
      BY <3>1, <3>3, <3>4 DEF WrongKnows
    <3>. QED  BY <1>11, <1>13, <3>3, <3>5
  <2>. QED  BY <1>6, <2>2, <2>3
<1>. QED  BY <1>12, <1>13

LEMMA DataSample ==
    ASSUME EsamInv, SampleMiso, then = "data"
    PROVE  DataKnows' /\ AnswerKnows' /\ Len(in') <= (DataLen(got) + 1) * Bits
<1>1. /\ prog # <<>> /\ prog' = Tail(prog) /\ Op[1] = "sample"
      /\ UNCHANGED <<then, got, CMD_SENT, last, heard, answer, cmd, due>>
  BY DEF SampleMiso, chip
<1>2. PICK c : c = DataLen(got) + 1
  OBVIOUS
<1>3. PICK l : l = ReceiveBytes(c) \o Pin("cs", 1)
  OBVIOUS
<1>4. PICK src : src = answer
  OBVIOUS
<1>5. PICK p : p = Done(l)
  OBVIOUS
<1>6. /\ c * Bits \in Nat
      /\ l[3 * (c * Bits) + 1] = <<"cs", 1>>
      /\ Expects(p, c * Bits) /\ p \in Nat /\ p < 3 * (c * Bits) + 1 /\ Op = l[p + 1]
  BY <1>1, <1>2, <1>3, <1>5, DataAt
<1>7. p < 3 * (c * Bits)
  <2>1. p # 3 * (c * Bits)
    BY <1>1, <1>6
  <2>. QED  BY <1>6, <2>1
<1>8. DataKnows' /\ in' \in Seq(Bit) /\ Len(in') <= c * Bits
  <2>1. CASE DataLen(got) = DataLen(due)
    <3>1. PICK f \in Sent(due) :
            /\ src = BitsOf(f) /\ src \in Seq(Bit) /\ 5 * Bits + c * Bits = Len(src)
            /\ Listening /\ Stream(src, 5 * Bits, p)
      BY <1>1, <1>2, <1>3, <1>4, <1>5, <2>1, RightAt
    <3>2. 5 * Bits \in Nat /\ 5 * Bits + c * Bits <= Len(src)
      BY <1>6, <3>1, Consts
    <3>3. Stream(src, 5 * Bits, p + 1)' /\ Listening' /\ in' \in Seq(Bit) /\ Len(in') <= c * Bits
      BY <1>6, <1>7, <3>1, <3>2, SampleStep, Zenon
    <3>4. DataKnows'
      BY <1>1, <1>2, <1>3, <1>4, <1>5, <1>7, <2>1, <3>3, RightNext
    <3>. QED  BY <3>3, <3>4
  <2>2. CASE DataLen(got) # DataLen(due)
    <3>1. Listening /\ Taking(p)
      BY <1>1, <1>2, <1>3, <1>5, <2>2, WrongAt
    <3>2. Taking(p + 1)' /\ Listening' /\ in' \in Seq(Bit) /\ Len(in') <= c * Bits
      BY <1>6, <1>7, <3>1, TakingSample, Zenon
    <3>3. DataKnows'
      BY <1>1, <1>2, <1>3, <1>5, <1>7, <2>2, <3>2, WrongNext
    <3>. QED  BY <3>2, <3>3
  <2>. QED  BY <2>1, <2>2
<1>9. AnswerKnows /\ heard' \in Seq(Bit)
  BY <1>1 DEF EsamInv, AnswerKnows
<1>10. AnswerKnows'
  BY <1>1, <1>8, <1>9, AnswerStays
<1>. QED  BY <1>2, <1>8, <1>10

-----------------------------------------------------------------------------
(* Steps that leave the three pins, the list and the chip alone *)

LEMMA SendingSame ==
    ASSUME UNCHANGED <<in, miso, out>>, port'.clk = port.clk
    PROVE  /\ \A src, base, m, r : Sending(src, base, m, r) => Sending(src, base, m, r)'
           /\ \A src, base, p : Stream(src, base, p) => Stream(src, base, p)'
<1>1. ASSUME NEW src, NEW base, NEW m, NEW r, Sending(src, base, m, r)
      PROVE  Sending(src, base, m, r)'
  BY <1>1 DEF Sending
<1>2. ASSUME NEW src, NEW base, NEW p, Stream(src, base, p)
      PROVE  Stream(src, base, p)'
  <2>1. PICK m \in Nat, r \in 0 .. 2 : p = 3 * m + r /\ Sending(src, base, m, r)
    BY <1>2 DEF Stream
  <2>2. Sending(src, base, m, r)'
    BY <1>1, <2>1
  <2>. QED  BY <2>1, <2>2 DEF Stream
<1>. QED  BY <1>1, <1>2

LEMMA RestSame ==
    ASSUME UNCHANGED prog
    PROVE  /\ \A l : Rest(l) => Rest(l)'
           /\ \A l : Done(l)' = Done(l)
BY DEF Rest, Done

LEMMA PinsSame ==
    ASSUME EsamInv,
           UNCHANGED <<prog, then, arg, in, got, polls, CMD_SENT, last>>, UNCHANGED chip,
           port'.clk = port.clk, port'.cs = port.cs, port'.mosi = port.mosi
    PROVE  /\ prog' \in Seq(Ops) /\ AnswerKnows' /\ WriteKnows' /\ RefusedKnows' /\ CheckKnows'
           /\ PollKnows' /\ HeaderKnows' /\ DataKnows' /\ FailedKnows' /\ AtRest'
<1>1. UNCHANGED <<heard, miso, out, answer, cmd, due>>
  BY DEF chip
<1>2. Quiet' = Quiet /\ Listening' = Listening
  BY <1>1 DEF Quiet, Listening
<1>3. /\ \A l : Rest(l) => Rest(l)'
      /\ \A l : Done(l)' = Done(l)
  BY RestSame
<1>4. \A src, base, p : Stream(src, base, p) => Stream(src, base, p)'
  BY <1>1, SendingSame
<1>5. prog' \in Seq(Ops) /\ AtRest'
  BY <1>2 DEF EsamInv, AtRest
<1>6. AnswerKnows'
  BY <1>1 DEF EsamInv, AnswerKnows, Sent
<1>7. WriteKnows'
  <2>1. ASSUME NEW l, StartKnows(l)  PROVE StartKnows(l)'
    BY <1>1, <1>3, <2>1 DEF StartKnows
  <2>2. ASSUME NEW fb, NEW p, FrameKnows(fb, p)  PROVE FrameKnows(fb, p)'
    BY <1>1, <2>2 DEF FrameKnows
  <2>. SUFFICES ASSUME then' = "written"  PROVE WriteKnows'
    BY DEF WriteKnows
  <2>3. PICK fb : fb = BitsOf(Frame(arg))
    OBVIOUS
  <2>4. PICK l : l = WriteStart \o WriteFrame(arg)
    OBVIOUS
  <2>5. /\ arg \in Seq(Byte) /\ Len(arg) + 2 <= BufSize /\ Rest(l)
        /\ Done(l) <= 4 => StartKnows(l)
        /\ Done(l) \in 5 .. 5 + 3 * Len(fb) => FrameKnows(fb, Done(l) - 5)
        /\ Done(l) < 6 + 3 * Len(fb) => cmd = last
        /\ Done(l) = 6 + 3 * Len(fb) => Quiet /\ cmd = After(arg)
    BY <2>3, <2>4 DEF EsamInv, WriteKnows
  <2>8. After(arg)' = After(arg)
    BY DEF After
  <2>6. /\ arg' \in Seq(Byte) /\ Len(arg') + 2 <= BufSize /\ Rest(l)'
        /\ Done(l)' <= 4 => StartKnows(l)'
        /\ Done(l)' \in 5 .. 5 + 3 * Len(fb) => FrameKnows(fb, Done(l) - 5)'
        /\ Done(l)' < 6 + 3 * Len(fb) => cmd' = last'
        /\ Done(l)' = 6 + 3 * Len(fb) => Quiet' /\ cmd' = After(arg)'
    <3>1. PICK p : p = Done(l)
      OBVIOUS
    <3>2. p \in 5 .. 5 + 3 * Len(fb) => FrameKnows(fb, p - 5)'
      BY <2>2, <2>5, <3>1
    <3>3. Done(l)' = p
      BY <1>3, <3>1
    <3>4. Done(l)' \in 5 .. 5 + 3 * Len(fb) => FrameKnows(fb, Done(l) - 5)'
      BY <3>2, <3>3 DEF FrameKnows
    <3>. QED  BY <1>1, <1>2, <1>3, <2>1, <2>5, <2>8, <3>4
  <2>7. fb = BitsOf(Frame(arg')) /\ l = WriteStart \o WriteFrame(arg')
    BY <2>3, <2>4
  <2>. QED  BY <2>6, <2>7 DEF WriteKnows
<1>8. RefusedKnows' /\ CheckKnows' /\ FailedKnows'
  <2>1. StartKnows(WriteStart) => StartKnows(WriteStart)'
    BY <1>1, <1>3 DEF StartKnows
  <2>2. RefusedKnows'
    BY <1>3, <2>1 DEF EsamInv, RefusedKnows
  <2>3. CheckKnows' /\ FailedKnows'
    BY <1>2, <1>3 DEF EsamInv, CheckKnows, FailedKnows
  <2>. QED  BY <2>2, <2>3
<1>9. PollKnows'
  <2>1. Rest(PollList) => Rest(PollList)'
    BY <1>3
  <2>2. Done(PollList)' = Done(PollList)
    BY <1>3
  <2>. HIDE DEF PollList
  <2>. QED  BY <1>1, <1>2, <1>4, <2>1, <2>2 DEF EsamInv, PollKnows
<1>10. HeaderKnows'
  BY <1>1, <1>2, <1>3, <1>4 DEF EsamInv, HeaderKnows
<1>11. DataKnows'
  <2>. SUFFICES ASSUME then' = "data"  PROVE DataKnows'
    BY DEF DataKnows
  <2>1. PICK l : l = ReceiveBytes(DataLen(got) + 1) \o Pin("cs", 1)
    OBVIOUS
  <2>2. /\ Rest(l) /\ due \in Answers /\ got \in Seq(Byte) /\ Len(got) = 4
        /\ DataLen(got) \in Nat /\ DataLen(got) + 5 <= BufSize
        /\ DataLen(got) = DataLen(due) => RightKnows(l)
        /\ DataLen(got) # DataLen(due) => WrongKnows(l)
    BY <2>1 DEF EsamInv, DataKnows
  <2>3. ASSUME RightKnows(l)  PROVE RightKnows(l)'
    <3>1. PICK f \in Sent(due) :
                /\ got = [i \in 1 .. 4 |-> f[i + 1]]
                /\ prog # <<>> => /\ Listening /\ answer = BitsOf(f)
                                  /\ Stream(answer, 5 * Bits, Done(l))
                /\ prog = <<>> => /\ Quiet /\ Len(in) = (DataLen(got) + 1) * Bits
                                  /\ \A j \in 1 .. Len(in) : in[j] = BitsOf(f)[5 * Bits + j]
      BY <2>3 DEF RightKnows
    <3>2. f \in Sent(due)'
      BY <1>1, <3>1 DEF Sent
    <3>3. prog' # <<>> => Stream(answer, 5 * Bits, Done(l))'
      <4>1. PICK src, p : src = answer /\ p = Done(l)
        OBVIOUS
      <4>2. prog' # <<>> => Stream(src, 5 * Bits, p)'
        BY <1>4, <3>1, <4>1
      <4>3. answer' = src /\ Done(l)' = p
        BY <1>1, <1>3, <4>1
      <4>. QED  BY <4>2, <4>3, SMTT(60) DEF Stream, Sending
    <3>. QED  BY <1>1, <1>2, <3>1, <3>2, <3>3 DEF RightKnows
  <2>4. ASSUME WrongKnows(l)  PROVE WrongKnows(l)'
    <3>1. Taking(Done(l)) => Taking(Done(l))'
      BY <1>1, <1>3 DEF Taking
    <3>. QED  BY <1>1, <1>2, <2>4, <3>1 DEF WrongKnows
  <2>5. l = ReceiveBytes(DataLen(got') + 1) \o Pin("cs", 1)
    BY <2>1
  <2>6. Rest(l)' /\ due' = due
    BY <1>1, <1>3, <2>2
  <2>. QED  BY <2>2, <2>3, <2>4, <2>5, <2>6 DEF DataKnows
<1>. QED  BY <1>5, <1>6, <1>7, <1>8, <1>9, <1>10, <1>11

LEMMA PinReadStep ==
    ASSUME EsamInv, PinRead
    PROVE  EsamInv'
<1>1. /\ prog # <<>> /\ Op[1] # "sample" /\ t' = <<port>>
      /\ UNCHANGED <<port, prog, then, arg, in, got, polls, CMD_SENT, last, is_open, ret, buf, fault, n>>
      /\ UNCHANGED <<flag, level, timer, hit>> /\ UNCHANGED chip
  BY DEF PinRead, call, ir
<1>2. PortOK /\ port \in Lines
  BY DEF EsamInv, PortOK, EsamTypeOK, Lines, Bit
<1>3. PortOK'
  BY <1>1, <1>2 DEF PortOK, EsamTypeOK, DeselectedWhenIdle, Idle, IrWrongOnlyByOverlap
<1>4. HeldCopy'
  <2>1. t'[1] = port /\ t' # <<>> /\ t' \in {<<p>> : p \in Lines}
    BY <1>1, <1>2
  <2>2. Op' = Op
    BY <1>1 DEF Op
  <2>3. port.ir # level => hit
    BY <1>2 DEF PortOK, IrWrongOnlyByOverlap
  <2>. QED  BY <1>1, <2>1, <2>2, <2>3 DEF HeldCopy
<1>. QED  BY <1>1, <1>3, <1>4, PinsSame DEF EsamInv

LEMMA IrTickStep ==
    ASSUME EsamInv, IrTick
    PROVE  EsamInv'
<1>1. /\ port' = [port EXCEPT !.ir = flag] /\ level' = flag /\ flag' = 1 - flag /\ hit' = Between
      /\ UNCHANGED <<t, prog, then, arg, in, got, polls, CMD_SENT, last, is_open, ret, buf, fault, n, timer>>
      /\ UNCHANGED chip
  BY DEF IrTick, call
<1>2. PortOK /\ HeldCopy /\ port \in Lines /\ flag \in Bit
  BY DEF EsamInv, PortOK, EsamTypeOK, Lines, Bit
<1>3. /\ port' \in Lines /\ port'.ir = level'
      /\ port'.clk = port.clk /\ port'.cs = port.cs /\ port'.mosi = port.mosi
  BY <1>1, <1>2 DEF Lines
<1>4. EsamTypeOK'
  <2>1. flag' \in {0, 1} /\ level' \in {0, 1} /\ hit' \in BOOLEAN
    BY <1>1, <1>2 DEF Bit, Between
  <2>2. port' \in [ir : {0, 1}, clk : {0, 1}, cs : {0, 1}, mosi : {0, 1}]
    BY <1>3 DEF Lines, Bit
  <2>3. /\ then' \in {"idle", "written", "refused", "failed", "check", "poll", "header", "data"}
        /\ polls' \in 0 .. Polls /\ Len(in') <= Bits * BufSize /\ Len(buf') < BufSize
        /\ CMD_SENT' \in BOOLEAN /\ is_open' \in BOOLEAN /\ timer' \in BOOLEAN /\ fault' \in BOOLEAN
    BY <1>1, <1>2 DEF PortOK, EsamTypeOK
  <2>. QED  BY <2>1, <2>2, <2>3 DEF EsamTypeOK
<1>5. PortOK'
  <2>1. DeselectedWhenIdle'
    BY <1>1, <1>2, <1>3 DEF PortOK, DeselectedWhenIdle, Idle
  <2>. QED  BY <1>3, <1>4, <2>1 DEF PortOK, IrWrongOnlyByOverlap
<1>6. HeldCopy'
  <2>1. Op' = Op
    BY <1>1 DEF Op
  <2>. QED  BY <1>1, <1>2, <1>3, <2>1 DEF HeldCopy, Between
<1>. QED  BY <1>1, <1>3, <1>5, <1>6, PinsSame DEF EsamInv

LEMMA OtherStep ==
    ASSUME EsamInv,
           UNCHANGED <<port, t, prog, then, arg, in, got, polls, CMD_SENT, last, buf, fault>>,
           UNCHANGED <<flag, level, hit>>, UNCHANGED chip,
           timer' \in BOOLEAN, is_open' \in BOOLEAN
    PROVE  EsamInv'
<1>1. PortOK'
  BY DEF EsamInv, PortOK, EsamTypeOK, DeselectedWhenIdle, Idle, IrWrongOnlyByOverlap
<1>2. HeldCopy'
  BY DEF EsamInv, HeldCopy, Op
<1>. QED  BY <1>1, <1>2, PinsSame DEF EsamInv

LEMMA SwitchStep ==
    ASSUME EsamInv, IrOpen \/ IrClose \/ Open \/ Release \/ UNCHANGED vars
    PROVE  EsamInv'
<1>1. timer \in BOOLEAN /\ is_open \in BOOLEAN
  BY DEF EsamInv, PortOK, EsamTypeOK
<1>2. CASE IrOpen
  BY <1>1, <1>2, OtherStep DEF IrOpen, lines, call
<1>3. CASE IrClose
  BY <1>1, <1>3, OtherStep DEF IrClose, lines, call
<1>4. CASE Open
  BY <1>1, <1>4, OtherStep DEF Open, lines, ir
<1>5. CASE Release
  BY <1>1, <1>5, OtherStep DEF Release, lines, ir
<1>6. CASE UNCHANGED vars
  BY <1>1, <1>6, OtherStep DEF vars, lines, call, ir
<1>. QED  BY <1>2, <1>3, <1>4, <1>5, <1>6

-----------------------------------------------------------------------------
(* Steps through a list *)

LEMMA PinWriteStep ==
    ASSUME EsamInv, PinWrite
    PROVE  EsamInv'
<1>1. /\ prog \in Seq(Ops) /\ prog # <<>> /\ prog' = Tail(prog) /\ port' \in Lines
      /\ HeldCopy' /\ IrWrongOnlyByOverlap'
      /\ UNCHANGED <<then, arg, in, got, polls, CMD_SENT, is_open, ret, buf, fault, n, last>>
  BY Setting
<1>2. UNCHANGED <<flag, level, timer, hit>>
  BY DEF PinWrite, ir
<1>3. PortOK /\ AtRest
  BY DEF EsamInv
<1>4. then # "idle"
  BY <1>1, <1>3 DEF AtRest
<1>5. AtRest'
  BY <1>1, <1>3, <1>4 DEF AtRest
<1>6. EsamTypeOK'
  <2>1. port' \in [ir : {0, 1}, clk : {0, 1}, cs : {0, 1}, mosi : {0, 1}]
    BY <1>1 DEF Lines, Bit
  <2>. QED  BY <1>1, <1>2, <1>3, <2>1 DEF PortOK, EsamTypeOK
<1>7. PortOK'
  BY <1>1, <1>4, <1>6 DEF PortOK, DeselectedWhenIdle, Idle
<1>8. prog' \in Seq(Ops)
  BY <1>1
<1>9. /\ then # "written" => WriteKnows'
      /\ then # "refused" => RefusedKnows'
      /\ then # "check"   => CheckKnows'
      /\ then # "poll"    => PollKnows'
      /\ then # "header"  => HeaderKnows'
      /\ then # "data"    => DataKnows'
      /\ then # "failed"  => FailedKnows'
  BY <1>1 DEF WriteKnows, RefusedKnows, CheckKnows, PollKnows, HeaderKnows, DataKnows, FailedKnows
<1>10. then \in {"written", "refused", "failed", "check", "poll", "header", "data"}
  BY <1>3, <1>4 DEF PortOK, EsamTypeOK
<1>11. /\ then = "written" => WriteKnows' /\ AnswerKnows'
       /\ then = "refused" => RefusedKnows' /\ AnswerKnows'
       /\ then = "check"   => CheckKnows' /\ AnswerKnows'
       /\ then = "poll"    => PollKnows' /\ AnswerKnows'
       /\ then = "header"  => HeaderKnows' /\ AnswerKnows'
       /\ then = "data"    => DataKnows' /\ AnswerKnows'
       /\ then = "failed"  => FailedKnows' /\ AnswerKnows'
  BY WriteStep, RefusedStep, CheckStep, PollStep, HeaderStep, DataStep, FailedStep
<1>. QED  BY <1>1, <1>5, <1>7, <1>8, <1>9, <1>10, <1>11 DEF EsamInv

LEMMA NoSample ==
    ASSUME EsamInv, prog # <<>>, then \in {"written", "refused", "failed", "check"}
    PROVE  Op[1] # "sample"
<1>0. prog \in Seq(Ops) /\ WriteKnows /\ RefusedKnows /\ CheckKnows /\ FailedKnows
  BY DEF EsamInv
<1>1. CASE then = "written"
  <2>1. PICK fb, l : fb = BitsOf(Frame(arg)) /\ l = WriteStart \o WriteFrame(arg)
    OBVIOUS
  <2>2. arg \in Seq(Byte) /\ Rest(l)
    BY <1>0, <1>1, <2>1 DEF WriteKnows
  <2>3. /\ Len(fb) \in Nat /\ l \in Seq(Ops) /\ Len(l) = 6 + 3 * Len(fb)
        /\ l[1] = <<"mosi", 0>> /\ l[2] = <<"clk", 0>> /\ l[3] = <<"clk", 1>>
        /\ l[4] = <<"cs", 1>> /\ l[5] = <<"cs", 0>> /\ l[6 + 3 * Len(fb)] = <<"cs", 1>>
        /\ \A m \in Nat : m < Len(fb) =>
             /\ l[6 + 3 * m] = <<"clk", 0>>
             /\ l[7 + 3 * m] = <<"mosi", fb[m + 1]>>
             /\ l[8 + 3 * m] = <<"clk", 1>>
    BY ZenonT(60), <2>1, <2>2, WriteListIs
  <2>4. Done(l) \in 0 .. Len(l) /\ Op = l[Done(l) + 1] /\ Done(l) < Len(l)
    BY <1>0, <2>2, <2>3, RestNow, Zenon
  <2>5. PICK k, w : k = Done(l) + 1 /\ w = Len(fb)
    OBVIOUS
  <2>6. k \in 1 .. 6 + 3 * w /\ w \in Nat /\ Op = l[k]
    BY <2>3, <2>4, <2>5
  <2>7. CASE k \in 1 .. 5
    BY <2>3, <2>6, <2>7
  <2>8. CASE k = 6 + 3 * w
    BY <2>3, <2>5, <2>6, <2>8
  <2>9. CASE k \in 6 .. 5 + 3 * w
    <3>1. k - 5 \in 1 .. 3 * w
      BY <2>6, <2>9
    <3>2. PICK m \in Nat : m < w /\ k - 5 \in {3 * m + 1, 3 * m + 2, 3 * m + 3}
      BY <2>6, <3>1, ThirdOf
    <3>3. k \in {6 + 3 * m, 7 + 3 * m, 8 + 3 * m}
      BY <2>9, <3>2
    <3>4. l[k] \in {<<"clk", 0>>, <<"mosi", fb[m + 1]>>, <<"clk", 1>>}
      BY <2>3, <2>5, <3>2, <3>3, Zenon
    <3>. QED  BY <2>6, <3>4
  <2>. QED  BY <2>6, <2>7, <2>8, <2>9
<1>2. CASE then = "refused"
  <2>1. Rest(WriteStart)
    BY <1>0, <1>2 DEF RefusedKnows
  <2>2. /\ WriteStart \in Seq(Ops) /\ Len(WriteStart) = 4
        /\ WriteStart[1] = <<"mosi", 0>> /\ WriteStart[2] = <<"clk", 0>>
        /\ WriteStart[3] = <<"clk", 1>> /\ WriteStart[4] = <<"cs", 1>>
    BY WriteStartIs
  <2>3. Done(WriteStart) \in 0 .. Len(WriteStart) /\ Op = WriteStart[Done(WriteStart) + 1] /\ Done(WriteStart) < Len(WriteStart)
    BY <1>0, <2>1, <2>2, RestNow, Zenon
  <2>4. Done(WriteStart) + 1 \in {1, 2, 3, 4}
    BY <2>2, <2>3
  <2>. QED  BY <2>2, <2>3, <2>4
<1>3. ASSUME NEW p \in {"cs", "mosi"}, Rest(Pin(p, 1))
      PROVE  Op[1] # "sample"
  <2>1. PICK l : l = Pin(p, 1)
    OBVIOUS
  <2>2. l \in Seq(Ops) /\ Len(l) = 1 /\ l[1] = <<p, 1>>
    BY <2>1, PinIs DEF Bit
  <2>3. Rest(l)
    BY <1>3, <2>1
  <2>4. Done(l) \in 0 .. Len(l) /\ Op = l[Done(l) + 1] /\ Done(l) < Len(l)
    BY <1>0, <2>2, <2>3, RestNow, Zenon
  <2>5. Done(l) + 1 = 1
    BY <2>2, <2>4
  <2>6. Op = <<p, 1>>
    BY <2>2, <2>4, <2>5
  <2>. QED  BY <2>6
<1>4. CASE then = "check"
  BY <1>0, <1>3, <1>4 DEF CheckKnows
<1>5. CASE then = "failed"
  BY <1>0, <1>3, <1>5 DEF FailedKnows
<1>. QED  BY <1>1, <1>2, <1>4, <1>5

LEMMA SampleMisoStep ==
    ASSUME EsamInv, SampleMiso
    PROVE  EsamInv'
<1>1. /\ prog # <<>> /\ prog' = Tail(prog) /\ Op[1] = "sample"
      /\ UNCHANGED <<port, t, then, arg, got, polls, CMD_SENT, is_open, ret, buf, fault, n, last>>
      /\ UNCHANGED <<flag, level, timer, hit>> /\ UNCHANGED due
  BY DEF SampleMiso, lines, ir, chip
<1>2. PortOK /\ AtRest /\ HeldCopy /\ prog \in Seq(Ops)
  BY DEF EsamInv
<1>3. t = <<>>
  BY <1>1, <1>2 DEF HeldCopy
<1>4. then \in {"poll", "header", "data"}
  <2>1. then # "idle"
    BY <1>1, <1>2 DEF AtRest
  <2>. QED  BY <1>1, <1>2, <2>1, NoSample DEF PortOK, EsamTypeOK
<1>5. HeldCopy'
  BY <1>1, <1>3 DEF HeldCopy
<1>6. AtRest'
  BY <1>1, <1>4 DEF AtRest
<1>7. prog' \in Seq(Ops)
  BY <1>1, <1>2
<1>8. WriteKnows' /\ RefusedKnows' /\ CheckKnows' /\ FailedKnows'
  BY <1>1, <1>4 DEF WriteKnows, RefusedKnows, CheckKnows, FailedKnows
<1>9. /\ then # "poll"    => PollKnows'
      /\ then # "header"  => HeaderKnows'
      /\ then # "data"    => DataKnows'
  BY <1>1 DEF PollKnows, HeaderKnows, DataKnows
<1>10. /\ then = "poll"    => PollKnows' /\ AnswerKnows' /\ Len(in') <= Bits
       /\ then = "header"  => HeaderKnows' /\ AnswerKnows' /\ Len(in') <= 4 * Bits
       /\ then = "data"    => DataKnows' /\ AnswerKnows' /\ Len(in') <= (DataLen(got) + 1) * Bits
  BY PollSample, HeaderSample, DataSample
<1>11. AnswerKnows'
  BY <1>4, <1>10
<1>12. Len(in') \in Nat
  BY <1>11 DEF AnswerKnows
<1>13. Len(in') <= Bits * BufSize
  <2>1. ASSUME NEW a \in Nat, a <= BufSize, Len(in') <= a * Bits
        PROVE  Len(in') <= Bits * BufSize
    <3>1. a * Bits <= Bits * BufSize /\ a * Bits \in Nat /\ Bits * BufSize \in Nat
      BY <2>1, Monotone, Consts
    <3>2. \A x, y, z \in Nat : x <= y /\ y <= z => x <= z
      OBVIOUS
    <3>. QED  BY <1>12, <2>1, <3>1, <3>2, Zenon
  <2>2. CASE then = "poll"
    <3>1. Len(in') <= 1 * Bits
      BY <1>10, <2>2, Consts
    <3>. QED  BY <2>1, <3>1, Consts
  <2>3. CASE then = "header"
    BY <1>10, <2>1, <2>3, Consts
  <2>4. CASE then = "data"
    <3>1. DataLen(got) \in Nat /\ DataLen(got) + 5 <= BufSize
      BY <2>4 DEF EsamInv, DataKnows
    <3>2. DataLen(got) + 1 \in Nat /\ DataLen(got) + 1 <= BufSize
      BY <3>1, Consts
    <3>. QED  BY <1>10, <2>1, <2>4, <3>2
  <2>. QED  BY <1>4, <2>2, <2>3, <2>4
<1>14. PortOK'
  <2>1. EsamTypeOK'
    BY <1>1, <1>2, <1>13 DEF PortOK, EsamTypeOK
  <2>2. DeselectedWhenIdle' /\ IrWrongOnlyByOverlap'
    BY <1>1, <1>2, <1>4 DEF PortOK, DeselectedWhenIdle, Idle, IrWrongOnlyByOverlap
  <2>. QED  BY <2>1, <2>2 DEF PortOK
<1>. QED  BY <1>4, <1>5, <1>6, <1>7, <1>8, <1>9, <1>10, <1>14 DEF EsamInv

-----------------------------------------------------------------------------
(* Steps of a call between its lists *)

\* What such a step keeps, whatever it goes on with.
LEMMA CallStep ==
    ASSUME EsamInv, prog = <<>>, UNCHANGED <<port, t, flag, level, timer, hit, is_open>>, UNCHANGED chip,
           then' \in {"idle", "written", "refused", "failed", "check", "poll", "header", "data"},
           polls' \in 0 .. Polls, in' = <<>>, Len(buf') < BufSize, CMD_SENT' \in BOOLEAN,
           fault' \in BOOLEAN, then' = "idle" => Quiet,
           then' # "written" => cmd = last'
    PROVE  PortOK' /\ HeldCopy' /\ AnswerKnows' /\ Quiet' = Quiet /\ Listening' = Listening
<1>1. UNCHANGED <<heard, out, answer, cmd, due>>
  BY DEF chip
<1>2. PortOK /\ HeldCopy /\ AnswerKnows
  BY DEF EsamInv
<1>3. t = <<>>
  BY <1>2 DEF HeldCopy
<1>4. Quiet' = Quiet /\ Listening' = Listening
  BY <1>1 DEF Quiet, Listening
<1>5. Len(in') <= Bits * BufSize /\ in' \in Seq(Bit)
  <2>1. 0 <= Bits * BufSize
    BY Consts
  <2>2. Len(in') = 0 /\ in' \in Seq(Bit)
    OBVIOUS
  <2>. QED  BY <2>1, <2>2
<1>6. EsamTypeOK'
  BY <1>2, <1>5 DEF PortOK, EsamTypeOK
<1>7. DeselectedWhenIdle' /\ IrWrongOnlyByOverlap'
  BY <1>2, <1>4 DEF PortOK, DeselectedWhenIdle, Idle, IrWrongOnlyByOverlap, Quiet
<1>8. HeldCopy'
  BY <1>3 DEF HeldCopy
<1>9. AnswerKnows'
  BY <1>1, <1>2, <1>5 DEF AnswerKnows, Sent
<1>. QED  BY <1>4, <1>6, <1>7, <1>8, <1>9 DEF PortOK

\* A return, and a new call, are made at rest.
LEMMA ReturnStep ==
    ASSUME EsamInv, prog = <<>>, UNCHANGED <<port, t, flag, level, timer, hit, is_open>>, UNCHANGED chip,
           then' = "idle", prog' = <<>>, polls' = 0, in' = <<>>, Len(buf') < BufSize, CMD_SENT' \in BOOLEAN,
           fault' \in BOOLEAN, Quiet, cmd = last'
    PROVE  EsamInv'
<1>1. polls' \in 0 .. Polls
  BY Consts
<1>2. PortOK' /\ HeldCopy' /\ AnswerKnows' /\ Quiet'
  BY <1>1, CallStep
<1>3. prog' \in Seq(Ops)
  OBVIOUS
<1>4. WriteKnows' /\ RefusedKnows' /\ CheckKnows' /\ PollKnows' /\ HeaderKnows' /\ DataKnows' /\ FailedKnows'
  BY DEF WriteKnows, RefusedKnows, CheckKnows, PollKnows, HeaderKnows, DataKnows, FailedKnows
<1>5. AtRest'
  BY <1>2 DEF AtRest
<1>. QED  BY <1>2, <1>3, <1>4, <1>5 DEF EsamInv

LEMMA IdleKnows ==
    ASSUME EsamInv, then = "idle"
    PROVE  /\ prog = <<>> /\ Quiet /\ in = <<>> /\ polls = 0 /\ CMD_SENT \in BOOLEAN
           /\ fault \in BOOLEAN /\ 0 \in 0 .. Polls /\ Len(<<>>) < BufSize /\ cmd = last
<1>1. 0 \in 0 .. Polls /\ Len(<<>>) < BufSize
  BY Consts
<1>. QED  BY <1>1 DEF EsamInv, AtRest, AnswerKnows, PortOK, EsamTypeOK

\* What is copied from the caller is bytes, and all of them if the copy does not
\* break off.
LEMMA CopiedIs ==
    ASSUME NEW d \in Seq(Byte), NEW j \in 0 .. Len(d)
    PROVE  CopiedFrom(d, j) \in Seq(Byte) /\ Len(CopiedFrom(d, j)) = Len(d)
<1>1. Len(d) \in Nat /\ \A i \in 1 .. Len(d) : d[i] \in Byte
  OBVIOUS
<1>2. \A i \in 1 .. Len(d) : (IF i <= j THEN d[i] ELSE Zero) \in Byte
  BY <1>1, ByteValues
<1>. QED  BY <1>1, <1>2 DEF CopiedFrom

\* Calls are not mixed: a call begins when no other is under way.
LEMMA BeginIs ==
    ASSUME EsamInv, lost = "no", lost' = "no", Begin
    PROVE  /\ then = "idle" /\ prog = <<>> /\ t' = t /\ in' = <<>> /\ polls' = 0 /\ buf' = <<>>
<1>1. then = "idle" /\ prog = <<>>
  BY DEF Begin, Idle
<1>2. t = <<>>
  BY <1>1 DEF EsamInv, HeldCopy
<1>. QED  BY <1>1, <1>2 DEF Begin

LEMMA WriteCall ==
    ASSUME EsamInv, lost = "no", lost' = "no", NEW d \in Commands, Write(d)
    PROVE  EsamInv'
<1>0. d \in Seq(Byte)
  BY EsamConstants
<1>1. /\ then = "idle" /\ prog = <<>> /\ buf' = <<>> /\ in' = <<>> /\ polls' = 0
      /\ UNCHANGED <<port, t, CMD_SENT, is_open, last>> /\ UNCHANGED <<flag, level, timer, hit>>
      /\ UNCHANGED chip
  BY BeginIs DEF Write, ir
<1>2. /\ prog = <<>> /\ Quiet /\ in = <<>> /\ polls = 0 /\ CMD_SENT \in BOOLEAN
      /\ fault \in BOOLEAN /\ 0 \in 0 .. Polls /\ Len(<<>>) < BufSize /\ cmd = last
  BY <1>1, IdleKnows
<1>3. \/ prog' = WriteStart /\ then' = "refused" /\ fault' = FALSE
      \/ /\ \E j \in 0 .. Len(d) : arg' = CopiedFrom(d, j) /\ fault' = (j < Len(d))
         /\ Len(d) + 2 <= BufSize /\ prog' = WriteStart \o WriteFrame(arg') /\ then' = "written"
  BY DEF Write, Do
<1>4. PortOK' /\ HeldCopy' /\ AnswerKnows' /\ Quiet'
  <2>0. fault' \in BOOLEAN
    <3>1. fault' = FALSE \/ \E j \in 0 .. Len(d) : fault' = (j < Len(d))
      BY <1>3, Zenon
    <3>2. \A j : (j < Len(d)) \in BOOLEAN
      BY SMT
    <3>. QED  BY <3>1, <3>2
  <2>1. /\ then' \in {"idle", "written", "refused", "failed", "check", "poll", "header", "data"}
        /\ then' # "idle"
    BY <1>3
  <2>2. polls' \in 0 .. Polls /\ Len(buf') < BufSize /\ CMD_SENT' \in BOOLEAN /\ cmd = last'
    BY <1>1, <1>2
  <2>. QED  BY <1>1, <1>2, <2>0, <2>1, <2>2, CallStep
<1>5. /\ CheckKnows' /\ PollKnows' /\ HeaderKnows' /\ DataKnows' /\ FailedKnows' /\ AtRest'
      /\ then' = "refused" => WriteKnows'
      /\ then' = "written" => RefusedKnows'
  <2>1. then' \in {"refused", "written"}
    BY <1>3
  <2>. QED  BY <1>1, <2>1
            DEF WriteKnows, RefusedKnows, CheckKnows, PollKnows, HeaderKnows, DataKnows, FailedKnows, AtRest
<1>6. ASSUME NEW l, Done(l)' = 0  PROVE StartKnows(l)'
  BY <1>4, <1>6 DEF StartKnows, Quiet
<1>7. CASE prog' = WriteStart /\ then' = "refused"
  <2>1. WriteStart \in Seq(Ops)
    BY WriteStartIs
  <2>2. Rest(WriteStart)' /\ Done(WriteStart)' = 0 /\ prog' \in Seq(Ops)
    BY <1>7, <2>1, RestNew, Zenon
  <2>3. StartKnows(WriteStart)'
    BY <1>6, <2>2
  <2>. QED  BY <1>4, <1>5, <1>7, <2>2, <2>3 DEF EsamInv, RefusedKnows
<1>8. ASSUME NEW j \in 0 .. Len(d), arg' = CopiedFrom(d, j), Len(d) + 2 <= BufSize,
             prog' = WriteStart \o WriteFrame(arg'), then' = "written"
      PROVE  EsamInv'
  <2>1. PICK a : a = CopiedFrom(d, j)
    OBVIOUS
  <2>2. a \in Seq(Byte) /\ Len(a) = Len(d) /\ arg' = a
    BY <1>0, <1>8, <2>1, CopiedIs, Zenon
  <2>3. PICK fb, l : fb = BitsOf(Frame(a)) /\ l = WriteStart \o WriteFrame(a)
    OBVIOUS
  <2>4. l \in Seq(Ops) /\ Len(fb) \in Nat
    BY <2>2, <2>3, WriteListIs
  <2>5. prog' = l
    BY <1>8, <2>2, <2>3
  <2>6. Rest(l)' /\ Done(l)' = 0 /\ prog' \in Seq(Ops)
    BY <2>4, <2>5, RestNew, Zenon
  <2>7. StartKnows(l)'
    BY <1>6, <2>6
  <2>8. Len(a) + 2 <= BufSize
    BY <1>8, <2>2
  <2>9. ~ (0 \in 5 .. 5 + 3 * Len(fb)) /\ 0 # 6 + 3 * Len(fb)
    BY <2>4
  <2>10. cmd' = last'
    BY <1>1, <1>2 DEF chip
  <2>11. WriteKnows'
    BY <1>8, <2>2, <2>3, <2>6, <2>7, <2>8, <2>9, <2>10 DEF WriteKnows
  <2>. QED  BY <1>4, <1>5, <1>8, <2>6, <2>11 DEF EsamInv
<1>. QED  BY <1>3, <1>7, <1>8

\* At the end of its list a write has delivered the command.
LEMMA WriteEnd ==
    ASSUME EsamInv, then = "written", prog = <<>>
    PROVE  Quiet /\ cmd = After(arg)
<1>1. PICK fb, l : fb = BitsOf(Frame(arg)) /\ l = WriteStart \o WriteFrame(arg)
  OBVIOUS
<1>2. prog \in Seq(Ops) /\ arg \in Seq(Byte) /\ Rest(l) /\ (Done(l) = 6 + 3 * Len(fb) => Quiet /\ cmd = After(arg))
  BY <1>1 DEF EsamInv, WriteKnows
<1>3. l \in Seq(Ops) /\ Len(l) = 6 + 3 * Len(fb)
  BY <1>1, <1>2, WriteListIs
<1>4. prog = <<>> <=> Done(l) = Len(l)
  BY <1>2, <1>3, RestNow, Zenon
<1>. QED  BY <1>2, <1>3, <1>4

LEMMA EndWriteStep ==
    ASSUME EsamInv, EndWrite
    PROVE  EsamInv'
<1>1. /\ then = "written" /\ prog = <<>> /\ CMD_SENT' = TRUE
      /\ last' = (IF arg = <<>> THEN last ELSE arg)
      /\ prog' = <<>> /\ then' = "idle" /\ in' = <<>> /\ polls' = 0
      /\ UNCHANGED <<port, t, is_open, buf, fault>> /\ UNCHANGED <<flag, level, timer, hit>> /\ UNCHANGED chip
  BY DEF EndWrite, At, Return, Do, lines, ir
<1>2. Quiet /\ cmd = last'
  BY <1>1, WriteEnd DEF After
<1>3. Len(buf') < BufSize /\ fault' \in BOOLEAN
  BY <1>1 DEF EsamInv, PortOK, EsamTypeOK
<1>. QED  BY <1>1, <1>2, <1>3, ReturnStep

LEMMA FailedCall ==
    ASSUME EsamInv, Failed
    PROVE  EsamInv'
<1>1. /\ then = "failed" \/ then = "refused"
      /\ prog = <<>> /\ prog' = <<>> /\ then' = "idle" /\ in' = <<>> /\ polls' = 0
      /\ UNCHANGED <<port, t, CMD_SENT, is_open, buf, fault, last>> /\ UNCHANGED <<flag, level, timer, hit>>
      /\ UNCHANGED chip
  BY DEF Failed, At, Return, Do, lines, ir
<1>2. Quiet
  <2>1. CASE then = "failed"
    BY <1>1, <2>1 DEF EsamInv, FailedKnows
  <2>2. CASE then = "refused"
    <3>1. Rest(WriteStart) /\ StartKnows(WriteStart) /\ prog \in Seq(Ops)
      BY <2>2 DEF EsamInv, RefusedKnows
    <3>2. WriteStart \in Seq(Ops) /\ Len(WriteStart) = 4
      BY WriteStartIs
    <3>3. prog = <<>> <=> Done(WriteStart) = Len(WriteStart)
      BY <3>1, <3>2, RestNow, Zenon
    <3>4. Done(WriteStart) # 2
      BY <1>1, <3>2, <3>3
    <3>. QED  BY <3>1, <3>4 DEF StartKnows, Quiet
  <2>. QED  BY <1>1, <2>1, <2>2
<1>3. Len(buf') < BufSize /\ CMD_SENT' \in BOOLEAN /\ fault' \in BOOLEAN
  BY <1>1 DEF EsamInv, PortOK, EsamTypeOK
<1>4. cmd = last'
  BY <1>1 DEF EsamInv, AnswerKnows
<1>. QED  BY <1>1, <1>2, <1>3, <1>4, ReturnStep

LEMMA ReadCall ==
    ASSUME EsamInv, lost = "no", lost' = "no", NEW c \in Counts, Read(c)
    PROVE  EsamInv'
<1>1. /\ then = "idle" /\ arg' = c /\ buf' = <<>> /\ prog' = Pin("mosi", 1) /\ then' = "check"
      /\ in' = <<>> /\ polls' = 0 /\ fault' = FALSE
      /\ UNCHANGED <<port, t, CMD_SENT, is_open, last>> /\ UNCHANGED <<flag, level, timer, hit>>
      /\ UNCHANGED chip
  BY BeginIs DEF Read, Do, ir
<1>2. /\ prog = <<>> /\ Quiet /\ in = <<>> /\ polls = 0 /\ CMD_SENT \in BOOLEAN
      /\ fault \in BOOLEAN /\ 0 \in 0 .. Polls /\ Len(<<>>) < BufSize /\ cmd = last
  BY <1>1, IdleKnows
<1>3. PortOK' /\ HeldCopy' /\ AnswerKnows' /\ Quiet'
  <2>1. /\ then' \in {"idle", "written", "refused", "failed", "check", "poll", "header", "data"}
        /\ polls' \in 0 .. Polls /\ in' = <<>> /\ Len(buf') < BufSize /\ CMD_SENT' \in BOOLEAN
        /\ then' # "idle" /\ (then' # "written" => cmd = last') /\ fault' \in BOOLEAN
    BY <1>1, <1>2
  <2>2. /\ UNCHANGED <<port, t, flag, level, timer, hit, is_open>> /\ UNCHANGED chip /\ prog = <<>>
    BY <1>1, <1>2
  <2>. QED  BY <1>1, <1>2, <2>1, <2>2, CallStep
<1>4. arg' \in Nat
  BY <1>1, Consts
<1>5. WriteKnows' /\ RefusedKnows' /\ PollKnows' /\ HeaderKnows' /\ DataKnows' /\ FailedKnows' /\ AtRest'
  BY <1>1, <1>2, <1>4 DEF WriteKnows, RefusedKnows, PollKnows, HeaderKnows, DataKnows, FailedKnows, AtRest
<1>6. PICK l : l = Pin("mosi", 1)
  OBVIOUS
<1>7. l \in Seq(Ops) /\ Len(l) = 1
  BY <1>6, PinIs DEF Bit
<1>8. prog' = l /\ prog' # <<>>
  BY <1>1, <1>6, <1>7
<1>9. Rest(l)' /\ prog' \in Seq(Ops)
  BY <1>7, <1>8, RestNew, Zenon
<1>10. CheckKnows'
  BY <1>3, <1>6, <1>8, <1>9 DEF CheckKnows
<1>. QED  BY <1>3, <1>5, <1>9, <1>10 DEF EsamInv

LEMMA ReadCheckStep ==
    ASSUME EsamInv, ReadCheck
    PROVE  EsamInv'
<1>1. /\ then = "check" /\ prog = <<>>
      /\ UNCHANGED <<port, t, CMD_SENT, is_open, last>> /\ UNCHANGED <<flag, level, timer, hit>> /\ UNCHANGED chip
  BY DEF ReadCheck, At, lines, ir
<1>2. /\ Quiet /\ port.mosi = 1 /\ in = <<>> /\ polls = 0 /\ arg \in Nat /\ CMD_SENT \in BOOLEAN
      /\ Len(buf) < BufSize /\ fault \in BOOLEAN /\ cmd = last
  BY <1>1 DEF EsamInv, CheckKnows, AtRest, PortOK, EsamTypeOK, AnswerKnows
<1>5. \/ Return(EIO) /\ UNCHANGED <<buf, fault>>
      \/ CMD_SENT /\ prog' = PollList /\ then' = "poll" /\ UNCHANGED <<buf, fault, in, polls>>
      \/ /\ ~ CMD_SENT
         /\ CopyTo([i \in 1 .. (IF arg > 5 THEN 5 ELSE arg) |-> Zero])
         /\ \E r \in (IF arg >= 4 /\ ~ fault' THEN {4} ELSE OwnBytes) : Return(r)
  BY DEF ReadCheck, Do, PollList
<1>6. CASE Return(EIO) /\ UNCHANGED <<buf, fault>>
  <2>1. prog' = <<>> /\ then' = "idle" /\ in' = <<>> /\ polls' = 0 /\ UNCHANGED <<buf, fault>>
    BY <1>6 DEF Return, Do
  <2>. QED  BY <1>1, <1>2, <2>1, ReturnStep
<1>3. CASE CMD_SENT /\ prog' = PollList /\ then' = "poll" /\ UNCHANGED <<buf, fault, in, polls>>
  <2>1. prog' = PollList /\ then' = "poll" /\ UNCHANGED <<buf, fault, in, polls>>
    BY <1>3
  <2>2. polls' \in 0 .. Polls /\ polls' < Polls
    BY <1>2, <2>1, Consts
  <2>3. PortOK' /\ HeldCopy' /\ AnswerKnows' /\ Quiet'
    <3>1. /\ then' \in {"idle", "written", "refused", "failed", "check", "poll", "header", "data"}
          /\ polls' \in 0 .. Polls /\ in' = <<>> /\ Len(buf') < BufSize /\ CMD_SENT' \in BOOLEAN
          /\ then' # "idle" /\ (then' # "written" => cmd = last') /\ fault' \in BOOLEAN
      BY <1>1, <1>2, <2>1, <2>2
    <3>2. /\ UNCHANGED <<port, t, flag, level, timer, hit, is_open>> /\ UNCHANGED chip /\ prog = <<>>
      BY <1>1, <1>2, <2>1, <2>2
    <3>. QED  BY <1>1, <1>2, <2>1, <2>2, <3>1, <3>2, CallStep
  <2>4. PICK l : l = PollList
    OBVIOUS
  <2>5. l \in Seq(Ops)
    BY <2>4, PollListIs
  <2>6. prog' = l
    BY <2>1, <2>4
  <2>7. Rest(l)' /\ Done(l)' = 0 /\ prog' \in Seq(Ops)
    BY <2>5, <2>6, RestNew, Zenon
  <2>8. PollKnows'
    BY <1>1, <1>2, <1>3, <2>1, <2>2, <2>3, <2>4, <2>7 DEF PollKnows
  <2>9. WriteKnows' /\ RefusedKnows' /\ CheckKnows' /\ HeaderKnows' /\ DataKnows' /\ FailedKnows' /\ AtRest'
    BY <2>1 DEF WriteKnows, RefusedKnows, CheckKnows, HeaderKnows, DataKnows, FailedKnows, AtRest
  <2>. QED  BY <2>3, <2>7, <2>8, <2>9 DEF EsamInv
<1>4. CASE /\ ~ CMD_SENT
           /\ CopyTo([i \in 1 .. (IF arg > 5 THEN 5 ELSE arg) |-> Zero])
           /\ \E r \in (IF arg >= 4 /\ ~ fault' THEN {4} ELSE OwnBytes) : Return(r)
  <2>1. /\ buf' \in {<<>>, [i \in 1 .. (IF arg > 5 THEN 5 ELSE arg) |-> Zero]}
        /\ fault' \in BOOLEAN
    BY <1>2, <1>4 DEF CopyTo
  <2>2. prog' = <<>> /\ then' = "idle" /\ in' = <<>> /\ polls' = 0
    BY <1>4 DEF Return, Do
  <2>3. Len(buf') < BufSize
    <3>1. PICK x : x = IF arg > 5 THEN 5 ELSE arg
      OBVIOUS
    <3>2. x \in Nat /\ x <= 5
      BY <1>2, <3>1
    <3>3. buf' = <<>> \/ buf' = [i \in 1 .. x |-> Zero]
      BY <2>1, <3>1
    <3>4. Len(buf') = 0 \/ Len(buf') = x
      BY <3>2, <3>3
    <3>. QED  BY <3>2, <3>4, Consts
  <2>. QED  BY <1>1, <1>2, <2>1, <2>2, <2>3, ReturnStep
<1>. QED  BY <1>3, <1>4, <1>5, <1>6

\* At the end of the list of a poll: a byte of the wait, or the first of the answer.
LEMMA PollEnd ==
    ASSUME EsamInv, then = "poll", prog = <<>>
    PROVE  /\ CMD_SENT /\ polls < Polls /\ Listening /\ port.clk = 1 /\ cmd = last
           /\ \/ BytesOf(in)[1] = Zero /\ out = <<>>
              \/ /\ BytesOf(in)[1] = HEAD /\ answer # <<>>
                 /\ out = SubSeq(answer, Bits + 1, Len(answer))
<1>1. PICK l : l = PollList
  OBVIOUS
<1>2. /\ CMD_SENT /\ polls < Polls /\ Rest(l) /\ prog \in Seq(Ops) /\ AnswerKnows
      /\ Done(l) > 0 => /\ Listening
                        /\ \E src \in {BitsOf(<<Zero>>), answer} \ {<<>>} : Stream(src, 0, Done(l) - 1)
  BY <1>1 DEF EsamInv, PollKnows
<1>3. l \in Seq(Ops) /\ Len(l) = 1 + 3 * Bits
  BY <1>1, PollListIs
<1>4. prog = <<>> <=> Done(l) = Len(l)
  BY <1>2, <1>3, RestNow, Zenon
<1>5. Done(l) > 0 /\ Done(l) - 1 = 3 * Bits
  BY <1>3, <1>4, Consts
<1>6. PICK src \in {BitsOf(<<Zero>>), answer} \ {<<>>} : Stream(src, 0, 3 * Bits)
  BY <1>2, <1>5
<1>7. 0 \in Nat /\ Bits \in Nat
  BY Consts
<1>8. Sending(src, 0, Bits, 0)
  BY <1>6, <1>7, StreamAt, Zenon
<1>9. /\ port.clk = 1 /\ Len(in) = Bits /\ \A j \in 1 .. Len(in) : in[j] = src[0 + j]
      /\ out = SubSeq(src, (0 + Bits + 0) + 1, Len(src))
  BY <1>8, Consts DEF Sending
<1>10. 0 * Bits = 0 /\ 1 * Bits = Bits /\ 0 + Bits + 0 = Bits
  BY Consts
<1>11. in \in Seq(Bit) /\ cmd = last
  BY <1>2 DEF AnswerKnows
<1>12. ASSUME NEW f \in Seq(Byte), Len(f) >= 1, src = BitsOf(f)
       PROVE  BytesOf(in)[1] = f[1]
  <2>1. \A j \in 1 .. Len(in) : in[j] = BitsOf(f)[0 * Bits + j]
    BY <1>9, <1>10, <1>12
  <2>2. 0 + 1 <= Len(f) /\ 0 \in Nat /\ 1 \in Nat /\ Len(in) = 1 * Bits
    BY <1>9, <1>10, <1>12
  <2>3. \A i \in 1 .. 1 : BytesOf(in)[i] = f[0 + i]
    <3>1. PICK s : s = in
      OBVIOUS
    <3>2. \A i \in 1 .. 1 : BytesOf(s)[i] = f[0 + i]
      BY <1>11, <2>1, <2>2, <3>1, BytesReceived
    <3>. QED  BY <3>1, <3>2
  <2>. QED  BY <2>3
<1>13. \/ src = BitsOf(<<Zero>>) /\ Len(src) = Bits
       \/ src = answer /\ due \in Answers /\ \E f \in Sent(due) : answer = BitsOf(f)
  BY <1>2, SourceBits
<1>14. CASE src = BitsOf(<<Zero>>) /\ Len(src) = Bits
  <2>0. PICK f : f = <<Zero>>
    OBVIOUS
  <2>1. f \in Seq(Byte) /\ Len(f) >= 1 /\ f[1] = Zero /\ src = BitsOf(f)
    BY <1>14, <2>0, ByteValues
  <2>2. BytesOf(in)[1] = Zero
    BY <1>12, <2>1, Zenon
  <2>3. out = SubSeq(src, Bits + 1, Bits)
    BY <1>9, <1>10, <1>14
  <2>4. src \in Seq(Bit)
    BY <1>2, SourceBits
  <2>5. out = <<>>
    BY <2>3, <2>4, Consts
  <2>. QED  BY <1>2, <1>5, <1>9, <1>11, <2>2, <2>5
<1>15. CASE src = answer /\ due \in Answers /\ \E f \in Sent(due) : answer = BitsOf(f)
  <2>1. PICK f \in Sent(due) : answer = BitsOf(f)
    BY <1>15
  <2>2. f \in Seq(Byte) /\ Len(f) >= 1 /\ f[1] = HEAD
    <3>1. f \in Seq(Byte) /\ Len(f) = Len(due) + 2 /\ f[1] = HEAD /\ Len(due) \in Nat
      BY <1>15, SentIs
    <3>. QED  BY <3>1
  <2>3. BytesOf(in)[1] = HEAD
    BY <1>12, <1>15, <2>1, <2>2
  <2>. QED  BY <1>2, <1>5, <1>6, <1>9, <1>10, <1>11, <1>15, <2>3
<1>. QED  BY <1>13, <1>14, <1>15

LEMMA ReadPollStep ==
    ASSUME EsamInv, ReadPoll
    PROVE  EsamInv'
<1>1. /\ then = "poll" /\ prog = <<>> /\ in' = <<>>
      /\ UNCHANGED <<port, t, CMD_SENT, is_open, last, buf, fault, got, arg>>
      /\ UNCHANGED <<flag, level, timer, hit>> /\ UNCHANGED chip
      /\ \/ /\ BytesOf(in)[1] = HEAD /\ prog' = ReceiveBytes(4) /\ then' = "header" /\ polls' = polls
         \/ /\ BytesOf(in)[1] # HEAD /\ polls' = polls + 1 /\ polls' >= Polls
            /\ prog' = Pin("cs", 1) /\ then' = "failed"
         \/ /\ BytesOf(in)[1] # HEAD /\ polls' = polls + 1 /\ ~ (polls' >= Polls)
            /\ prog' = ReceiveBytes(1) /\ then' = "poll"
  BY DEF ReadPoll, At, Do, lines, ir
<1>2. /\ CMD_SENT /\ polls < Polls /\ Listening /\ port.clk = 1 /\ cmd = last
      /\ \/ BytesOf(in)[1] = Zero /\ out = <<>>
         \/ /\ BytesOf(in)[1] = HEAD /\ answer # <<>>
            /\ out = SubSeq(answer, Bits + 1, Len(answer))
  BY <1>1, PollEnd
<1>3. /\ polls \in Nat /\ polls' \in 0 .. Polls /\ Len(buf) < BufSize /\ CMD_SENT \in BOOLEAN
      /\ fault \in BOOLEAN
  <2>1. polls \in 0 .. Polls /\ Len(buf) < BufSize /\ CMD_SENT \in BOOLEAN /\ fault \in BOOLEAN
    BY DEF EsamInv, PortOK, EsamTypeOK
  <2>. QED  BY <1>1, <1>2, <2>1, Consts
<1>4. PortOK' /\ HeldCopy' /\ AnswerKnows' /\ Listening'
  <2>1. /\ then' \in {"idle", "written", "refused", "failed", "check", "poll", "header", "data"}
        /\ polls' \in 0 .. Polls /\ in' = <<>> /\ Len(buf') < BufSize /\ CMD_SENT' \in BOOLEAN
        /\ then' # "idle" /\ (then' # "written" => cmd = last') /\ fault' \in BOOLEAN
    BY <1>1, <1>2, <1>3
  <2>2. /\ UNCHANGED <<port, t, flag, level, timer, hit, is_open>> /\ UNCHANGED chip /\ prog = <<>>
    BY <1>1
  <2>. QED  BY <1>2, <2>1, <2>2, CallStep
<1>5. WriteKnows' /\ RefusedKnows' /\ CheckKnows' /\ DataKnows' /\ AtRest'
  BY <1>1 DEF WriteKnows, RefusedKnows, CheckKnows, DataKnows, AtRest
<1>6. UNCHANGED <<heard, miso, out, answer, cmd, due>>
  BY <1>1 DEF chip
<1>7. CASE BytesOf(in)[1] = HEAD /\ prog' = ReceiveBytes(4) /\ then' = "header"
  <2>1. PICK l, src : l = ReceiveBytes(4) /\ src = answer
    OBVIOUS
  <2>2. l \in Seq(Ops) /\ prog' = l
    BY <1>7, <2>1, ReceiveIs
  <2>3. Rest(l)' /\ Done(l)' = 0 /\ prog' \in Seq(Ops)
    BY <2>2, RestNew, Zenon
  <2>4. answer # <<>> /\ out = SubSeq(src, Bits + 1, Len(src))
    BY <1>2, <1>7, <2>1, ByteValues
  <2>5. Sending(src, Bits, 0, 0)'
    <3>2. Len(in') = 0 /\ port'.clk = 1 /\ out' = SubSeq(src, Bits + 1, Len(src))
      BY <1>1, <1>2, <1>6, <2>4
    <3>3. PICK c : c = Bits + 0 + (IF 0 = 0 THEN 0 ELSE 1)
      OBVIOUS
    <3>4. c = Bits /\ c # 0
      BY <3>3, Consts
    <3>5. \A j \in 1 .. Len(in') : in'[j] = src[Bits + j]
      BY <3>2
    <3>6. IF c = 0 THEN out' = <<>> ELSE out' = SubSeq(src, c + 1, Len(src))
      BY <3>2, <3>4
    <3>. QED  BY <3>2, <3>3, <3>4, <3>5, <3>6, Consts DEF Sending
  <2>6. Stream(src, Bits, 0)'
    BY <2>5 DEF Stream
  <2>7. answer' = src /\ Done(ReceiveBytes(4))' = 0
    BY <1>6, <2>1, <2>3
  <2>8. Stream(answer, Bits, Done(ReceiveBytes(4)))'
    BY <2>6, <2>7 DEF Stream, Sending
  <2>9. HeaderKnows'
    BY <1>1, <1>2, <1>4, <1>6, <2>1, <2>3, <2>4, <2>8 DEF HeaderKnows
  <2>10. PollKnows' /\ FailedKnows'
    BY <1>7 DEF PollKnows, FailedKnows
  <2>. QED  BY <1>4, <1>5, <2>3, <2>9, <2>10 DEF EsamInv
<1>8. CASE prog' = Pin("cs", 1) /\ then' = "failed"
  <2>1. PICK l : l = Pin("cs", 1)
    OBVIOUS
  <2>2. l \in Seq(Ops) /\ Len(l) = 1
    BY <2>1, PinIs DEF Bit
  <2>3. prog' = l /\ prog' # <<>>
    BY <1>8, <2>1, <2>2
  <2>4. Rest(l)' /\ prog' \in Seq(Ops)
    BY <2>2, <2>3, RestNew, Zenon
  <2>5. FailedKnows'
    BY <1>1, <1>2, <1>4, <2>1, <2>3, <2>4 DEF FailedKnows
  <2>6. PollKnows' /\ HeaderKnows'
    BY <1>8 DEF PollKnows, HeaderKnows
  <2>. QED  BY <1>4, <1>5, <2>4, <2>5, <2>6 DEF EsamInv
<1>9. CASE BytesOf(in)[1] # HEAD /\ ~ (polls' >= Polls) /\ prog' = ReceiveBytes(1) /\ then' = "poll"
  <2>1. PICK l, b, src : l = PollList /\ b = ReceiveBytes(1) /\ src = BitsOf(<<Zero>>)
    OBVIOUS
  <2>2. /\ l \in Seq(Ops) /\ Len(l) = 1 + 3 * Bits
        /\ \A m \in Nat : m < Bits =>
            /\ l[1 + (3 * m + 1)] = <<"clk", 0>>
            /\ l[1 + (3 * m + 2)] = <<"sample", 0>>
            /\ l[1 + (3 * m + 3)] = <<"clk", 1>>
    BY <2>1, PollListIs
  <2>3. 1 * Bits = Bits /\ Bits \in Nat /\ 0 < Bits
    BY Consts
  <2>4. /\ b \in Seq(Ops) /\ Len(b) = 3 * Bits
        /\ \A m \in Nat : m < Bits => /\ b[3 * m + 1] = <<"clk", 0>> /\ b[3 * m + 2] = <<"sample", 0>>
                                      /\ b[3 * m + 3] = <<"clk", 1>>
    BY <2>1, <2>3, ReceiveIs
  <2>5. ASSUME NEW k \in 1 .. 3 * Bits  PROVE b[k] = l[1 + k]
    <3>1. PICK m \in Nat : m < Bits /\ k \in {3 * m + 1, 3 * m + 2, 3 * m + 3}
      BY <2>3, <2>5, ThirdOf
    <3>. QED  BY <2>2, <2>4, <3>1, Zenon
  <2>6. prog' = b /\ Len(prog') = 3 * Bits /\ prog' \in Seq(Ops)
    BY <1>9, <2>1, <2>4
  <2>7. Rest(l)' /\ Done(l)' = 1
    <3>1. Len(l) - Len(prog') = 1 /\ Len(prog') <= Len(l)
      BY <2>2, <2>3, <2>6
    <3>2. \A k \in 1 .. Len(prog') : prog'[k] = l[Len(l) - Len(prog') + k]
      BY <2>5, <2>6, <3>1
    <3>. QED  BY <3>1, <3>2 DEF Rest, Done
  <2>8. src # <<>>
    <3>1. <<Zero>> \in Seq(Byte) /\ Len(<<Zero>>) = 1
      BY ByteValues
    <3>2. Len(src) = 1 * Bits
      BY <2>1, <3>1, BitsOfIs
    <3>. QED  BY <2>3, <3>2
  <2>9. out = <<>>
    BY <1>2, <1>9
  <2>10. Sending(src, 0, 0, 0)'
    BY <1>1, <1>2, <1>6, <2>9 DEF Sending
  <2>11. Stream(src, 0, 0)'
    BY <2>10 DEF Stream
  <2>12. Done(PollList)' # 0 /\ Done(PollList)' - 1 = 0 /\ Rest(PollList)'
    BY <2>1, <2>7
  <2>13. Stream(src, 0, Done(PollList) - 1)'
    BY <2>11, <2>12 DEF Stream
  <2>14. polls' < Polls
    BY <1>3, <1>9, Consts
  <2>15. PollKnows'
    BY <1>1, <1>2, <1>4, <2>1, <2>8, <2>12, <2>13, <2>14 DEF PollKnows
  <2>16. HeaderKnows' /\ FailedKnows'
    BY <1>9 DEF HeaderKnows, FailedKnows
  <2>. QED  BY <1>4, <1>5, <2>6, <2>15, <2>16 DEF EsamInv
<1>. QED  BY <1>1, <1>7, <1>8, <1>9

\* At the end of its list a header is bytes two to five of what the chip sends.
LEMMA HeaderEnd ==
    ASSUME EsamInv, then = "header", prog = <<>>
    PROVE  /\ CMD_SENT /\ Listening /\ port.clk = 1 /\ cmd = last /\ due \in Answers
           /\ out = SubSeq(answer, 5 * Bits + 1, Len(answer))
           /\ \E f \in Sent(due) : /\ answer = BitsOf(f)
                                   /\ BytesOf(in) = [i \in 1 .. 4 |-> f[i + 1]]
<1>1. PICK l : l = ReceiveBytes(4)
  OBVIOUS
<1>2. PICK src : src = answer
  OBVIOUS
<1>3. /\ CMD_SENT /\ Rest(l) /\ Listening /\ prog \in Seq(Ops) /\ l \in Seq(Ops)
      /\ Len(l) = 3 * (4 * Bits) /\ 4 * Bits \in Nat
      /\ due \in Answers /\ \E f \in Sent(due) : src = BitsOf(f)
      /\ Stream(src, Bits, Done(l))
  BY <1>1, <1>2, HeaderAt
<1>4. prog = <<>> <=> Done(l) = Len(l)
  BY <1>3, RestNow, Zenon
<1>5. Stream(src, Bits, 3 * (4 * Bits))
  BY <1>3, <1>4
<1>6. Bits \in Nat
  BY Consts
<1>7. Sending(src, Bits, 4 * Bits, 0)
  BY <1>3, <1>5, <1>6, StreamAt, Zenon
<1>8. /\ port.clk = 1 /\ Len(in) = 4 * Bits /\ \A j \in 1 .. Len(in) : in[j] = src[Bits + j]
      /\ out = SubSeq(src, 5 * Bits + 1, Len(src))
  <2>1. PICK c : c = Bits + 4 * Bits + (IF 0 = 0 THEN 0 ELSE 1)
    OBVIOUS
  <2>2. c = 5 * Bits /\ c # 0
    BY <2>1, Consts
  <2>3. /\ port.clk = 1 /\ Len(in) = 4 * Bits /\ \A j \in 1 .. Len(in) : in[j] = src[Bits + j]
        /\ IF c = 0 THEN out = <<>> ELSE out = SubSeq(src, c + 1, Len(src))
    BY <1>7, <2>1 DEF Sending
  <2>. QED  BY <2>2, <2>3
<1>9. in \in Seq(Bit) /\ cmd = last
  BY <1>3 DEF EsamInv, AnswerKnows
<1>10. PICK f \in Sent(due) : src = BitsOf(f)
  BY <1>3
<1>11. f \in Seq(Byte) /\ Len(f) = Len(due) + 2 /\ Len(due) \in Nat /\ Len(due) >= 4
  BY <1>3, SentIs
<1>12. PICK s : s = in
  OBVIOUS
<1>13. s \in Seq(Bit) /\ Len(s) = 4 * Bits /\ \A j \in 1 .. Len(s) : s[j] = BitsOf(f)[1 * Bits + j]
  <2>1. 1 * Bits = Bits
    BY Consts
  <2>. QED  BY <1>8, <1>9, <1>10, <1>12, <2>1
<1>14. 1 + 4 <= Len(f) /\ 1 \in Nat /\ 4 \in Nat
  BY <1>11
<1>15. \A i \in 1 .. 4 : BytesOf(s)[i] = f[1 + i]
  BY <1>11, <1>13, <1>14, BytesReceived, ZenonT(60)
<1>16. BytesOf(s) \in Seq(Byte) /\ Len(BytesOf(s)) = 4
  BY <1>13, <1>14, BytesOfIs, Zenon
<1>17. BytesOf(s) = [i \in 1 .. 4 |-> f[i + 1]]
  <2>1. PICK b : b = BytesOf(s)
    OBVIOUS
  <2>2. b \in Seq(Byte) /\ Len(b) = 4 /\ \A i \in 1 .. 4 : b[i] = f[i + 1]
    BY <1>15, <1>16, <2>1
  <2>3. b = [i \in 1 .. 4 |-> b[i]]
    BY <2>2
  <2>. QED  BY <2>1, <2>2, <2>3
<1>. QED  BY <1>2, <1>3, <1>8, <1>9, <1>10, <1>12, <1>17

LEMMA ReadHeaderStep ==
    ASSUME EsamInv, lost' = "no", ReadHeader
    PROVE  EsamInv'
<1>1. /\ then = "header" /\ prog = <<>> /\ in' = <<>> /\ got' = BytesOf(in)
      /\ UNCHANGED <<port, t, CMD_SENT, is_open, last, polls, arg>>
      /\ UNCHANGED <<flag, level, timer, hit>> /\ UNCHANGED chip
      /\ \/ prog' = Pin("cs", 1) /\ then' = "failed"
         \/ /\ prog' = ReceiveBytes(DataLen(got') + 1) \o Pin("cs", 1) /\ then' = "data"
            /\ DataLen(got') \in 0 .. arg - 4 /\ ~ (DataLen(got') + 5 > BufSize)
  BY DEF ReadHeader, At, Do, lines, ir
<1>11. buf' \in {BytesOf(in), <<>>} /\ fault' \in {fault, TRUE}
  BY DEF ReadHeader, CopyTo
<1>2. /\ CMD_SENT /\ Listening /\ port.clk = 1 /\ cmd = last /\ due \in Answers
      /\ out = SubSeq(answer, 5 * Bits + 1, Len(answer))
      /\ \E f \in Sent(due) : /\ answer = BitsOf(f)
                              /\ BytesOf(in) = [i \in 1 .. 4 |-> f[i + 1]]
  BY <1>1, HeaderEnd
<1>3. PICK f \in Sent(due) : answer = BitsOf(f) /\ BytesOf(in) = [i \in 1 .. 4 |-> f[i + 1]]
  BY <1>2
<1>4. Len(buf') < BufSize
  <2>1. buf' = [i \in 1 .. 4 |-> f[i + 1]] \/ buf' = <<>>
    BY <1>3, <1>11
  <2>2. Len([i \in 1 .. 4 |-> f[i + 1]]) = 4 /\ Len(<<>>) = 0
    OBVIOUS
  <2>3. 4 < BufSize /\ 0 < BufSize
    BY Consts
  <2>. QED  BY <2>1, <2>2, <2>3, Zenon
<1>5. polls \in 0 .. Polls /\ CMD_SENT \in BOOLEAN /\ fault' \in BOOLEAN
  BY <1>11 DEF EsamInv, PortOK, EsamTypeOK
<1>6. PortOK' /\ HeldCopy' /\ AnswerKnows' /\ Listening'
  <2>1. /\ then' \in {"idle", "written", "refused", "failed", "check", "poll", "header", "data"}
        /\ polls' \in 0 .. Polls /\ in' = <<>> /\ Len(buf') < BufSize /\ CMD_SENT' \in BOOLEAN
        /\ then' # "idle" /\ (then' # "written" => cmd = last') /\ fault' \in BOOLEAN
    BY <1>1, <1>2, <1>4, <1>5
  <2>2. /\ UNCHANGED <<port, t, flag, level, timer, hit, is_open>> /\ UNCHANGED chip /\ prog = <<>>
    BY <1>1
  <2>. QED  BY <1>2, <2>1, <2>2, CallStep
<1>7. WriteKnows' /\ RefusedKnows' /\ CheckKnows' /\ PollKnows' /\ HeaderKnows' /\ AtRest'
  BY <1>1 DEF WriteKnows, RefusedKnows, CheckKnows, PollKnows, HeaderKnows, AtRest
<1>8. UNCHANGED <<heard, miso, out, answer, cmd, due>>
  BY <1>1 DEF chip
<1>9. CASE prog' = Pin("cs", 1) /\ then' = "failed"
  <2>1. PICK l : l = Pin("cs", 1)
    OBVIOUS
  <2>2. l \in Seq(Ops) /\ Len(l) = 1
    BY <2>1, PinIs DEF Bit
  <2>3. prog' = l /\ prog' # <<>>
    BY <1>9, <2>1, <2>2
  <2>4. Rest(l)' /\ prog' \in Seq(Ops)
    BY <2>2, <2>3, RestNew, Zenon
  <2>5. FailedKnows'
    BY <1>1, <1>2, <1>6, <2>1, <2>3, <2>4 DEF FailedKnows
  <2>6. DataKnows'
    BY <1>9 DEF DataKnows
  <2>. QED  BY <1>6, <1>7, <2>4, <2>5, <2>6 DEF EsamInv
<1>10. CASE /\ prog' = ReceiveBytes(DataLen(got') + 1) \o Pin("cs", 1) /\ then' = "data"
            /\ DataLen(got') \in 0 .. arg - 4 /\ ~ (DataLen(got') + 5 > BufSize)
  <2>1. PICK c, l : c = DataLen(got') + 1 /\ l = ReceiveBytes(c) \o Pin("cs", 1)
    OBVIOUS
  <2>2. got' = [i \in 1 .. 4 |-> f[i + 1]]
    BY <1>1, <1>3
  <2>3. got' \in Seq(Byte) /\ Len(got') = 4
    <3>1. f \in Seq(Byte) /\ Len(f) = Len(due) + 2 /\ Len(due) \in Nat /\ Len(due) >= 4
      BY <1>2, <1>3, SentIs, Zenon
    <3>2. \A i \in 1 .. 4 : f[i + 1] \in Byte
      BY <3>1
    <3>. QED  BY <2>2, <3>2
  <2>4. DataLen(got') \in Nat /\ DataLen(got') + 5 <= BufSize
    <3>1. PICK x : x = DataLen(got')
      OBVIOUS
    <3>2. x \in 0 .. arg - 4 /\ ~ (x + 5 > BufSize)
      BY <1>10, <3>1
    <3>3. x \in Nat /\ x + 5 <= BufSize
      BY <3>2, Consts
    <3>. QED  BY <3>1, <3>3
  <2>5. c \in Nat
    BY <2>1, <2>4
  <2>6. l \in Seq(Ops) /\ Len(l) = 3 * (c * Bits) + 1 /\ c * Bits \in Nat
    BY <2>1, <2>5, DataListIs, Zenon
  <2>7. Len(l) # 0
    BY <2>6
  <2>8. prog' = l /\ prog' # <<>>
    BY <1>10, <2>1, <2>6, <2>7
  <2>9. Rest(l)' /\ Done(l)' = 0 /\ prog' \in Seq(Ops)
    BY <2>6, <2>8, RestNew, Zenon
  <2>10. PICK src : src = answer
    OBVIOUS
  <2>11. Sending(src, 5 * Bits, 0, 0)'
    <3>1. PICK e : e = 5 * Bits + 0 + (IF 0 = 0 THEN 0 ELSE 1)
      OBVIOUS
    <3>2. e = 5 * Bits /\ e # 0
      BY <3>1, Consts
    <3>3. Len(in') = 0 /\ port'.clk = 1 /\ out' = SubSeq(src, 5 * Bits + 1, Len(src))
      BY <1>1, <1>2, <1>8, <2>10
    <3>4. \A j \in 1 .. Len(in') : in'[j] = src[5 * Bits + j]
      BY <3>3
    <3>5. IF e = 0 THEN out' = <<>> ELSE out' = SubSeq(src, e + 1, Len(src))
      BY <3>2, <3>3
    <3>. QED  BY <3>1, <3>2, <3>3, <3>4, <3>5, Consts DEF Sending
  <2>12. Stream(src, 5 * Bits, 0)'
    BY <2>11 DEF Stream
  <2>13. answer' = src /\ answer' = BitsOf(f) /\ f \in Sent(due)' /\ due' \in Answers
    <3>1. answer' = answer /\ due' = due
      BY <1>1, <1>8
    <3>2. answer = BitsOf(f) /\ f \in Sent(due) /\ due \in Answers
      BY <1>2, <1>3
    <3>3. Sent(due)' = Sent(due)
      BY <3>1, Zenon DEF Sent
    <3>. QED  BY <2>10, <3>1, <3>2, <3>3, Zenon
  <2>14. Stream(answer, 5 * Bits, Done(l))'
    BY <2>9, <2>12, <2>13 DEF Stream, Sending
  <2>15. RightKnows(l)'
    BY <1>6, <2>2, <2>8, <2>13, <2>14 DEF RightKnows
  <2>16. Taking(0)'
    <3>1. src \in Seq(Bit) /\ Len(src) \in Nat /\ out' = SubSeq(src, 5 * Bits + 1, Len(src))
      <4>1. BitsOf(f) \in Seq(Bit)
        BY <1>2, <1>3, AnswerBits, Zenon
      <4>2. src \in Seq(Bit) /\ Len(src) \in Nat
        BY <1>3, <2>10, <4>1
      <4>. QED  BY <1>1, <1>2, <1>8, <2>10, <4>2, Zenon DEF chip
    <3>2. out' \in Seq(Bit)
      BY <3>1, Consts
    <3>3. Len(in') = 0 /\ port'.clk = 1 /\ 0 = 3 * 0 + 0
      BY <1>1, <1>2
    <3>. QED  BY <3>2, <3>3 DEF Taking
  <2>17. WrongKnows(l)'
    BY <1>6, <2>8, <2>9, <2>16 DEF WrongKnows, Taking
  <2>18. DataKnows'
    BY <2>1, <2>3, <2>4, <2>9, <2>13, <2>15, <2>17 DEF DataKnows
  <2>19. FailedKnows'
    BY <1>10 DEF FailedKnows
  <2>. QED  BY <1>6, <1>7, <2>9, <2>18, <2>19 DEF EsamInv
<1>. QED  BY <1>1, <1>9, <1>10

LEMMA JoinedBytes ==
    ASSUME NEW a \in Seq(Byte), NEW b \in Seq(Byte)
    PROVE  /\ a \o b \in Seq(Byte) /\ Len(a \o b) = Len(a) + Len(b)
           /\ \A k \in 1 .. Len(a) : (a \o b)[k] = a[k]
           /\ \A k \in 1 .. Len(b) : (a \o b)[Len(a) + k] = b[k]
OBVIOUS

\* At the end of the last list the chip is at rest and the data fits the buffer.
LEMMA DataFits ==
    ASSUME EsamInv, then = "data", prog = <<>>,
           NEW b, b = BytesOf(in), NEW data, data = got \o SubSeq(b, 1, Len(b) - 1)
    PROVE  Quiet /\ cmd = last /\ Len(data) < BufSize
<1>1. PICK c, l : c = DataLen(got) + 1 /\ l = ReceiveBytes(c) \o Pin("cs", 1)
  OBVIOUS
<1>2. /\ c \in Nat /\ c > 0 /\ c + 4 <= BufSize /\ c * Bits \in Nat
      /\ got \in Seq(Byte) /\ Len(got) = 4
  BY <1>1, DataAt
<1>3. Quiet /\ Len(in) = c * Bits
  <2>1. CASE DataLen(got) = DataLen(due)
    BY <1>1, <2>1, RightAt
  <2>2. CASE DataLen(got) # DataLen(due)
    BY <1>1, <2>2, WrongAt
  <2>. QED  BY <2>1, <2>2
<1>4. in \in Seq(Bit) /\ cmd = last
  BY DEF EsamInv, AnswerKnows
<1>5. b \in Seq(Byte) /\ Len(b) = c
  <2>1. PICK s : s = in
    OBVIOUS
  <2>2. BytesOf(s) \in Seq(Byte) /\ Len(BytesOf(s)) = c
    BY <1>2, <1>3, <1>4, <2>1, BytesOfIs
  <2>. QED  BY <2>1, <2>2
<1>6. PICK u, g : u = SubSeq(b, 1, Len(b) - 1) /\ g = got
  OBVIOUS
<1>7. u \in Seq(Byte) /\ Len(u) = c - 1
  BY <1>2, <1>5, <1>6
<1>8. Len(g \o u) = 4 + (c - 1)
  <2>1. g \in Seq(Byte) /\ Len(g) = 4
    BY <1>2, <1>6
  <2>2. Len(g \o u) = Len(g) + Len(u)
    BY <1>7, <2>1, JoinedBytes, Zenon
  <2>. QED  BY <1>2, <1>7, <2>1, <2>2
<1>9. Len(data) = 4 + (c - 1)
  BY <1>6, <1>8
<1>. QED  BY <1>2, <1>3, <1>4, <1>9, Consts

\* If the length read is the answer's, the header and the bytes after it are what
\* the chip sent, and if its checksum fits them they are the answer.
LEMMA DataEnd ==
    ASSUME EsamInv, then = "data", prog = <<>>, DataLen(got) = DataLen(due),
           NEW b, b = BytesOf(in), NEW data, data = got \o SubSeq(b, 1, Len(b) - 1)
    PROVE  cmd = last /\ Len(data) = Len(due) /\ (b[Len(b)] = cal_lrc(data) => data = due)
<1>1. PICK c, l : c = DataLen(got) + 1 /\ l = ReceiveBytes(c) \o Pin("cs", 1)
  OBVIOUS
<1>2. due \in Answers /\ c = Len(due) - 3 /\ c \in Nat /\ c * Bits \in Nat
  BY <1>1, DataAt, RightAt
<1>3. PICK f \in Sent(due) :
        /\ got = [i \in 1 .. 4 |-> f[i + 1]] /\ Quiet /\ Len(in) = c * Bits
        /\ \A j \in 1 .. Len(in) : in[j] = BitsOf(f)[5 * Bits + j]
  BY <1>1, RightAt
<1>4. in \in Seq(Bit) /\ cmd = last
  BY <1>2 DEF EsamInv, AnswerKnows
<1>5. f \in Seq(Byte) /\ Len(f) = Len(due) + 2 /\ Len(due) \in Nat /\ Len(due) >= 4
  BY <1>2, SentIs
<1>6. 5 + c <= Len(f) /\ 5 \in Nat
  BY <1>2, <1>5
<1>7. PICK s : s = in
  OBVIOUS
<1>8. s \in Seq(Bit) /\ Len(s) = c * Bits /\ \A j \in 1 .. Len(s) : s[j] = BitsOf(f)[5 * Bits + j]
  BY <1>3, <1>4, <1>7
<1>9. \A i \in 1 .. c : BytesOf(s)[i] = f[5 + i]
  <2>1. f \in Seq(Byte) /\ c \in Nat /\ 5 \in Nat /\ 5 + c <= Len(f)
    BY <1>2, <1>5, <1>6
  <2>2. PICK k : k = 5
    OBVIOUS
  <2>3. k \in Nat /\ k + c <= Len(f) /\ \A j \in 1 .. Len(s) : s[j] = BitsOf(f)[k * Bits + j]
    BY <1>8, <2>1, <2>2
  <2>4. \A i \in 1 .. c : BytesOf(s)[i] = f[k + i]
    BY <1>8, <2>1, <2>3, BytesReceived, Zenon
  <2>. QED  BY <2>2, <2>4
<1>10. BytesOf(s) \in Seq(Byte) /\ Len(BytesOf(s)) = c
  BY <1>2, <1>8, BytesOfIs, Zenon
<1>11. b \in Seq(Byte) /\ Len(b) = c /\ \A i \in 1 .. c : b[i] = f[5 + i]
  BY <1>7, <1>9, <1>10
<1>12. PICK g, m : g = got /\ m = Len(due)
  OBVIOUS
<1>13. /\ m \in Nat /\ m >= 4 /\ c = m - 3 /\ Len(f) = m + 2
       /\ g = [i \in 1 .. 4 |-> f[i + 1]] /\ f \in Seq(Byte)
  BY <1>2, <1>3, <1>5, <1>12
<1>14. g \in Seq(Byte) /\ Len(g) = 4 /\ \A i \in 1 .. 4 : g[i] = f[i + 1]
  <2>1. \A i \in 1 .. 4 : f[i + 1] \in Byte
    BY <1>13
  <2>. QED  BY <1>13, <2>1
<1>15. PICK u : u = SubSeq(b, 1, Len(b) - 1)
  OBVIOUS
<1>16. u \in Seq(Byte) /\ Len(u) = m - 4 /\ \A i \in 1 .. m - 4 : u[i] = b[i]
  BY <1>11, <1>13, <1>15
<1>17. data = g \o u
  BY <1>12, <1>15
<1>18. /\ data \in Seq(Byte) /\ Len(data) = m
       /\ \A i \in 1 .. 4 : data[i] = g[i]
       /\ \A i \in 5 .. m : data[i] = u[i - 4]
  <2>1. /\ data \in Seq(Byte) /\ Len(data) = Len(g) + Len(u)
        /\ \A i \in 1 .. Len(g) : data[i] = g[i]
        /\ \A i \in 1 .. Len(u) : data[Len(g) + i] = u[i]
    <3>1. g \in Seq(Byte) /\ u \in Seq(Byte)
      BY <1>14, <1>16
    <3>2. /\ g \o u \in Seq(Byte) /\ Len(g \o u) = Len(g) + Len(u)
          /\ \A i \in 1 .. Len(g) : (g \o u)[i] = g[i]
          /\ \A i \in 1 .. Len(u) : (g \o u)[Len(g) + i] = u[i]
      BY <3>1, JoinedBytes, Zenon
    <3>. QED  BY <1>17, <3>2, Zenon
  <2>2. m \in Nat /\ m >= 4 /\ Len(g) = 4 /\ Len(u) = m - 4
    BY <1>13, <1>14, <1>16
  <2>3. Len(data) = m
    BY <2>1, <2>2
  <2>4. ASSUME NEW i \in 5 .. m  PROVE data[i] = u[i - 4]
    <3>1. i - 4 \in 1 .. Len(u) /\ Len(g) + (i - 4) = i
      BY <2>2
    <3>. QED  BY <2>1, <3>1
  <2>. QED  BY <2>1, <2>2, <2>3, <2>4
<1>19. \A i \in 1 .. m : data[i] = f[i + 1]
  <2>. SUFFICES ASSUME NEW i \in 1 .. m  PROVE data[i] = f[i + 1]
    OBVIOUS
  <2>1. CASE i \in 1 .. 4
    BY <1>14, <1>18, <2>1
  <2>2. CASE i \in 5 .. m
    <3>1. i - 4 \in 1 .. m - 4 /\ i - 4 \in 1 .. c /\ 5 + (i - 4) = i + 1
      BY <1>13, <2>2
    <3>2. data[i] = u[i - 4] /\ u[i - 4] = b[i - 4] /\ b[i - 4] = f[5 + (i - 4)]
      BY <1>11, <1>16, <1>18, <2>2, <3>1
    <3>. QED  BY <3>1, <3>2
  <2>3. m \in Nat /\ m >= 4
    BY <1>13
  <2>4. i \in 1 .. 4 \/ i \in 5 .. m
    BY <2>3
  <2>. QED  BY <2>1, <2>2, <2>4
<1>20. b[Len(b)] = f[m + 2]
  <2>1. c \in 1 .. c /\ 5 + c = m + 2
    BY <1>13
  <2>. QED  BY <1>11, <2>1
<1>21. ASSUME b[Len(b)] = cal_lrc(data)  PROVE data = due
  <2>1. PICK a : a = due
    OBVIOUS
  <2>2. /\ a \in Answers /\ f \in Sent(a) /\ data \in Seq(Byte) /\ Len(data) = Len(a)
        /\ \A i \in 1 .. Len(a) : data[i] = f[i + 1]
        /\ f[Len(a) + 2] = cal_lrc(data)
    BY <1>2, <1>3, <1>12, <1>18, <1>19, <1>20, <1>21, <2>1
  <2>3. data = a
    BY <2>2, DisturbedRefused, Zenon
  <2>. QED  BY <2>1, <2>3
<1>. QED  BY <1>2, <1>3, <1>4, <1>5, <1>12, <1>18, <1>21

LEMMA ReadDataStep ==
    ASSUME EsamInv, lost = "no", ReadData
    PROVE  EsamInv'
<1>1. PICK b, data : b = BytesOf(in) /\ data = got \o SubSeq(b, 1, Len(b) - 1)
  OBVIOUS
<1>2. /\ then = "data" /\ prog = <<>> /\ CMD_SENT' = FALSE
      /\ UNCHANGED <<port, t, last>> /\ UNCHANGED <<flag, level, timer, hit>> /\ UNCHANGED chip
  BY DEF ReadData, At, lines, ir
<1>3. is_open' = is_open
  BY DEF ReadData
<1>4. buf' \in {data, <<>>} /\ fault' \in {fault, TRUE}
  BY <1>1 DEF ReadData, CopyTo
<1>5. prog' = <<>> /\ then' = "idle" /\ in' = <<>> /\ polls' = 0
  BY DEF ReadData, Return, Do
<1>6. Quiet /\ cmd = last' /\ Len(data) < BufSize
  BY <1>1, <1>2, DataFits
<1>7. Len(buf') < BufSize
  <2>1. Len(<<>>) < BufSize
    BY Consts
  <2>. QED  BY <1>4, <1>6, <2>1
<1>8. fault' \in BOOLEAN
  BY <1>4 DEF EsamInv, PortOK, EsamTypeOK
<1>9. CMD_SENT' \in BOOLEAN
  BY <1>2
<1>. QED  BY <1>2, <1>3, <1>5, <1>6, <1>7, <1>8, <1>9, ReturnStep

-----------------------------------------------------------------------------
(* Theorems *)

LEMMA EsamInitial ==
    EsamInit => EsamInv
<1>. SUFFICES ASSUME EsamInit  PROVE EsamInv
  OBVIOUS
<1>1. /\ port = [ir |-> 0, clk |-> 1, cs |-> 1, mosi |-> 1] /\ t = <<>> /\ prog = <<>> /\ then = "idle"
      /\ in = <<>> /\ polls = 0 /\ CMD_SENT = FALSE /\ is_open = FALSE /\ buf = <<>>
      /\ fault = FALSE /\ cmd = <<>> /\ last = <<>>
      /\ flag = 0 /\ level = 0 /\ timer = FALSE /\ hit = FALSE
      /\ heard = <<>> /\ out = <<>> /\ answer = <<>>
  BY DEF EsamInit
<1>2. 0 \in 0 .. Polls /\ Len(<<>>) < BufSize /\ Len(<<>>) <= Bits * BufSize
  <2>1. 0 <= Bits * BufSize
    BY Consts
  <2>. QED  BY <2>1, Consts
<1>3. Quiet
  BY <1>1 DEF Quiet
<1>4. PortOK
  <2>1. port \in [ir : {0, 1}, clk : {0, 1}, cs : {0, 1}, mosi : {0, 1}]
    BY <1>1
  <2>2. EsamTypeOK
    BY <1>1, <1>2, <2>1 DEF EsamTypeOK
  <2>. QED  BY <1>1, <2>2 DEF PortOK, DeselectedWhenIdle, IrWrongOnlyByOverlap
<1>5. prog \in Seq(Ops) /\ HeldCopy /\ AnswerKnows
  BY <1>1 DEF HeldCopy, AnswerKnows
<1>6. /\ WriteKnows /\ RefusedKnows /\ CheckKnows /\ PollKnows /\ HeaderKnows /\ DataKnows
      /\ FailedKnows /\ AtRest
  BY <1>1, <1>3
     DEF WriteKnows, RefusedKnows, CheckKnows, PollKnows, HeaderKnows, DataKnows, FailedKnows, AtRest
<1>. QED  BY <1>4, <1>5, <1>6 DEF EsamInv

\* Once calls are mixed or the buffer is overrun it stays so, and before that no
\* call is parked.
Alone == lost = "no" => parked = <<>>

LEMMA LostStays ==
    ASSUME [EsamNext]_vars, Alone
    PROVE  Alone' /\ (lost # "no" => lost' # "no")
<1>1. ASSUME Begin  PROVE Alone' /\ (lost # "no" => lost' # "no")
  BY <1>1 DEF Begin, Alone, other
<1>2. CASE UNCHANGED other
  BY <1>2 DEF other, Alone
<1>3. CASE ReadHeader
  BY <1>3 DEF ReadHeader, Alone
<1>4. CASE Resume \/ Preempt
  BY <1>4 DEF Resume, Preempt, Alone
<1>5. ASSUME NEW d \in Commands, Write(d)  PROVE Begin
  BY <1>5 DEF Write
<1>6. ASSUME NEW c \in Counts, Read(c)  PROVE Begin
  BY <1>6 DEF Read
<1>7. CASE Open \/ Release \/ IrOpen \/ IrClose \/ IrTick
  BY <1>2, <1>7 DEF Open, Release, IrOpen, IrClose, IrTick
<1>8. CASE PinRead \/ PinWrite \/ SampleMiso \/ EndWrite \/ Failed \/ ReadCheck \/ ReadPoll \/ ReadData
  BY <1>2, <1>8 DEF PinRead, PinWrite, SampleMiso, EndWrite, Failed, ReadCheck, ReadPoll, ReadData
<1>9. CASE UNCHANGED vars
  BY <1>2, <1>9 DEF vars
<1>. QED  BY <1>1, <1>3, <1>4, <1>5, <1>6, <1>7, <1>8, <1>9 DEF EsamNext, Process

LEMMA EsamInductive ==
    (lost = "no" => EsamInv) /\ Alone /\ [EsamNext]_vars => (lost = "no" => EsamInv)' /\ Alone'
<1>. SUFFICES ASSUME lost = "no" => EsamInv, Alone, [EsamNext]_vars, lost' = "no"
              PROVE  EsamInv'
  BY LostStays
<1>0. EsamInv /\ lost = "no" /\ parked = <<>>
  BY LostStays DEF Alone
<1>1. CASE IrOpen \/ IrClose \/ Open \/ Release \/ UNCHANGED vars
  BY <1>0, <1>1, SwitchStep
<1>2. ASSUME NEW d \in Commands, Write(d)  PROVE EsamInv'
  BY <1>0, <1>2, WriteCall
<1>3. ASSUME NEW c \in Counts, Read(c)  PROVE EsamInv'
  BY <1>0, <1>3, ReadCall
<1>4. CASE Process
  BY <1>0, <1>4, PinReadStep, PinWriteStep, SampleMisoStep, EndWriteStep, FailedCall, ReadCheckStep,
     ReadPollStep, ReadHeaderStep, ReadDataStep DEF Process
<1>5. CASE IrTick
  BY <1>0, <1>5, IrTickStep
<1>6. ~ Resume /\ ~ Preempt
  BY <1>0 DEF Resume, Preempt
<1>. QED  BY <1>1, <1>2, <1>3, <1>4, <1>5, <1>6 DEF EsamNext

\* The inductive invariant: as long as no two calls were mixed and no length overran
\* rx_buf, at every statement of a call, and wherever the infrared interrupt comes,
\* the lines, the bits the chip has heard and the bits it has sent are those of the
\* settings done so far.
THEOREM EsamInvariant == EsamSpec => [](lost = "no" => EsamInv)
<1>1. EsamInit => (lost = "no" => EsamInv) /\ Alone
  BY EsamInitial DEF EsamInit, Alone
<1>. QED  BY <1>1, EsamInductive, PTL DEF EsamSpec

-----------------------------------------------------------------------------
(* The infrared pin, also when calls are mixed *)

\* A call, under way or parked, sets no pin but its own, and between the two
\* statements holds an infrared level that is old only after a tick.
OwnPins(pr, th, a, c) ==
    /\ pr \in Seq(Ops)
    /\ th \in {"check", "poll", "header", "data"} => a \in Nat
    /\ c # <<>> => /\ pr # <<>> /\ Head(pr)[1] # "sample"
                   /\ c[1] \in Lines /\ (c[1].ir # level => hit)

MyPins == OwnPins(prog, then, arg, t)
ParkedPins ==
    parked # <<>> => OwnPins(parked[1].prog, parked[1].then, parked[1].arg, parked[1].t)

IrInv ==
    /\ port \in Lines /\ flag \in Bit /\ IrWrongOnlyByOverlap
    /\ MyPins /\ ParkedPins

\* A step that leaves the pins alone and begins a new list of the call under way.
LEMMA NewList ==
    ASSUME IrInv, prog = <<>>, UNCHANGED <<lines, ir, parked>>, prog' \in Seq(Ops),
           then' \in {"check", "poll", "header", "data"} => arg' \in Nat
    PROVE  IrInv'
<1>1. t = <<>>
  BY DEF IrInv, MyPins, OwnPins
<1>. QED  BY <1>1 DEF IrInv, MyPins, ParkedPins, OwnPins, IrWrongOnlyByOverlap, lines, ir

\* A step that leaves pins and calls alone.
LEMMA PinsKept ==
    ASSUME IrInv, UNCHANGED <<port, flag, level, hit, parked, t, prog, then, arg>>
    PROVE  IrInv'
BY DEF IrInv, MyPins, ParkedPins, OwnPins, IrWrongOnlyByOverlap

\* A call begins; one that is under way is parked as it is.
LEMMA BeginPins ==
    ASSUME IrInv, Begin, UNCHANGED <<port, ir>>, prog' \in Seq(Ops),
           then' \in {"check", "poll", "header", "data"} => arg' \in Nat
    PROVE  IrInv'
<1>1. UNCHANGED <<port, flag, level, hit>> /\ t' = <<>>
  BY DEF ir, Begin
<1>2. MyPins'
  BY <1>1 DEF MyPins, OwnPins
<1>3. CASE parked' = parked
  BY <1>1, <1>2, <1>3 DEF IrInv, ParkedPins, OwnPins, IrWrongOnlyByOverlap
<1>4. CASE parked' = <<Locals>>
  <2>1. /\ parked'[1].prog = prog /\ parked'[1].then = then /\ parked'[1].arg = arg
        /\ parked'[1].t = t
    BY <1>4 DEF Locals
  <2>2. ParkedPins'
    BY <1>1, <2>1 DEF IrInv, MyPins, ParkedPins, OwnPins
  <2>. QED  BY <1>1, <1>2, <2>2 DEF IrInv, IrWrongOnlyByOverlap
<1>. QED  BY <1>3, <1>4 DEF Begin, other

LEMMA WritePins ==
    ASSUME IrInv, NEW d \in Commands, Write(d)
    PROVE  IrInv'
<1>1. d \in Seq(Byte)
  BY EsamConstants
<1>2. Begin /\ UNCHANGED <<port, ir>>
  BY DEF Write
<1>3. then' \in {"refused", "written"} /\ prog' \in Seq(Ops)
  <2>1. CASE Do(WriteStart, "refused")
    BY <2>1, WriteStartIs DEF Do
  <2>2. CASE \E j \in 0 .. Len(d) :
                /\ arg' = CopiedFrom(d, j)
                /\ Do(WriteStart \o WriteFrame(arg'), "written")
    <3>1. PICK j \in 0 .. Len(d) : arg' = CopiedFrom(d, j) /\ Do(WriteStart \o WriteFrame(arg'), "written")
      BY <2>2
    <3>2. arg' \in Seq(Byte)
      BY <1>1, <3>1, CopiedIs
    <3>. QED  BY <3>1, <3>2, WriteListIs DEF Do
  <2>. QED  BY <2>1, <2>2 DEF Write
<1>. QED  BY <1>2, <1>3, BeginPins

LEMMA ReadPins ==
    ASSUME IrInv, NEW c \in Counts, Read(c)
    PROVE  IrInv'
<1>1. Begin /\ UNCHANGED <<port, ir>> /\ arg' = c /\ prog' = Pin("mosi", 1)
  BY DEF Read, Do
<1>2. c \in Nat
  BY Consts
<1>3. prog' \in Seq(Ops)
  BY <1>1, PinIs DEF Bit
<1>. QED  BY <1>1, <1>2, <1>3, BeginPins

\* The two statements of a setting, and a sample.
LEMMA SettingPins ==
    ASSUME IrInv, PinRead \/ PinWrite \/ SampleMiso
    PROVE  IrInv'
<1>1. CASE PinRead
  BY <1>1 DEF PinRead, IrInv, MyPins, ParkedPins, OwnPins, IrWrongOnlyByOverlap, call, other, ir, Op
<1>2. CASE PinWrite
  <2>1. /\ t # <<>> /\ port' = Written /\ t' = <<>> /\ prog' = Tail(prog)
        /\ UNCHANGED <<then, arg, parked, flag, level, hit>>
    BY <1>2 DEF PinWrite, other, ir
  <2>2. /\ prog \in Seq(Ops) /\ prog # <<>> /\ t[1] \in Lines /\ (t[1].ir # level => hit)
        /\ Op[1] # "sample"
    BY <2>1 DEF IrInv, MyPins, OwnPins, Op
  <2>3. Op \in Ops /\ Tail(prog) \in Seq(Ops)
    BY <2>2 DEF Op
  <2>4. Op[1] \in {"clk", "cs", "mosi"} /\ Op[2] \in Bit
    BY <2>2, <2>3 DEF Ops
  <2>5. Written \in Lines /\ Written.ir = t[1].ir
    BY <2>2, <2>4 DEF Written, Lines
  <2>6. port' \in Lines /\ IrWrongOnlyByOverlap'
    BY <2>1, <2>2, <2>5 DEF IrWrongOnlyByOverlap
  <2>7. MyPins' /\ ParkedPins'
    BY <2>1, <2>3 DEF IrInv, MyPins, ParkedPins, OwnPins
  <2>. QED  BY <2>1, <2>6, <2>7 DEF IrInv
<1>3. CASE SampleMiso
  <2>1. /\ prog # <<>> /\ Op[1] = "sample" /\ prog' = Tail(prog)
        /\ UNCHANGED <<port, t, then, arg, parked, flag, level, hit>>
    BY <1>3 DEF SampleMiso, lines, other, ir
  <2>2. t = <<>> /\ prog \in Seq(Ops)
    BY <2>1 DEF IrInv, MyPins, OwnPins, Op
  <2>3. Tail(prog) \in Seq(Ops)
    BY <2>1, <2>2
  <2>4. MyPins' /\ ParkedPins'
    BY <2>1, <2>2, <2>3 DEF IrInv, MyPins, ParkedPins, OwnPins
  <2>. QED  BY <2>1, <2>4 DEF IrInv, IrWrongOnlyByOverlap
<1>. QED  BY <1>1, <1>2, <1>3

\* What follows a list: a return, or the next list.
LEMMA DecisionPins ==
    ASSUME IrInv, EndWrite \/ Failed \/ ReadCheck \/ ReadPoll \/ ReadHeader \/ ReadData
    PROVE  IrInv'
<1>. DEFINE Same == UNCHANGED <<lines, ir, parked>>
<1>1. prog = <<>> /\ Same
  BY DEF EndWrite, Failed, ReadCheck, ReadPoll, ReadHeader, ReadData, At, other
<1>2. ASSUME NEW r, Return(r)  PROVE IrInv'
  <2>1. prog' \in Seq(Ops) /\ then' = "idle"
    BY <1>2 DEF Return, Do
  <2>. QED  BY <1>1, <2>1, NewList
<1>3. CASE EndWrite \/ Failed \/ ReadData
  BY <1>2, <1>3 DEF EndWrite, Failed, ReadData
<1>4. Pin("cs", 1) \in Seq(Ops) /\ PollList \in Seq(Ops)
  BY PinIs, PollListIs DEF Bit
<1>5. ReceiveBytes(1) \in Seq(Ops) /\ ReceiveBytes(4) \in Seq(Ops)
  BY ReceiveIs
<1>6. CASE ReadCheck
  <2>1. ASSUME UNCHANGED arg, Do(PollList, "poll")  PROVE IrInv'
    <3>1. arg \in Nat
      BY <1>6 DEF ReadCheck, At, IrInv, MyPins, OwnPins
    <3>. QED  BY <1>1, <1>4, <2>1, <3>1, NewList DEF Do
  <2>2. (\E r : Return(r)) \/ (UNCHANGED arg /\ Do(PollList, "poll"))
    BY <1>6 DEF ReadCheck, PollList
  <2>. QED  BY <1>2, <2>1, <2>2
<1>7. CASE ReadPoll
  <2>1. arg \in Nat /\ arg' = arg
    BY <1>7 DEF ReadPoll, At, IrInv, MyPins, OwnPins
  <2>2. prog' \in {ReceiveBytes(4), ReceiveBytes(1), Pin("cs", 1)}
    BY <1>7 DEF ReadPoll, Do
  <2>. QED  BY <1>1, <1>4, <1>5, <2>1, <2>2, NewList
<1>8. CASE ReadHeader
  <2>1. arg \in Nat /\ arg' = arg
    BY <1>8 DEF ReadHeader, At, IrInv, MyPins, OwnPins
  <2>2. CASE prog' = Pin("cs", 1)
    BY <1>1, <1>4, <2>1, <2>2, NewList
  <2>3. CASE DataLen(got') \in 0 .. arg - 4 /\ prog' = ReceiveBytes(DataLen(got') + 1) \o Pin("cs", 1)
    <3>1. DataLen(got') + 1 \in Nat
      BY <2>1, <2>3
    <3>2. prog' \in Seq(Ops)
      BY <2>3, <3>1, DataListIs
    <3>. QED  BY <1>1, <2>1, <3>2, NewList
  <2>. QED  BY <1>8, <2>2, <2>3 DEF ReadHeader, Do
<1>. QED  BY <1>3, <1>6, <1>7, <1>8

\* The parked call goes on, and the other one may take its place.
LEMMA SwitchPins ==
    ASSUME IrInv, Resume \/ Preempt
    PROVE  IrInv'
<1>1. /\ parked # <<>> /\ prog' = parked[1].prog /\ then' = parked[1].then
      /\ arg' = parked[1].arg /\ t' = parked[1].t
      /\ UNCHANGED <<port, flag, level, hit>>
  BY DEF Resume, Preempt, GoOn, ir
<1>2. MyPins'
  BY <1>1 DEF IrInv, MyPins, ParkedPins, OwnPins
<1>3. ParkedPins'
  <2>1. CASE parked' = <<>>
    BY <2>1 DEF ParkedPins
  <2>2. CASE parked' = <<Locals>>
    <3>1. /\ parked'[1].prog = prog /\ parked'[1].then = then /\ parked'[1].arg = arg
          /\ parked'[1].t = t
      BY <2>2 DEF Locals
    <3>. QED  BY <1>1, <3>1 DEF IrInv, MyPins, ParkedPins, OwnPins
  <2>. QED  BY <2>1, <2>2 DEF Resume, Preempt
<1>. QED  BY <1>1, <1>2, <1>3 DEF IrInv, IrWrongOnlyByOverlap

\* A tick is seen by every call that is between its two statements.
LEMMA TickPins ==
    ASSUME IrInv, IrTick
    PROVE  IrInv'
<1>1. /\ port' = [port EXCEPT !.ir = flag] /\ level' = flag /\ flag' = 1 - flag /\ hit' = Between
      /\ UNCHANGED <<t, prog, then, arg, parked>>
  BY DEF IrTick, call, other
<1>2. port' \in Lines /\ flag' \in Bit /\ port'.ir = level'
  BY <1>1 DEF IrInv, Lines, Bit
<1>3. MyPins' /\ ParkedPins'
  BY <1>1 DEF IrInv, MyPins, ParkedPins, OwnPins, Between
<1>. QED  BY <1>2, <1>3 DEF IrInv, IrWrongOnlyByOverlap

LEMMA IrInvariant == EsamSpec => []IrInv
<1>1. EsamInit => IrInv
  BY DEF EsamInit, IrInv, MyPins, ParkedPins, OwnPins, IrWrongOnlyByOverlap, Lines, Bit
<1>2. IrInv /\ [EsamNext]_vars => IrInv'
  <2>. SUFFICES ASSUME IrInv, [EsamNext]_vars  PROVE IrInv'
    OBVIOUS
  <2>1. CASE Open \/ Release \/ IrOpen \/ IrClose
    BY <2>1, PinsKept DEF Open, Release, IrOpen, IrClose, lines, call, other, ir
  <2>2. CASE UNCHANGED vars
    BY <2>2, PinsKept DEF vars, lines, call, other, ir
  <2>3. CASE Process
    BY <2>3, SettingPins, DecisionPins DEF Process
  <2>. QED  BY <2>1, <2>2, <2>3, WritePins, ReadPins, SwitchPins, TickPins DEF EsamNext
<1>. QED  BY <1>1, <1>2, PTL DEF EsamSpec

\* hnos_esam_intf.c and irSev_hz.c share the data register of GPIOI: a level the
\* infrared interrupt set is lost only if it came between the two statements of a
\* pin setting, also when two calls are mixed; and every return of the driver
\* leaves the chip deselected, until two calls are mixed or rx_buf is overrun.
THEOREM EsamPortLeft == EsamSpec => []PortLeft
<1>1. EsamInv => EsamTypeOK /\ DeselectedWhenIdle
  BY DEF EsamInv, PortOK
<1>2. IrInv /\ (lost = "no" => EsamInv) => PortLeft
  BY <1>1 DEF IrInv, PortLeft
<1>. QED  BY <1>2, EsamInvariant, IrInvariant, PTL

\* Calls begin with something to do.
LEMMA Begins ==
    ASSUME (\E d \in Commands : Write(d)) \/ (\E c \in Counts : Read(c))
    PROVE  then' # "idle"
BY DEF Write, Read, Do

\* A step by which a write ends, esam_write's return of its count.
LEMMA WrittenEnds ==
    ASSUME parked = <<>>, [EsamNext]_vars, then = "written", then' = "idle"
    PROVE  EndWrite
<1>1. then' # then
  OBVIOUS
<1>2. ~ (IrOpen \/ IrClose \/ Open \/ Release \/ UNCHANGED vars \/ IrTick)
  BY <1>1 DEF IrOpen, IrClose, Open, Release, vars, call, IrTick
<1>3. ~ \E d \in Commands : Write(d)
  BY Begins
<1>4. ~ \E c \in Counts : Read(c)
  BY Begins
<1>5. ~ PinRead /\ ~ PinWrite /\ ~ SampleMiso /\ ~ Resume /\ ~ Preempt
  BY <1>1 DEF PinRead, PinWrite, SampleMiso, call, Resume, Preempt
<1>6. ~ Failed /\ ~ ReadCheck /\ ~ ReadPoll /\ ~ ReadHeader /\ ~ ReadData
  BY DEF Failed, ReadCheck, ReadPoll, ReadHeader, ReadData, At
<1>. QED  BY <1>2, <1>3, <1>4, <1>5, <1>6 DEF EsamNext, Process

\* As long as nothing is lost no call is parked.
LEMMA EsamAlone == EsamSpec => []Alone
<1>1. EsamInit => Alone
  BY DEF EsamInit, Alone
<1>2. Alone /\ [EsamNext]_vars => Alone'
  BY LostStays
<1>. QED  BY <1>1, <1>2, PTL DEF EsamSpec

\* esam_spi_write: when a write returns its count the chip has accepted exactly the
\* caller's bytes as a command, however many they are and wherever the infrared
\* interrupt rewrote the register, unless there were none, the copy from the caller
\* broke off, calls were mixed or rx_buf was overrun.
THEOREM EsamCommandDelivered == EsamSpec => CommandDelivered
<1>1. (lost = "no" => EsamInv) /\ Alone /\ [EsamNext]_vars =>
        [then = "written" /\ then' = "idle" /\ ~ fault /\ arg # <<>> /\ lost = "no"
            => cmd' = arg]_vars
  <2>. SUFFICES ASSUME EsamInv, Alone, [EsamNext]_vars, then = "written", then' = "idle",
                       arg # <<>>, lost = "no"
                PROVE  cmd' = arg
    OBVIOUS
  <2>1. EndWrite
    BY WrittenEnds DEF Alone
  <2>2. prog = <<>> /\ cmd' = cmd
    BY <2>1 DEF EndWrite, At, chip
  <2>. QED  BY <2>2, WriteEnd DEF After
<1>. QED  BY <1>1, EsamInvariant, EsamAlone, PTL DEF EsamSpec, CommandDelivered

\* A step by which a read ends that got as far as the data.
LEMMA DataEnds ==
    ASSUME parked = <<>>, [EsamNext]_vars, then = "data", then' = "idle"
    PROVE  ReadData
<1>1. then' # then
  OBVIOUS
<1>2. ~ (IrOpen \/ IrClose \/ Open \/ Release \/ UNCHANGED vars \/ IrTick)
  BY <1>1 DEF IrOpen, IrClose, Open, Release, vars, call, IrTick
<1>3. ~ \E d \in Commands : Write(d)
  BY Begins
<1>4. ~ \E c \in Counts : Read(c)
  BY Begins
<1>5. ~ PinRead /\ ~ PinWrite /\ ~ SampleMiso /\ ~ Resume /\ ~ Preempt
  BY <1>1 DEF PinRead, PinWrite, SampleMiso, call, Resume, Preempt
<1>6. ~ Failed /\ ~ ReadCheck /\ ~ ReadPoll /\ ~ ReadHeader /\ ~ EndWrite
  BY DEF Failed, ReadCheck, ReadPoll, ReadHeader, EndWrite, At
<1>. QED  BY <1>2, <1>3, <1>4, <1>5, <1>6 DEF EsamNext, Process

\* esam_spi_read: a read that succeeds after a command, and read the answer's length
\* right, returns the whole undisturbed answer to the last command written; the
\* checksum refuses every answer of which another byte was disturbed, whatever its
\* length.  Not if the copy to the caller failed, calls were mixed or rx_buf was
\* overrun.
THEOREM EsamAnswerExact == EsamSpec => AnswerExact
<1>1. (lost = "no" => EsamInv) /\ Alone /\ [EsamNext]_vars =>
        [then = "data" /\ then' = "idle" /\ ret' # EIO /\ ~ fault' /\ lost = "no"
            /\ DataLen(got) = DataLen(due)
            => buf' = due /\ ret' = Len(due) /\ cmd = last]_vars
  <2>. SUFFICES ASSUME EsamInv, Alone, [EsamNext]_vars, then = "data", then' = "idle", ret' # EIO,
                       ~ fault', lost = "no", DataLen(got) = DataLen(due)
                PROVE  buf' = due /\ ret' = Len(due) /\ cmd = last
    OBVIOUS
  <2>1. ReadData
    BY DataEnds DEF Alone
  <2>2. PICK b, data : b = BytesOf(in) /\ data = got \o SubSeq(b, 1, Len(b) - 1)
    OBVIOUS
  <2>3. prog = <<>> /\ buf' = data
    BY <2>1, <2>2 DEF ReadData, At, CopyTo
  <2>4. ret' \in (IF b[Len(b)] # cal_lrc(data) THEN {EIO} ELSE {Len(data)})
    BY <2>1, <2>2 DEF ReadData, Return
  <2>5. b[Len(b)] = cal_lrc(data) /\ ret' = Len(data)
    BY <2>4
  <2>6. cmd = last /\ Len(data) = Len(due) /\ data = due
    BY <2>2, <2>3, <2>5, DataEnd
  <2>. QED  BY <2>3, <2>5, <2>6
<1>. QED  BY <1>1, EsamInvariant, EsamAlone, PTL DEF EsamSpec, AnswerExact
=============================================================================

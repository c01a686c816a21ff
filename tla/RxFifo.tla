------------------------------- MODULE RxFifo -------------------------------
(***************************************************************************)
(* What the receive path promises the network stack: frames the MAC        *)
(* accepted reach the stack once each and in the order they were received, *)
(* except those refused for their length and those a MAC reset throws      *)
(* away, which happens to all waiting frames at once.                      *)
(***************************************************************************)
EXTENDS Naturals, Sequences

VARIABLES
    accepted, \* number of frames the MAC accepted; frame k is the k-th
    waiting,  \* accepted frames not yet handled, oldest first
    up        \* frames passed to the stack

fifovars == <<accepted, waiting, up>>

FifoInit == accepted = 0 /\ waiting = <<>> /\ up = <<>>

Accept ==
    /\ accepted' = accepted + 1
    /\ waiting' = Append(waiting, accepted + 1)
    /\ UNCHANGED up

Deliver ==
    /\ waiting # <<>>
    /\ up' = Append(up, Head(waiting))
    /\ waiting' = Tail(waiting)
    /\ UNCHANGED accepted

Refuse ==
    /\ waiting # <<>>
    /\ waiting' = Tail(waiting)
    /\ UNCHANGED <<accepted, up>>

Flush == waiting' = <<>> /\ UNCHANGED <<accepted, up>>

FifoNext == Accept \/ Deliver \/ Refuse \/ Flush

FifoSpec == FifoInit /\ [][FifoNext]_fifovars
=============================================================================

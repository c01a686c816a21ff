---------------------------- MODULE MCI2cMaster ----------------------------
(***************************************************************************)
(* Transfers for model checking I2cMaster.                                 *)
(***************************************************************************)
EXTENDS I2cMaster

M(rd, len) == [rd |-> rd, len |-> len, nostart |-> FALSE, ignore_nak |-> FALSE]

\* what the clients use: register write, register read (a write of the register
\* number, then a read), probe, block write continued without START, and a
\* write that ignores NACKs
ClientTransfers ==
    { <<M(FALSE, 2)>>, <<M(FALSE, 1), M(TRUE, 1)>>, <<M(FALSE, 1), M(TRUE, 2)>>,
      <<M(TRUE, 2)>>, <<M(FALSE, 0)>>,
      <<M(FALSE, 1), [M(FALSE, 1) EXCEPT !.nostart = TRUE]>>,
      <<[M(FALSE, 1) EXCEPT !.ignore_nak = TRUE], M(FALSE, 1)>> }

\* and what the driver takes but does not master: a read, of some bytes or
\* of none, that another message follows; a change of direction without START
OtherTransfers == { <<M(TRUE, 2), M(FALSE, 1)>>, <<M(TRUE, 0), M(FALSE, 1)>>,
                    <<M(FALSE, 1), [M(TRUE, 1) EXCEPT !.nostart = TRUE]>> }

AllTransfers == ClientTransfers \cup OtherTransfers
=============================================================================

------------------------------- MODULE MCSpi --------------------------------
(* Transfers for model checking Spi. *)
EXTENDS Spi

X(len, tx, rx, csc) == [len |-> len, tx |-> tx, rx |-> rx, cs_change |-> csc]

\* one burst; two; three, of which the second leaves TXNUM alone; a pause; no buffer
MCTransfers == {X(3, TRUE, FALSE, FALSE), X(5, FALSE, TRUE, TRUE), X(9, TRUE, TRUE, FALSE),
                X(4, TRUE, TRUE, TRUE), X(0, FALSE, FALSE, TRUE), X(2, FALSE, FALSE, FALSE)}

=============================================================================

------------------------------- MODULE MCEsam -------------------------------
(* Commands and answers for model checking Esam, with bytes of two bits. *)
EXTENDS Esam

\* the last command is longer than the buffer
MCCommands == {<<>>, << <<1, 0>> >>, [i \in 1 .. 7 |-> Zero]}
\* status, status, length (two bytes), data: a disturbed length is shorter, or longer
\* than the buffer
MCAnswers == {<<HEAD, Zero, Zero, HEAD, <<1, 1>> >>}

=============================================================================

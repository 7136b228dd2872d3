----------------------------- MODULE MCProcess -----------------------------
(* The process model for TLC: how many pids and terminals there are and    *)
(* what programs pass to halt.  256 shows the truncation to uint8_t.       *)
EXTENDS ProcessInv

MCHaltArgs == {256}

=============================================================================

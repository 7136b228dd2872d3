------------------------------- MODULE MCRtc -------------------------------
(* The clock driver for TLC: 1024 Hz besides the default of 2 Hz, and the  *)
(* two ways an uninitialized rate stops the clock: low bits that are 0     *)
(* select no rate, and 0x51 turns the divider 010 into 111, reset.         *)
EXTENDS Rtc

MCRates == {{1, 2}}
MCStackBytes == {{}, {0, 4, 6}}
NoBytes == {}

=============================================================================

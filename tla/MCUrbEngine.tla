----------------------------- MODULE MCUrbEngine -----------------------------
(* A small instance of UrbEngine: a pending queue of two URBs, short and     *)
(* long bulk transfers, and a keepalive period of two clock ticks.           *)
EXTENDS UrbEngine
MCInLengths == {0, 1, 3}
MCResponseLengths == {2}
==============================================================================

----------------------------- MODULE MCInterval -----------------------------
(* A small instance of Interval: a drain gives up after four events.        *)
EXTENDS Interval
==============================================================================

------------------------------ MODULE MCWinLink ------------------------------
(* A small instance of WinLink: two subscriptions, one write, two threads.    *)
EXTENDS WinLink
==============================================================================

------------------------------ MODULE MCSession ------------------------------
(* A small instance of Session: two controllers, two links, one restart.     *)
EXTENDS Session
==============================================================================

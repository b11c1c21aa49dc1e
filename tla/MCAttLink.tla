------------------------------ MODULE MCAttLink ------------------------------
(* A small instance of AttLink: five handles, three concurrent subscriptions. *)
EXTENDS AttLink
==============================================================================

------------------------------- MODULE MCScan -------------------------------
(* A small instance of Scan.                                                 *)
EXTENDS Scan
==============================================================================

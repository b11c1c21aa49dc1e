---------------------------- MODULE MCController -----------------------------
(* A small instance of Controller: two rumble outputs, one change of the LEDs.*)
EXTENDS Controller
==============================================================================

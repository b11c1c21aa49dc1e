---------------------------- MODULE MCUsbSession ----------------------------
(* A small instance of UsbSession: one host with a queue of two URBs.        *)
EXTENDS UsbSession
MCInLengths == {1, 2}
MCResponseLengths == {2}
==============================================================================

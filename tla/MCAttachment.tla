---------------------------- MODULE MCAttachment ----------------------------
(* The driver and two other hosts, each connecting once; the three request   *)
(* sizes of the code; two free ports.                                        *)
EXTENDS Attachment
==============================================================================

----------------------------- MODULE DeviceLease -----------------------------
(***************************************************************************)
(* What Attachment::run promises of the virtual device it attaches         *)
(* (usb/attachment.rs): there is at most one; it appears while the USB     *)
(* transport runs, once the identity it shows is known, and is removed     *)
(* only when nothing in the bridge works for it any more ("Cancel and      *)
(* drain application work before releasing the native lease"), or, where   *)
(* the removal is `eager`, once the bridge stops; and the bridge ends only *)
(* after that.                                                             *)
(***************************************************************************)

VARIABLES device,   \* "absent", "present", "removed" by the bridge, or "gone":
                    \* removed by somebody else
          eager,    \* the device may be removed as soon as the bridge stops
          stopping, \* the bridge was told to stop, or stops by itself
          ready,    \* the identity of the controller is known
          working,  \* subset of {"transport", "application"} still at work
          ended     \* run has returned

vars == <<device, eager, stopping, ready, working, ended>>

Init ==
  /\ device = "absent" /\ eager \in BOOLEAN /\ stopping = FALSE /\ ready = FALSE
  /\ working = {"transport", "application"} /\ ended = FALSE

GetReady ==
  /\ ~ready /\ "application" \in working
  /\ ready' = TRUE /\ UNCHANGED <<device, eager, stopping, working, ended>>

Stop ==
  /\ ~stopping /\ stopping' = TRUE
  /\ UNCHANGED <<device, eager, ready, working, ended>>

Appear ==
  /\ device = "absent" /\ ready /\ "transport" \in working
  /\ device' = "present" /\ UNCHANGED <<eager, stopping, ready, working, ended>>

Vanish ==
  /\ device = "present" /\ ~ended
  /\ device' = "gone" /\ UNCHANGED <<eager, stopping, ready, working, ended>>

\* Neither part goes on without the other.
Finish(part) ==
  /\ part \in working
  /\ working' = working \ {part} /\ stopping' = TRUE
  /\ UNCHANGED <<device, eager, ready, ended>>

Remove ==
  /\ device = "present" /\ (working = {} \/ (eager /\ stopping)) /\ ~ended
  /\ device' = "removed" /\ UNCHANGED <<eager, stopping, ready, working, ended>>

\* Ending, a last attempt may remove a device that could not be removed before.
End ==
  /\ working = {} /\ ~ended
  /\ device' \in {device} \cup (IF device = "present" THEN {"removed"} ELSE {})
  /\ ended' = TRUE /\ UNCHANGED <<eager, stopping, ready, working>>

Next == \/ GetReady \/ Stop \/ Appear \/ Vanish \/ Remove \/ End
        \/ \E part \in {"transport", "application"} : Finish(part)

Spec == Init /\ [][Next]_vars
==============================================================================

------------------------------ MODULE UsbServer ------------------------------
(***************************************************************************)
(* The USB/IP server (usb/server.rs): it accepts connections, answers      *)
(* device lists and imports, and serves the URBs of whoever imported the   *)
(* device.  Any number of clients may do so at the same time.  A client    *)
(* that fails is only logged.                                              *)
(*                                                                         *)
(* A request is read in parts, always together with the cancellation; a    *)
(* reply is written without looking at it.                                 *)
(* Abstracted: the bytes of a request, and serve_urbs (module UsbSession), *)
(* which ends when it is cancelled or its stream does.                     *)
(***************************************************************************)
EXTENDS Naturals

CONSTANT Clients     \* possible connections

VARIABLES
  cancelled,  \* the application's cancellation token
  clients     \* of each connection: "none", "queued" at the listener, "request" is
              \* being read, a reply is being written - "listing", "refusing" or
              \* "importing" -, its "urbs" are served, or "closed"

ServerInit == clients = [c \in Clients |-> "none"]

Accepted == {"request", "listing", "refusing", "importing", "urbs"}

Moves(c, from, to) == clients[c] \in from /\ clients' = [clients EXCEPT ![c] = to]

\* The host's side of a connection: it connects, asks, ...
Connect(c) == Moves(c, {"none"}, "queued")

\* ... a device list, which keeps the connection open, an import of our bus id, or
\* anything else, which is refused, ...
Asks == {"listing", "importing", "refusing"}
Request(c, what) == what \in Asks /\ Moves(c, {"request"}, what)

\* ... and may be lost or misbehave anywhere.
ClientFails(c) == Moves(c, Accepted \cup {"queued"}, "closed")

Accept(c) == Moves(c, {"queued"}, "request")

Reply(c) == \/ Moves(c, {"listing"}, "request")
            \/ Moves(c, {"importing"}, "urbs")
            \/ Moves(c, {"refusing"}, "closed")

ClientStops(c) == cancelled /\ Moves(c, {"request", "urbs"}, "closed")

\* Fault: the clients are joined and not aborted.
JoinClients ==
  (\A c \in Clients : clients[c] \notin Accepted) /\ UNCHANGED clients

\* abort_all and join_next, or the JoinSet dropped with the error of accept: no
\* client takes another step.
StopClients ==
  clients' = [c \in Clients |-> IF clients[c] \in Accepted THEN "closed" ELSE clients[c]]
==============================================================================

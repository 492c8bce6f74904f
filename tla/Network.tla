------------------------------ MODULE Network -------------------------------
(***************************************************************************)
(* The UDP sockets between client and server (external).  Each direction is *)
(* a set of packets: a packet may be delivered any number of times, in any  *)
(* order, or lost.                                                          *)
(*                                                                         *)
(* A persistent network never forgets a packet.  That already is loss       *)
(* (a packet is never taken), duplication and delay without bound, with the *)
(* fewest states; but retransmission is invisible in it, so liveness and    *)
(* retransmission are checked with a network that forgets.                  *)
(*                                                                         *)
(* Sealing, compression, encryption and fragmentation are the codec's and   *)
(* are left out here: a packet is delivered whole.                          *)
(***************************************************************************)
EXTENDS Naturals

CONSTANT Persistent   \* whether the network keeps every packet for ever

ASSUME NetworkAssumption == Persistent \in BOOLEAN

VARIABLES
    toServer,   \* packets on their way to the server
    toClient    \* packets on their way to the client

netVars == <<toServer, toClient>>

(***************************************************************************)
(* Wire packets.  A reliable client packet (Keystrokes, Resize, KeepAlive)  *)
(* carries its number, the acknowledgement known when it was sealed and its *)
(* payload; a retransmission is the same packet.  A transient Ack carries   *)
(* only the acknowledgement: its own number (high bit set) is never read.   *)
(***************************************************************************)
Reliable(seq, ack, payload) ==
    [type |-> "Reliable", seq |-> seq, ack |-> ack, payload |-> payload]
Ack(ack) == [type |-> "Ack", ack |-> ack]
Handshake(seq) == [type |-> "Handshake", seq |-> seq]

Frame(seq, ack, update) ==
    [type |-> "Frame", seq |-> seq, ack |-> ack, update |-> update]
Control(type, seq, ack) == [type |-> type, seq |-> seq, ack |-> ack]

\* What is left of a direction after its receiver took m: a duplicate of m may
\* stay behind.
Remaining(net, m) == IF Persistent THEN {net} ELSE {net, net \ {m}}

LoseToServer ==
    /\ ~Persistent
    /\ \E m \in toServer : toServer' = toServer \ {m}
    /\ UNCHANGED toClient

LoseToClient ==
    /\ ~Persistent
    /\ \E m \in toClient : toClient' = toClient \ {m}
    /\ UNCHANGED toServer

=============================================================================

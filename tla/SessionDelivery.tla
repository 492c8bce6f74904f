-------------------------- MODULE SessionDelivery ---------------------------
(***************************************************************************)
(* A running session implements Delivery: numbers, references, differences  *)
(* and histories only ever bring about what Delivery allows, so what is     *)
(* shown of Delivery (Converges) is about this session.  The session has    *)
(* one address and its client does not roam.                                *)
(***************************************************************************)
EXTENDS Session, SequencesExt

NoGrid == [cols |-> 0]

Newest(hist) ==
    IF DOMAIN hist = {} THEN NoGrid
    ELSE hist[CHOOSE s \in DOMAIN hist : \A t \in DOMAIN hist : t <= s]

\* Packets the client would still take: in the network, in the diff job, or a
\* Shutdown of which copies are left to send.
Outstanding ==
    LET shutdown == IF farewell.type = "Shutdown" /\ farewell.left > 0
                    THEN {Control("Shutdown", farewell.seq, 0)} ELSE {}
    IN  {m \in toClient \cup ({job} \ {NoJob}) \cup shutdown : m.seq > cAckSeqNum}

Abstracted(m) ==
    IF m.type = "Frame"
    THEN [kind |-> "Frame", screen |-> snapshots[m.seq], to |-> "here"]
    ELSE [kind |-> "Reply", to |-> "here"]

InNumberOrder ==
    LET Lower(m, n) == m.seq < n.seq
        sorted == SetToSortSeq(Outstanding, Lower)
    IN  [i \in 1..Len(sorted) |-> Abstracted(sorted[i])]

Deliver == INSTANCE Delivery WITH
    Shown <- Screens, NoScreen <- NoGrid, Addresses <- {"here"}, Late <- 0,
    QueueCap <- MaxServerSeq + 2, Answers <- MaxClientSeq,
    shows <- term, changed <- dirty, lastSent <- Newest(sHistory),
    ackDue <- (sAckSeqNum > lastSentAckSeq), inFlight <- (job # NoJob),
    queue <- InNumberOrder, screen <- Newest(cHistory),
    clientAddr <- "here", serverAddr <- "here", late <- [a \in {"here"} |-> 0],
    parting <- (farewell # Running), rejoined <- wasReset

(***************************************************************************)
(* Every step of the session is a step of Delivery or changes nothing in    *)
(* it: a frame once recorded in the history is in the network or in the job *)
(* or was dropped with a job in flight, dirty is cleared only when the      *)
(* screen is the last one recorded, and the client never goes back.         *)
(***************************************************************************)
ImplementsDelivery == Deliver!DeliverySpec

=============================================================================

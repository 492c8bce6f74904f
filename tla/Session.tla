------------------------------ MODULE Session -------------------------------
(***************************************************************************)
(* A running session: the client's MirrorSession and the server's           *)
(* AuthoritativeSession joined by a network that loses, duplicates and      *)
(* reorders packets.  Client input flows up a sliding window with           *)
(* cumulative acknowledgements; screens flow down as frames, each relative  *)
(* to a screen the client has acknowledged.                                 *)
(***************************************************************************)
EXTENDS AuthoritativeSession, MirrorSession

CONSTANT LateHandshakes  \* numbers of handshake packets the network still holds

ASSUME SessionAssumption == LateHandshakes \subseteq 1..StartSeq

vars == <<netVars, serverVars, clientVars>>

Init == ServerInit /\ ClientInit({Handshake(h) : h \in LateHandshakes})

ServerStep ==
    \/ \E m \in toServer :
          \/ FeedHandshakeIgnored(m)
          \/ FeedHandshake(m)
          \/ FeedAck(m)
          \/ FeedDuplicate(m)
          \/ FeedOutOfOrder(m)
          \/ \E next \in 2..(MaxClientSeq + 1) : FeedInOrder(m, next)
    \/ OnPtyBytes \/ ServerTick \/ JobSend \/ JobDone
    \/ PtyExit \/ SendShutdown \/ ServerExit

ClientStep ==
    \/ FeedStdin \/ OnWinch \/ OnResume \/ Disconnect
    \/ \E alive \in BOOLEAN, overdue \in SUBSET unacked, nacks \in SUBSET Nacks :
          OnTick(alive, overdue, nacks)
    \/ \E m \in toClient :
          \/ FeedStale(m)
          \/ \E ackDue \in BOOLEAN : FeedFrame(m, ackDue)
          \/ FeedControl(m)

Next ==
    \/ ServerStep /\ UNCHANGED clientVars
    \/ ClientStep /\ UNCHANGED serverVars
    \/ (LoseToServer \/ LoseToClient) /\ UNCHANGED <<serverVars, clientVars>>

Spec == Init /\ [][Next]_vars

(***************************************************************************)
(* Fairness.  Every packet the client keeps is eventually retransmitted     *)
(* (the ARQ timer runs every 100 ms and a timeout is at most one second),   *)
(* and a packet number that is in the network again and again is taken by   *)
(* the server at last.  Nothing is assumed of packets sent once.            *)
(***************************************************************************)
TakesInOrder(s) ==
    \E m \in toServer, next \in 2..(MaxClientSeq + 1) :
        m.type = "Reliable" /\ m.seq = s /\ FeedInOrder(m, next) /\ UNCHANGED clientVars

FairSpec ==
    /\ Spec
    /\ WF_vars(OnTick(FALSE, unacked, {}) /\ UNCHANGED serverVars)
    /\ \A s \in (StartSeq + 1)..MaxClientSeq : SF_vars(TakesInOrder(s))

-----------------------------------------------------------------------------
(***************************************************************************)
(* Types, with the bound of the two histories.                              *)
(***************************************************************************)
TypeOK ==
    /\ sSeqNum \in Nat /\ sAckSeqNum \in Nat /\ expectedClientSeq \in Nat
    /\ clientAckSeq \in Nat /\ lastSentAckSeq \in Nat
    /\ dirty \in BOOLEAN /\ term \in Screens /\ wasReset \in BOOLEAN
    /\ cSeqNum \in 1..MaxClientSeq /\ cAckSeqNum \in 0..sSeqNum /\ closed \in BOOLEAN
    /\ DOMAIN outOfOrder \subseteq (expectedClientSeq + 1)..cSeqNum
    /\ DOMAIN sHistory \subseteq 1..sSeqNum /\ Cardinality(DOMAIN sHistory) <= HistoryCap
    /\ DOMAIN cHistory \subseteq 1..cAckSeqNum /\ Cardinality(DOMAIN cHistory) <= HistoryCap

(***************************************************************************)
(* Input.  Unless a late handshake reset the window, what the server has    *)
(* applied is exactly what the client handed to the stream from number      *)
(* StartSeq + 1 on: in order, once each, without a gap, through losses,     *)
(* duplicates, reordering and retransmissions (feed_packet of the server).  *)
(***************************************************************************)
InOrder ==
    /\ Len(processed) = expectedClientSeq - 1 - StartSeq
    /\ \A i \in 1..Len(processed) :
          StartSeq + i <= Len(typed) /\ processed[i] = typed[StartSeq + i]

InOrderExactlyOnce == ~wasReset => InOrder

UnackedSeqs == {p.seq : p \in unacked}

(***************************************************************************)
(* The client forgets a packet numbered above StartSeq only once the server *)
(* has applied it: no acknowledgement, however late, duplicated or          *)
(* overtaken, prunes input that could still be lost.                        *)
(***************************************************************************)
PrunedWasProcessed ==
    ~wasReset => \A s \in (StartSeq + 1)..cSeqNum :
                     s \notin UnackedSeqs => s - StartSeq <= Len(processed)

(***************************************************************************)
(* What the design document says of the cumulative acknowledgement, for     *)
(* every reliable packet: the sender only prunes packets the receiver has   *)
(* actually processed.                                                      *)
(***************************************************************************)
OnlyProcessedIsPruned ==
    \A s \in 1..cSeqNum :
        s \notin UnackedSeqs => s > StartSeq /\ s - StartSeq <= Len(processed)

(***************************************************************************)
(* Every reliable packet above StartSeq is applied at last, whatever is     *)
(* lost on the way, unless one of the ends goes away first.                 *)
(***************************************************************************)
EventuallyApplied ==
    \A s \in (StartSeq + 1)..MaxClientSeq :
        (cSeqNum >= s) ~> (Len(processed) >= s - StartSeq \/ closed \/ ~ServerUp)

(***************************************************************************)
(* The reliable stream is a FIFO channel: see InputChannel.                 *)
(***************************************************************************)
Channel == INSTANCE InputChannel WITH
    sent     <- SubSeq(typed, StartSeq + 1, Len(typed)),
    received <- processed

ImplementsChannel == Channel!Spec

(***************************************************************************)
(* Screens.  Every screen the client holds is the screen the server had     *)
(* when it numbered that frame, although frames are differences against     *)
(* changing references, are dropped, lost and reordered.                    *)
(***************************************************************************)
SnapshotAgreement ==
    \A s \in DOMAIN cHistory : s \in DOMAIN snapshots /\ cHistory[s] = snapshots[s]

(***************************************************************************)
(* A frame the client would still accept never refers to a screen it lacks: *)
(* the branch FRAME_DROP_MISSING_REF of the client cannot be reached.       *)
(***************************************************************************)
LiveFramesHaveRef ==
    \A m \in toClient :
        m.type = "Frame" /\ m.seq > cAckSeqNum =>
            HasRef(m.update) /\ InBounds(m.update)

(***************************************************************************)
(* A packet number names one packet: the client tells packets apart by      *)
(* number alone, so a number shared by a frame and a reply, or by frames    *)
(* queued from different handlers, would hide one of them.                  *)
(***************************************************************************)
ServerNumbersUnique ==
    \A m, n \in toClient \cup ({job} \ {NoJob}) : m.seq = n.seq => m = n

=============================================================================

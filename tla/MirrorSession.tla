---------------------------- MODULE MirrorSession ---------------------------
(***************************************************************************)
(* The client's session (src/client/session.rs): numbering of reliable      *)
(* packets, retransmission until acknowledged, and the mirror of the        *)
(* server's screen rebuilt from frames.  Telemetry, banner and local echo   *)
(* are not part of this module; fragments are modelled in Fragments.        *)
(*                                                                         *)
(* Time is abstracted: a timer of on_tick may be due or not at any tick,    *)
(* and so may the 30 ms limit on Ack packets.                               *)
(***************************************************************************)
EXTENDS Grid, History, Network, Sequences

CONSTANTS
    Keys,           \* keystroke buffers the user may type
    Sizes,          \* terminal sizes <<cols, rows>> the window may take
    MaxClientSeq,   \* bound of the model on the client's packet numbers
    FramesSplit     \* whether frames come in fragments the client may ask for

ASSUME ClientAssumption ==
    /\ MaxClientSeq \in Nat \ {0} /\ FramesSplit \in BOOLEAN
    /\ Sizes \subseteq Nat \X Nat /\ Sizes # {}

VARIABLES
    cSeqNum,    \* last reliable packet number used
    cAckSeqNum, \* highest packet number taken from the server
    unacked,    \* reliable packets kept for retransmission
    cHistory,   \* screens of recent frames, by frame number
    closed,     \* the client left its loop
    typed       \* history: payloads given to the reliable stream, in order

clientVars == <<cSeqNum, cAckSeqNum, unacked, cHistory, closed, typed>>

Keystrokes(k) == [kind |-> "Keystrokes", keys |-> k]
Resize(size) == [kind |-> "Resize", cols |-> size[1], rows |-> size[2]]
KeepAlive == [kind |-> "KeepAlive"]

Input == {Keystrokes(k) : k \in Keys} \cup {Resize(z) : z \in Sizes} \cup {KeepAlive}

\* run_client builds the session and at once sends the window's size.
ClientInit(handshakes) ==
    \E size \in Sizes :
        LET first == Reliable(1, 0, Resize(size))
        IN  /\ cSeqNum = 1
            /\ cAckSeqNum = 0
            /\ unacked = {first}
            /\ cHistory = EmptyHistory
            /\ closed = FALSE
            /\ typed = <<Resize(size)>>
            /\ toServer = {first} \cup handshakes
            /\ toClient = {}

-----------------------------------------------------------------------------
\* The packet is sent but not kept.
Track_NotKept(payload) ==
    /\ cSeqNum < MaxClientSeq
    /\ cSeqNum' = cSeqNum + 1
    /\ unacked' = unacked
    /\ typed' = Append(typed, payload)

\* prepare_keystrokes, prepare_resize and prepare_keepalive: a number, and a
\* copy of the packet for retransmission.
Track(payload) ==
    /\ cSeqNum < MaxClientSeq
    /\ cSeqNum' = cSeqNum + 1
    /\ unacked' = unacked \cup {Reliable(cSeqNum + 1, cAckSeqNum, payload)}
    /\ typed' = Append(typed, payload)

SendReliable(payload, others) ==
    /\ Track(payload)
    /\ toServer' = toServer \cup others \cup {Reliable(cSeqNum + 1, cAckSeqNum, payload)}

FeedStdin ==
    /\ ~closed
    /\ \E k \in Keys : SendReliable(Keystrokes(k), {})
    /\ UNCHANGED <<cAckSeqNum, cHistory, closed, toClient>>

OnWinch ==
    /\ ~closed
    /\ \E size \in Sizes : SendReliable(Resize(size), {})
    /\ UNCHANGED <<cAckSeqNum, cHistory, closed, toClient>>

\* After a suspension or the help text on_winch is called, but the packet it
\* returns is thrown away: only its retransmission will send it.
OnResume ==
    /\ ~closed
    /\ \E size \in Sizes : Track(Resize(size))
    /\ UNCHANGED <<netVars, cAckSeqNum, cHistory, closed>>

\* A FragmentNack, as the server's window sees it.
Nacks == IF FramesSplit THEN {Ack(cAckSeqNum)} ELSE {}

\* on_tick: a KeepAlive when its interval is over, then every packet whose
\* retransmission timeout is over (never the KeepAlive just sealed), then a
\* FragmentNack, which the server's window takes for an Ack (see Fragments).
OnTick(alive, overdue, nacks) ==
    /\ ~closed
    /\ \/ alive /\ SendReliable(KeepAlive, overdue \cup nacks)
       \/ /\ ~alive
          /\ toServer' = toServer \cup overdue \cup nacks
          /\ UNCHANGED <<cSeqNum, unacked, typed>>
    /\ UNCHANGED <<cAckSeqNum, cHistory, closed, toClient>>

\* The user typed the disconnect escape, or the terminal or the socket failed.
Disconnect ==
    /\ ~closed
    /\ closed' = TRUE
    /\ UNCHANGED <<netVars, cSeqNum, cAckSeqNum, unacked, cHistory, typed>>

-----------------------------------------------------------------------------
(***************************************************************************)
(* feed_packet.  Whatever the packet, its acknowledgement prunes the        *)
(* retransmission buffer; only then is its number looked at.                *)
(***************************************************************************)
Unpruned_OffByOne(ack) == {p \in unacked : p.seq > ack + 1}

Unpruned(ack) == {p \in unacked : p.seq > ack}

FeedStale(m) ==
    /\ ~closed /\ m \in toClient
    /\ m.seq <= cAckSeqNum
    /\ unacked' = Unpruned(m.ack)
    /\ toClient' \in Remaining(toClient, m)
    /\ UNCHANGED <<toServer, cSeqNum, cAckSeqNum, cHistory, closed, typed>>

\* The screen a frame is relative to: a blank one, or one of the history.
HasRef(update) == update.ref_seq = 0 \/ update.ref_seq \in DOMAIN cHistory

\* The update is applied to the newest screen, whatever it refers to.
Rebuilt_OnLatest(update) ==
    Patch(IF DOMAIN cHistory = {} THEN BlankGrid(update.cols, update.rows, update.cursor)
          ELSE cHistory[CHOOSE s \in DOMAIN cHistory : \A t \in DOMAIN cHistory : t <= s],
          update)

Rebuilt(update) ==
    Patch(IF update.ref_seq = 0 THEN BlankGrid(update.cols, update.rows, update.cursor)
                                ELSE cHistory[update.ref_seq],
          update)

\* A newer frame: the number is taken even if the frame cannot be used.  A
\* frame without its reference is dropped and acknowledged at once; one that
\* patch refuses ends the client; otherwise the Ack is rate limited.
FeedFrame(m, ackDue) ==
    LET usable == HasRef(m.update) /\ InBounds(m.update)
    IN  /\ ~closed /\ m \in toClient /\ m.type = "Frame"
        /\ m.seq > cAckSeqNum
        /\ cAckSeqNum' = m.seq
        /\ unacked' = Unpruned(m.ack)
        /\ cHistory' = IF usable THEN PushBounded(cHistory, m.seq, Rebuilt(m.update))
                                 ELSE cHistory
        /\ toServer' = IF (usable /\ ackDue) \/ ~HasRef(m.update)
                       THEN toServer \cup {Ack(m.seq)} ELSE toServer
        /\ closed' = (HasRef(m.update) /\ ~InBounds(m.update))
        /\ toClient' \in Remaining(toClient, m)
        /\ UNCHANGED <<cSeqNum, typed>>

\* Any other newer packet; Shutdown ends the client.
FeedControl(m) ==
    /\ ~closed /\ m \in toClient /\ m.type # "Frame"
    /\ m.seq > cAckSeqNum
    /\ cAckSeqNum' = m.seq
    /\ unacked' = Unpruned(m.ack)
    /\ closed' = (m.type = "Shutdown")
    /\ toClient' \in Remaining(toClient, m)
    /\ UNCHANGED <<toServer, cSeqNum, cHistory, typed>>

=============================================================================

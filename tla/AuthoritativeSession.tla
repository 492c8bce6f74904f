------------------------ MODULE AuthoritativeSession ------------------------
(***************************************************************************)
(* The server's session (src/server/session.rs) with the part of the event  *)
(* loop that runs its actions (src/server/network.rs): the sliding window   *)
(* over client packets, the history of screens the client may refer to, the *)
(* choice of the reference for the next frame, and the single diff job.     *)
(*                                                                         *)
(* Time is abstracted: wherever the code compares instants (throttling, the *)
(* five seconds of silence before a handshake is honoured) the model allows *)
(* both outcomes.  A frame's diff is compiled when it is queued: the job    *)
(* owns copies of both screens, so when it runs cannot matter.              *)
(***************************************************************************)
EXTENDS Grid, History, Network, Sequences

CONSTANTS
    StartSeq,       \* number of the handshake packet that opened the session
    Screens,        \* screens the terminal emulator can show
    MaxLag,         \* 5 in the code: how far the client may lag behind
    ShutdownCopies, \* 3: how often the Shutdown packet is sent
    MaxServerSeq,   \* bound of the model: no frame is numbered beyond this
    MayExit         \* whether the server's process may end in this instance

ASSUME ServerAssumption ==
    /\ StartSeq \in Nat \ {0} /\ ShutdownCopies \in Nat /\ MaxServerSeq \in Nat
    /\ MaxLag \in Nat /\ MaxLag < HistoryCap /\ MayExit \in BOOLEAN
    /\ \A g \in Screens : IsGrid(g) /\ Fits(g)

VARIABLES
    sSeqNum,            \* last packet number used
    sAckSeqNum,         \* last client packet processed
    expectedClientSeq,  \* next client packet to process
    outOfOrder,         \* buffered payloads, by packet number
    clientAckSeq,       \* last acknowledgement taken from the client
    lastSentAckSeq,     \* sAckSeqNum when a frame was last queued
    sHistory,           \* screens of recent frames, by frame number
    dirty,              \* the screen may differ from the last frame
    term,               \* the screen of the terminal emulator (external)
    job,                \* the frame of the diff job in flight, or NoJob
    farewell,           \* Running, the Shutdown packet being sent, or Gone
    processed,          \* history: payloads applied, in order
    snapshots,          \* history: the screen of every frame ever queued
    wasReset            \* history: a handshake reset the window

streamVars == <<sAckSeqNum, expectedClientSeq, outOfOrder, processed>>
syncVars == <<sSeqNum, lastSentAckSeq, sHistory, dirty, job, snapshots>>
serverVars == <<streamVars, syncVars, clientAckSeq, term, farewell, wasReset>>

EmptyBuffer == [s \in {} |-> TRUE]
NoJob == [type |-> "NoJob"]
Running == [type |-> "Running"]
Gone == [type |-> "Gone"]

\* main_loop and the timer run until the process ends.
ServerUp == farewell # Gone

ServerInit ==
    /\ sSeqNum = 0
    /\ sAckSeqNum = StartSeq
    /\ expectedClientSeq = StartSeq + 1
    /\ outOfOrder = EmptyBuffer
    /\ clientAckSeq = 0
    /\ lastSentAckSeq = 0
    /\ sHistory = EmptyHistory
    /\ dirty = FALSE
    /\ term \in Screens
    /\ job = NoJob
    /\ farewell = Running
    /\ processed = <<>>
    /\ snapshots = EmptyHistory
    /\ wasReset = FALSE

-----------------------------------------------------------------------------
\* The last frame queued is the reference, acknowledged or not.
RefSeq_LastSent(seq, ack, hist) ==
    IF DOMAIN hist = {} THEN 0
    ELSE CHOOSE s \in DOMAIN hist : \A t \in DOMAIN hist : t <= s

(***************************************************************************)
(* The reference of the next frame: the screen the client acknowledged, if  *)
(* it is in the history and the client does not lag; otherwise none (0).    *)
(***************************************************************************)
RefSeq(seq, ack, hist) ==
    LET lag == IF seq > ack THEN seq - ack ELSE 0
    IN  IF lag <= MaxLag /\ ack \in DOMAIN hist THEN ack ELSE 0

(***************************************************************************)
(* Queue a frame.  If a diff job is still in flight the frame is dropped,   *)
(* although the history and the acknowledgement already count it as sent.   *)
(***************************************************************************)
QueueFrame(seq, ack, clientAck, hist, grid) ==
    LET kept == PruneAcked(hist, clientAck)
        ref  == RefSeq(seq, clientAck, kept)
        base == IF ref = 0 THEN BlankGrid(grid.cols, grid.rows, grid.cursor) ELSE kept[ref]
    IN  /\ seq < MaxServerSeq
        /\ sSeqNum' = seq + 1
        /\ lastSentAckSeq' = ack
        /\ dirty' = FALSE
        /\ sHistory' = PushBounded(kept, seq + 1, grid)
        /\ snapshots' = With(snapshots, seq + 1, grid)
        /\ job' = IF job = NoJob THEN Frame(seq + 1, ack, DiffFrom(grid, base, ref))
                                 ELSE job

\* dirty is cleared before the emulator has given its screen.
CheckSync_DirtyCleared(seq, ack, clientAck, hist, isDirty, grid) ==
    \/ /\ sSeqNum' = seq /\ sHistory' = hist /\ dirty' = FALSE
       /\ UNCHANGED <<lastSentAckSeq, job, snapshots>>
    \/ /\ ack > lastSentAckSeq \/ (isDirty /\ ~IdenticalToLast(hist, grid))
       /\ QueueFrame(seq, ack, clientAck, hist, grid)

(***************************************************************************)
(* check_sync, run at the end of a handler with the values the handler has  *)
(* computed.  It does nothing if it is throttled, if there is nothing to    *)
(* send, or if the emulator fails to give its screen, which it always may.  *)
(***************************************************************************)
CheckSync(seq, ack, clientAck, hist, isDirty, grid) ==
    \/ /\ sSeqNum' = seq /\ sHistory' = hist /\ dirty' = isDirty
       /\ UNCHANGED <<lastSentAckSeq, job, snapshots>>
    \/ /\ isDirty /\ ack <= lastSentAckSeq /\ IdenticalToLast(hist, grid)
       /\ sSeqNum' = seq /\ sHistory' = hist /\ dirty' = FALSE
       /\ UNCHANGED <<lastSentAckSeq, job, snapshots>>
    \/ /\ ack > lastSentAckSeq \/ (isDirty /\ ~IdenticalToLast(hist, grid))
       /\ QueueFrame(seq, ack, clientAck, hist, grid)

-----------------------------------------------------------------------------
(***************************************************************************)
(* feed_packet, one action per kind of packet.                              *)
(***************************************************************************)

\* A handshake (session id 0).  Ignored while the client has been heard of
\* in the last five seconds and anything was sent; otherwise it restarts the
\* window at its own number.  lastSentAckSeq is not reset.
FeedHandshakeIgnored(m) ==
    /\ ServerUp /\ m \in toServer /\ m.type = "Handshake"
    /\ sSeqNum > 0
    /\ toServer' \in Remaining(toServer, m)
    /\ UNCHANGED <<toClient, serverVars>>

FeedHandshake(m) ==
    /\ ServerUp /\ m \in toServer /\ m.type = "Handshake"
    /\ sSeqNum < MaxServerSeq
    /\ sAckSeqNum' = m.seq
    /\ expectedClientSeq' = m.seq + 1
    /\ clientAckSeq' = 0
    /\ outOfOrder' = EmptyBuffer
    /\ wasReset' = TRUE
    /\ toServer' \in Remaining(toServer, m)
    /\ toClient' = toClient \cup {Control("HandshakeAck", sSeqNum + 1, m.seq)}
    /\ CheckSync(sSeqNum + 1, m.seq, 0, EmptyHistory, TRUE, term)
    /\ UNCHANGED <<term, farewell, processed>>

\* A transient packet only moves the acknowledgement forward.
FeedAck(m) ==
    /\ ServerUp /\ m \in toServer /\ m.type = "Ack"
    /\ clientAckSeq' = IF m.ack > clientAckSeq THEN m.ack ELSE clientAckSeq
    /\ toServer' \in Remaining(toServer, m)
    /\ CheckSync(sSeqNum, sAckSeqNum, clientAckSeq', sHistory, dirty, term)
    /\ UNCHANGED <<toClient, streamVars, term, farewell, wasReset>>

\* A reliable packet below the window is dropped, and nothing is sent.
FeedDuplicate(m) ==
    /\ ServerUp /\ m \in toServer /\ m.type = "Reliable"
    /\ m.seq < expectedClientSeq
    /\ toServer' \in Remaining(toServer, m)
    /\ UNCHANGED <<toClient, serverVars>>

\* A reliable packet above the window is buffered, and nothing is sent.
FeedOutOfOrder(m) ==
    /\ ServerUp /\ m \in toServer /\ m.type = "Reliable"
    /\ m.seq > expectedClientSeq
    /\ outOfOrder' = [s \in DOMAIN outOfOrder \cup {m.seq} |->
                         IF s = m.seq THEN m.payload ELSE outOfOrder[s]]
    /\ toServer' \in Remaining(toServer, m)
    /\ UNCHANGED <<toClient, sAckSeqNum, expectedClientSeq, processed, syncVars,
                   clientAckSeq, term, farewell, wasReset>>

\* The screens the emulator may show after the resizes of a batch: the last
\* one decides the size, the emulator decides how the text is reflowed.
ScreensAfter(batch) ==
    LET resizes == {i \in DOMAIN batch : batch[i].kind = "Resize"}
        last    == batch[CHOOSE i \in resizes : \A j \in resizes : j <= i]
    IN  IF resizes = {} THEN {term}
        ELSE {g \in Screens : g.cols = last.cols /\ g.rows = last.rows}

\* A window that takes old numbers as well.
IsExpected_OrOlder(m) == m.seq <= expectedClientSeq

\* The packet the window waits for.
IsExpected(m) == m.seq = expectedClientSeq

\* next is the first number after m that is neither m nor buffered.
FirstGap(m, next) ==
    /\ next > m.seq /\ next \notin DOMAIN outOfOrder
    /\ ((m.seq + 1)..(next - 1)) \subseteq DOMAIN outOfOrder

\* The number is used before it is incremented.
Replies_OldNumber(seq, alive, ack) ==
    {Control("KeepAlive", seq + k - 1, ack) : k \in 1..alive}

\* One answer for each KeepAlive of a batch, numbered after seq.
Replies(seq, alive, ack) ==
    {Control("KeepAlive", seq + k, ack) : k \in 1..alive}

\* The expected packet: it and the buffered packets that follow it without a
\* gap (up to next) are applied in one sweep.  Every KeepAlive is answered.
\* The acknowledgement is taken from the packet as it is, older or not.
FeedInOrder(m, next) ==
    LET batch == [i \in 1..(next - m.seq) |->
                    IF i = 1 THEN m.payload ELSE outOfOrder[m.seq + i - 1]]
        resized == \E i \in DOMAIN batch : batch[i].kind = "Resize"
        alive == Cardinality({i \in DOMAIN batch : batch[i].kind = "KeepAlive"})
    IN  /\ ServerUp /\ m \in toServer /\ m.type = "Reliable"
        /\ IsExpected(m) /\ FirstGap(m, next)
        /\ expectedClientSeq' = next
        /\ sAckSeqNum' = next - 1
        /\ outOfOrder' = Restrict(outOfOrder, DOMAIN outOfOrder \ (m.seq..(next - 1)))
        /\ clientAckSeq' = m.ack
        /\ processed' = processed \o batch
        /\ term' \in ScreensAfter(batch)
        /\ toServer' \in Remaining(toServer, m)
        /\ toClient' = toClient \cup Replies(sSeqNum, alive, next - 1)
        /\ CheckSync(sSeqNum + alive, next - 1, m.ack, sHistory, dirty \/ resized, term')
        /\ UNCHANGED <<farewell, wasReset>>

-----------------------------------------------------------------------------
(***************************************************************************)
(* The other tasks of run_server.                                           *)
(***************************************************************************)

\* The shell wrote something: the screen becomes another one of the same
\* size, or stays what it is.
OnPtyBytes ==
    /\ farewell = Running
    /\ term' \in {g \in Screens : g.cols = term.cols /\ g.rows = term.rows}
    /\ dirty' = TRUE
    /\ UNCHANGED <<netVars, streamVars, sSeqNum, lastSentAckSeq, sHistory, job,
                   snapshots, clientAckSeq, farewell, wasReset>>

\* The 16 ms timer skips its turn while a diff job is in flight.
ServerTick ==
    /\ ServerUp /\ job = NoJob
    /\ CheckSync(sSeqNum, sAckSeqNum, clientAckSeq, sHistory, dirty, term)
    /\ UNCHANGED <<netVars, streamVars, clientAckSeq, term, farewell, wasReset>>

\* The diff job sends its frame, and frees the slot some time later; a job
\* that fails frees it without sending.  (That the slot is still taken after
\* the frame was sent may look like a repetition, which the network allows.)
JobSend ==
    /\ ServerUp /\ job # NoJob
    /\ toClient' = toClient \cup {job}
    /\ UNCHANGED <<toServer, serverVars>>

JobDone ==
    /\ ServerUp /\ job # NoJob
    /\ job' = NoJob
    /\ UNCHANGED <<netVars, streamVars, sSeqNum, lastSentAckSeq, sHistory, dirty,
                   snapshots, clientAckSeq, term, farewell, wasReset>>

\* The shell exited: prepare_shutdown numbers one packet ...
PtyExit ==
    /\ farewell = Running
    /\ sSeqNum' = sSeqNum + 1
    /\ farewell' = [type |-> "Shutdown", seq |-> sSeqNum + 1, left |-> ShutdownCopies]
    /\ UNCHANGED <<netVars, streamVars, lastSentAckSeq, sHistory, dirty, job,
                   snapshots, clientAckSeq, term, wasReset>>

\* ... which is sent ShutdownCopies times while the other tasks go on.
SendShutdown ==
    /\ farewell.type = "Shutdown" /\ farewell.left > 0
    /\ toClient' = toClient \cup {Control("Shutdown", farewell.seq, 0)}
    /\ farewell' = [farewell EXCEPT !.left = @ - 1]
    /\ UNCHANGED <<toServer, streamVars, syncVars, clientAckSeq, term, wasReset>>

\* The process ends: 50 ms after the last copy, or at a signal, at any time.
\* (Where MayExit is FALSE the server may still stop for ever, by stuttering.)
ServerExit ==
    /\ MayExit /\ ServerUp
    /\ farewell' = Gone
    /\ UNCHANGED <<netVars, streamVars, syncVars, clientAckSeq, term, wasReset>>

=============================================================================

------------------------------ MODULE Delivery ------------------------------
(***************************************************************************)
(* How the server's screen reaches a client that roams: what is left of a   *)
(* session when packet numbers are abstracted to their order.               *)
(*                                                                         *)
(* queue holds the packets for the client that are newer than anything it   *)
(* took, in the order of their numbers; the frame of the diff job in flight *)
(* is among them.  Taking a packet makes all older ones stale.  The server  *)
(* answers to the address the last accepted packet came from, and packets   *)
(* from an address the client has left may still arrive.                    *)
(***************************************************************************)
EXTENDS Naturals, SequencesExt

CONSTANTS
    Shown,      \* screens the terminal emulator can show
    NoScreen,   \* none sent or none received yet
    Addresses,  \* addresses the client may have
    Late,       \* bound: packets that arrive late from an address just left
    QueueCap,   \* bound: packets newer than what the client took
    Answers     \* bound: KeepAlives in one batch of reliable packets

ASSUME DeliveryAssumption ==
    /\ NoScreen \notin Shown /\ Late \in Nat /\ QueueCap \in Nat \ {0} /\ Answers \in Nat

VARIABLES
    shows,      \* the screen of the terminal emulator (external)
    changed,    \* dirty: it may differ from the last frame
    lastSent,   \* the back of state_history, or NoScreen
    ackDue,     \* ack_seq_num > last_sent_ack_seq
    inFlight,   \* diff_in_flight
    queue,      \* packets for the client, in the order of their numbers
    screen,     \* the screen the client shows
    clientAddr, \* where the client is
    serverAddr, \* current_client_addr
    late,       \* how many packets may still arrive from each address
    parting,    \* prepare_shutdown was called
    rejoined    \* history: a late handshake reset the window

sendVars == <<changed, lastSent, ackDue, inFlight, queue>>
deliveryVars == <<shows, sendVars, screen, clientAddr, serverAddr, late, parting, rejoined>>

FrameFor(addr, scr) == [kind |-> "Frame", screen |-> scr, to |-> addr]
ReplyFor(addr) == [kind |-> "Reply", to |-> addr]

\* The network loses the oldest packet rather than hold more than QueueCap.
Push(q, m) == Append(IF Len(q) < QueueCap THEN q ELSE Tail(q), m)

PushReplies(q, n, addr) ==
    LET pushed[k \in 0..n] == IF k = 0 THEN q ELSE Push(pushed[k - 1], ReplyFor(addr))
    IN  pushed[n]

DeliveryInit ==
    /\ shows \in Shown /\ changed = FALSE /\ lastSent = NoScreen
    /\ ackDue = TRUE    \* the handshake's number is not acknowledged by a frame yet
    /\ inFlight = FALSE /\ queue = <<>> /\ screen = NoScreen
    /\ clientAddr \in Addresses /\ serverAddr = clientAddr
    /\ late = [a \in Addresses |-> 0]
    /\ parting = FALSE /\ rejoined = FALSE

-----------------------------------------------------------------------------
\* A screen the client was sent before is never sent again.
NeedsFrame_NeverTwice(due, dirty, last, scr) == dirty /\ last # scr

\* The same screen is sent again when there is something to acknowledge.
NeedsFrame(due, dirty, last, scr) == due \/ (dirty /\ last # scr)

\* check_sync, with the values the handler has computed.  It may be throttled.
Check(dirty, last, due, scr, addr, q) ==
    \/ changed' = dirty /\ lastSent' = last /\ ackDue' = due /\ queue' = q
       /\ UNCHANGED inFlight
    \/ /\ dirty /\ ~NeedsFrame(due, dirty, last, scr)
       /\ changed' = FALSE /\ lastSent' = last /\ ackDue' = due /\ queue' = q
       /\ UNCHANGED inFlight
    \/ /\ NeedsFrame(due, dirty, last, scr)
       /\ changed' = FALSE /\ lastSent' = scr /\ ackDue' = FALSE
       /\ inFlight' = TRUE
       /\ queue' = IF inFlight THEN q ELSE Push(q, FrameFor(addr, scr))

\* on_pty_bytes.
Output ==
    /\ shows' \in Shown /\ changed' = TRUE
    /\ UNCHANGED <<lastSent, ackDue, inFlight, queue, screen, clientAddr, serverAddr,
                   late, parting, rejoined>>

\* The 16 ms timer.
Tick ==
    /\ ~inFlight
    /\ Check(changed, lastSent, ackDue, shows, serverAddr, queue)
    /\ UNCHANGED <<shows, screen, clientAddr, serverAddr, late, parting, rejoined>>

\* The job ends; its frame was sent, or is lost with it.
JobEnd ==
    /\ inFlight /\ inFlight' = FALSE
    /\ \/ queue' = queue
       \/ \E i \in 1..Len(queue) : queue[i].kind = "Frame" /\ queue' = RemoveAt(queue, i)
    /\ UNCHANGED <<shows, changed, lastSent, ackDue, screen, clientAddr, serverAddr,
                   late, parting, rejoined>>

-----------------------------------------------------------------------------
\* Only the first address is ever used.
Follow_Fixed(src) == serverAddr

\* Every packet that is accepted moves the reply address.
Follow(src) == src

\* A packet from src arrives: from where the client is, or late.
Arrives(src) ==
    \/ src = clientAddr /\ late' = late
    \/ late[src] > 0 /\ late' = [late EXCEPT ![src] = @ - 1]

\* Reliable packets are applied: the acknowledgement moves, n KeepAlives are
\* answered, and a Resize may change the screen.
Applied(src, n) ==
    LET addr == Follow(src)
    IN  /\ Arrives(src) /\ serverAddr' = addr
        /\ shows' \in Shown
        /\ \E due \in (IF rejoined THEN BOOLEAN ELSE {TRUE}),
              dirty \in (IF shows' = shows THEN {changed, TRUE} ELSE {TRUE}) :
               Check(dirty, lastSent, due, shows', addr, PushReplies(queue, n, addr))
        /\ UNCHANGED <<screen, clientAddr, parting, rejoined>>

\* An Ack or a FragmentNack.
Transient(src) ==
    /\ Arrives(src) /\ serverAddr' = Follow(src)
    /\ Check(changed, lastSent, ackDue, shows, serverAddr', queue)
    /\ UNCHANGED <<shows, screen, clientAddr, parting, rejoined>>

\* A reliable packet that is buffered or was applied before.
Unexpected(src) ==
    /\ Arrives(src) /\ serverAddr' = Follow(src)
    /\ UNCHANGED <<shows, sendVars, screen, clientAddr, parting, rejoined>>

\* A handshake after five seconds of silence.
Rejoin(src) ==
    /\ Arrives(src) /\ serverAddr' = Follow(src) /\ rejoined' = TRUE
    /\ \E due \in BOOLEAN :
          Check(TRUE, NoScreen, due, shows, serverAddr', Push(queue, ReplyFor(serverAddr')))
    /\ UNCHANGED <<shows, screen, clientAddr, parting>>

\* prepare_shutdown.
Farewell ==
    /\ ~parting /\ parting' = TRUE
    /\ queue' = Push(queue, ReplyFor(serverAddr))
    /\ UNCHANGED <<shows, changed, lastSent, ackDue, inFlight, screen, clientAddr,
                   serverAddr, late, rejoined>>

-----------------------------------------------------------------------------
\* The client takes a packet sent to where it is.
Take(i) ==
    /\ queue[i].to = clientAddr
    /\ screen' = IF queue[i].kind = "Frame" THEN queue[i].screen ELSE screen
    /\ queue' = SubSeq(queue, i + 1, Len(queue))
    /\ UNCHANGED <<shows, changed, lastSent, ackDue, inFlight, clientAddr, serverAddr,
                   late, parting, rejoined>>

Lose(i) ==
    /\ queue' = RemoveAt(queue, i)
    /\ UNCHANGED <<shows, changed, lastSent, ackDue, inFlight, screen, clientAddr,
                   serverAddr, late, parting, rejoined>>

\* The client moves; what it sent from the old address may arrive later.
Roam ==
    /\ \E a \in Addresses \ {clientAddr} : clientAddr' = a
    /\ late' = [late EXCEPT ![clientAddr] = Late]
    /\ UNCHANGED <<shows, sendVars, screen, serverAddr, parting, rejoined>>

DeliveryNext ==
    \/ Output \/ Tick \/ JobEnd \/ Farewell \/ Roam
    \/ \E src \in Addresses :
          \/ \E n \in 0..Answers : Applied(src, n)
          \/ Transient(src) \/ Unexpected(src) \/ Rejoin(src)
    \/ \E i \in 1..Len(queue) : Take(i) \/ Lose(i)

DeliverySpec == DeliveryInit /\ [][DeliveryNext]_deliveryVars

(***************************************************************************)
(* Fairness.  The timer ticks and a job ends; a client that is alive sends  *)
(* KeepAlives and the reliable stream applies them (EventuallyApplied of    *)
(* Session), from wherever it is; and when frames are sent to the client    *)
(* again and again one is taken, sooner or later.                           *)
(***************************************************************************)
TakeFrame == \E i \in 1..Len(queue) : queue[i].kind = "Frame" /\ Take(i)

FairDeliverySpec ==
    /\ DeliverySpec
    /\ WF_deliveryVars(Tick) /\ WF_deliveryVars(JobEnd)
    /\ WF_deliveryVars(Applied(clientAddr, 1))
    /\ SF_deliveryVars(TakeFrame)

-----------------------------------------------------------------------------
(***************************************************************************)
(* If the server's screen and the client's address stop changing, the       *)
(* client shows that screen at last and for good: although frames are lost, *)
(* dropped because a job is in flight after they were recorded as sent,     *)
(* skipped as identical, overtaken by replies, or sent to an address the    *)
(* client has left because a late packet moved the reply address back.      *)
(***************************************************************************)
Converges ==
    \A s \in Shown, a \in Addresses :
        <>[](shows = s /\ clientAddr = a /\ ~rejoined) => <>[](screen = s)

=============================================================================

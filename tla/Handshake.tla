----------------------------- MODULE Handshake ------------------------------
(***************************************************************************)
(* How a session begins: the client's handshake loop                        *)
(* (src/client/network.rs), wait_for_client_handshake of the server         *)
(* (src/server/network.rs), and the running session's answer to handshakes  *)
(* that still arrive (feed_packet in src/server/session.rs).                *)
(*                                                                         *)
(* A packet for the client carries the handshake number it acknowledges and *)
(* the key it is sealed with: the handshake key, the only one the client    *)
(* has before it knows the session, or the session's.                       *)
(***************************************************************************)
EXTENDS Network

CONSTANT MaxHandshake   \* bound of the model: later retries repeat this number

ASSUME HandshakeAssumption == MaxHandshake \in Nat \ {0}

VARIABLES
    handshakeSeq,   \* number of the client's current attempt
    joined,         \* the client left the loop with a session
    phase,          \* of the server: "Off", "Waiting", "Session" or "Gone"
    startSeq,       \* number the server's window starts from
    numbered,       \* the running session has numbered a packet
    restarted       \* history: a handshake reset the running session

shakeVars == <<handshakeSeq, joined, phase, startSeq, numbered, restarted>>
vars == <<netVars, shakeVars>>

Reply(key, ack) == [key |-> key, ack |-> ack]

HandshakeInit ==
    /\ handshakeSeq = 1
    /\ joined = FALSE
    /\ phase = "Waiting"
    /\ startSeq = 0
    /\ numbered = FALSE
    /\ restarted = FALSE
    /\ toServer = {Handshake(1)}
    /\ toClient = {}

-----------------------------------------------------------------------------
(***************************************************************************)
(* The client's loop: send, then wait for a packet or for half a second.    *)
(***************************************************************************)

\* Any acknowledgement will do.
Accepts_AnyAck(m) == m.key = "handshake"

\* The packet opens with the handshake key and acknowledges this attempt.
Accepts(m) == m.key = "handshake" /\ m.ack = handshakeSeq

TakeHandshakeAck(m) ==
    /\ ~joined /\ m \in toClient /\ Accepts(m)
    /\ joined' = TRUE
    /\ toClient' \in Remaining(toClient, m)
    /\ UNCHANGED <<toServer, handshakeSeq, phase, startSeq, numbered, restarted>>

\* Anything else is ignored, and the same attempt is sent again at once.
TakeOther(m) ==
    /\ ~joined /\ m \in toClient /\ ~Accepts(m)
    /\ toServer' = toServer \cup {Handshake(handshakeSeq)}
    /\ toClient' \in Remaining(toClient, m)
    /\ UNCHANGED shakeVars

\* Half a second without a packet: the next attempt.
HandshakeTimeout ==
    /\ ~joined
    /\ handshakeSeq' = IF handshakeSeq < MaxHandshake THEN handshakeSeq + 1 ELSE handshakeSeq
    /\ toServer' = toServer \cup {Handshake(handshakeSeq')}
    /\ UNCHANGED <<toClient, joined, phase, startSeq, numbered, restarted>>

-----------------------------------------------------------------------------
\* wait_for_client_handshake: the first handshake is answered once, and the
\* session is built on its number.
AcceptHandshake(m) ==
    /\ phase = "Waiting" /\ m \in toServer
    /\ phase' = "Session"
    /\ startSeq' = m.seq
    /\ toServer' \in Remaining(toServer, m)
    /\ toClient' = toClient \cup {Reply("handshake", m.seq)}
    /\ UNCHANGED <<handshakeSeq, joined, numbered, restarted>>

\* The wait has no timer.
GiveUp_Never == FALSE

\* Nobody came within a minute, or a signal.
GiveUp ==
    /\ phase = "Waiting"
    /\ phase' = "Gone"
    /\ UNCHANGED <<netVars, handshakeSeq, joined, startSeq, numbered, restarted>>

\* The shell or the session cannot be made, after the acknowledgement was sent
\* and before the session does anything: the process ends.
ShellFails ==
    /\ phase = "Session" /\ ~numbered
    /\ phase' = "Gone"
    /\ UNCHANGED <<netVars, handshakeSeq, joined, startSeq, numbered, restarted>>

\* The running session: a handshake is ignored if something was numbered and
\* the client was heard of lately; otherwise it restarts the window and is
\* answered with the session's key.
SessionIgnores(m) ==
    /\ phase = "Session" /\ m \in toServer /\ numbered
    /\ toServer' \in Remaining(toServer, m)
    /\ UNCHANGED <<toClient, shakeVars>>

SessionRestarts(m) ==
    /\ phase = "Session" /\ m \in toServer
    /\ startSeq' = m.seq
    /\ numbered' = TRUE
    /\ restarted' = TRUE
    /\ toServer' \in Remaining(toServer, m)
    /\ toClient' = toClient \cup {Reply("session", m.seq)}
    /\ UNCHANGED <<handshakeSeq, joined, phase>>

\* A frame of the running session.
SessionFrame ==
    /\ phase = "Session"
    /\ numbered' = TRUE
    /\ toClient' = toClient \cup {Reply("session", startSeq)}
    /\ UNCHANGED <<toServer, handshakeSeq, joined, phase, startSeq, restarted>>

-----------------------------------------------------------------------------
ClientShakes ==
    \/ \E m \in toClient : TakeHandshakeAck(m) \/ TakeOther(m)
    \/ HandshakeTimeout

ServerShakes ==
    \/ \E m \in toServer : AcceptHandshake(m) \/ SessionIgnores(m) \/ SessionRestarts(m)
    \/ SessionFrame

NetworkLoses == (LoseToServer \/ LoseToClient) /\ UNCHANGED shakeVars

HandshakeNext == ClientShakes \/ ServerShakes \/ GiveUp \/ ShellFails \/ NetworkLoses

HandshakeSpec == HandshakeInit /\ [][HandshakeNext]_vars

(***************************************************************************)
(* Fairness.  The client retries for ever, a handshake number that is sent  *)
(* again and again reaches the server, the server answers those it may, and *)
(* an acknowledgement that is in the network again and again is taken.      *)
(***************************************************************************)
FairHandshakeSpec ==
    /\ HandshakeSpec
    /\ WF_vars(HandshakeTimeout)
    /\ \A s \in 1..MaxHandshake :
          /\ SF_vars(Handshake(s) \in toServer /\ AcceptHandshake(Handshake(s)))
          /\ SF_vars(Handshake(s) \in toServer /\ SessionRestarts(Handshake(s)))
    /\ SF_vars(\E m \in toClient : TakeHandshakeAck(m))

(***************************************************************************)
(* What Session starts from: a client that joined did so with the number    *)
(* the server's window starts from, unless a handshake has restarted the    *)
(* window since, and then no handshake in the network has a larger number.  *)
(* The server had answered, and may have failed to start its shell since.   *)
(***************************************************************************)
JoinedAtStart ==
    joined => /\ phase \in {"Session", "Gone"}
              /\ ~restarted => startSeq = handshakeSeq
              /\ \A m \in toServer : m.seq <= handshakeSeq
              /\ startSeq <= handshakeSeq

(***************************************************************************)
(* "The server responds with HandshakeAck, and the active UDP terminal      *)
(* session begins": a client that keeps trying joins at last, unless the    *)
(* server gave up or could not start its shell.                             *)
(***************************************************************************)
SessionBegins == <>(joined \/ phase = "Gone")

=============================================================================

------------------------------ MODULE Startup -------------------------------
(***************************************************************************)
(* From the two command lines to the handshake: run_server_subcommand and   *)
(* run_client_mode (src/main.rs), the scan for a free port                  *)
(* (src/server/network.rs) and the bootstrap over ssh                       *)
(* (src/client/bootstrap.rs), composed with Handshake.                      *)
(*                                                                         *)
(* In "ssh" mode the client starts the server; ssh carries its output and   *)
(* its exit status, and may fail at any time (external).  In "direct" mode  *)
(* the user starts both, with a port and a key known to both.  The key is   *)
(* printed and read together with the port, and stands for it here.         *)
(***************************************************************************)
EXTENDS Handshake, Sequences

CONSTANT MaxPort   \* bound of the model: ports are 1..MaxPort

ASSUME StartupAssumption == MaxPort \in Nat \ {0}

VARIABLES
    mode,       \* "ssh" or "direct"
    client,     \* "idle", "reading", "detaching", "running" or "failed"
    target,     \* the port the client was told, 0 before
    stage,      \* of the server: "args", "scan", "print", "detach", "serve", "exited"
    range,      \* first and last port the server was told to try
    cursor,     \* the port it tries, then the one it has
    bound,      \* the port of its open socket, 0 without one
    printed,    \* lines it has printed
    pipe,       \* lines the client has not read
    status      \* exit status of ssh: "none", "ok" or "error"

clientVars == <<mode, client, target>>
serverVars == <<stage, range, cursor, bound, printed>>
sshVars == <<pipe, status>>
allVars == <<vars, clientVars, serverVars, sshVars>>

\* A line is the token, something parse_token passes over, or something that
\* looks like a token with a port or a key that does not parse.
Lines == {"token", "other", "malformed"}

\* What the server prints.
Output == <<"token", "other", "other">>

\* The login shell on the server's host may have printed a line of its own.
StartupInit ==
    /\ handshakeSeq = 1 /\ joined = FALSE /\ toServer = {} /\ toClient = {}
    /\ phase = "Off" /\ startSeq = 0 /\ numbered = FALSE /\ restarted = FALSE
    /\ mode \in {"ssh", "direct"} /\ target = 0
    /\ client = IF mode = "ssh" THEN "reading" ELSE "idle"
    /\ stage = "args" /\ range \in (1..MaxPort) \X (1..MaxPort)
    /\ cursor = 0 /\ bound = 0 /\ printed = 0
    /\ pipe \in {<<>>, <<"other">>, <<"malformed">>} /\ status = "none"

-----------------------------------------------------------------------------
(***************************************************************************)
(* The server, up to the point where it waits for a handshake.              *)
(***************************************************************************)
ServerExits ==
    /\ stage' = "exited" /\ bound' = 0
    /\ UNCHANGED <<vars, clientVars, sshVars, range, cursor, printed>>

\* A range whose start is after its end is refused.
ParseArgs ==
    /\ stage = "args" /\ range[1] <= range[2]
    /\ stage' = "scan" /\ cursor' = range[1]
    /\ UNCHANGED <<vars, clientVars, sshVars, range, bound, printed>>

\* That, or any argument (range, address, RUMSH_KEY) that does not parse.
BadArgs == stage = "args" /\ ServerExits

\* bind_to_available_port_sync; other processes take and leave ports at will.
PortFree ==
    /\ stage = "scan"
    /\ stage' = "print" /\ bound' = cursor
    /\ UNCHANGED <<vars, clientVars, sshVars, range, cursor, printed>>

PortTaken ==
    /\ stage = "scan" /\ cursor < range[2]
    /\ cursor' = cursor + 1
    /\ UNCHANGED <<vars, clientVars, sshVars, stage, range, bound, printed>>

NoPortFree == stage = "scan" /\ cursor = range[2] /\ ServerExits

\* parse_token drops its end of the pipe when it returns, and ssh may be gone.
ReaderGone == mode = "ssh" /\ (client # "reading" \/ status # "none")

\* Each println! writes one line.
PrintLine ==
    /\ stage = "print"
    /\ printed' = printed + 1
    /\ stage' = IF printed' = Len(Output) THEN "detach" ELSE "print"
    /\ pipe' = IF ReaderGone THEN pipe ELSE Append(pipe, Output[printed'])
    /\ UNCHANGED <<vars, clientVars, range, cursor, bound, status>>

\* println! panics when the pipe is closed at the other end.
PrintPanics == stage = "print" /\ ReaderGone /\ ServerExits

\* daemonize (external) lets the parent exit with success once the daemon
\* runs, which keeps the socket.  --no-daemonize is for direct mode.
Detach ==
    /\ stage = "detach"
    /\ stage' = "serve" /\ phase' = "Waiting"
    /\ UNCHANGED <<netVars, handshakeSeq, joined, startSeq, numbered, restarted>>
    /\ UNCHANGED <<clientVars, sshVars, range, cursor, bound, printed>>

DetachFails == stage = "detach" /\ ServerExits

\* wait_for_client_handshake gives up: the process ends.
ServerGivesUp ==
    /\ GiveUp
    /\ bound' = 0
    /\ UNCHANGED <<clientVars, sshVars, stage, range, cursor, printed>>

\* run_server returns an error after it has answered: the process ends.
ServerLacksShell ==
    /\ ShellFails
    /\ bound' = 0
    /\ UNCHANGED <<clientVars, sshVars, stage, range, cursor, printed>>

ServerStarts ==
    ParseArgs \/ BadArgs \/ PortFree \/ PortTaken \/ NoPortFree
        \/ PrintLine \/ PrintPanics \/ Detach \/ DetachFails

-----------------------------------------------------------------------------
\* ssh ends with the status of the server's first process, all it printed
\* delivered.
SshEnds ==
    /\ mode = "ssh" /\ status = "none" /\ stage \in {"serve", "exited"}
    /\ status' = IF stage = "serve" THEN "ok" ELSE "error"
    /\ UNCHANGED <<vars, clientVars, serverVars, pipe>>

\* Or it loses the connection, and the lines on their way.
SshFails ==
    /\ mode = "ssh" /\ status = "none"
    /\ status' = "error"
    /\ \E n \in 0..Len(pipe) : pipe' = SubSeq(pipe, 1, n)
    /\ UNCHANGED <<vars, clientVars, serverVars>>

-----------------------------------------------------------------------------
(***************************************************************************)
(* The client: bootstrap, then run_client, which sends the first handshake. *)
(***************************************************************************)
ClientFails ==
    /\ client' = "failed"
    /\ UNCHANGED <<vars, mode, target, serverVars, sshVars>>

RunClient ==
    /\ client' = "running"
    /\ toServer' = toServer \cup {Handshake(handshakeSeq)}
    /\ UNCHANGED <<toClient, shakeVars, mode, serverVars, sshVars>>

\* parse_token, one line at a time.
ReadLine ==
    /\ client = "reading" /\ pipe # <<>> /\ Head(pipe) \in {"other", "token"}
    /\ pipe' = Tail(pipe)
    /\ IF Head(pipe) = "token" THEN client' = "detaching" /\ target' = cursor
                               ELSE UNCHANGED <<client, target>>
    /\ UNCHANGED <<vars, mode, serverVars, status>>

NoToken ==
    /\ client = "reading"
    /\ IF pipe = <<>> THEN status # "none" ELSE Head(pipe) = "malformed"
    /\ ClientFails

\* The token was read, so the server is taken to run.
Succeeded_Token == status # "none"

\* The exit status of ssh counts, not only the token.
Succeeded == status = "ok"

\* child.wait, then the name of the host is resolved.
Detached ==
    /\ client = "detaching" /\ Succeeded
    /\ RunClient /\ UNCHANGED target

NotDetached == client = "detaching" /\ status # "none" /\ ClientFails

\* Direct mode: address and key from the command line, copied from what the
\* server printed or agreed on before it was started.
DirectStart ==
    /\ mode = "direct" /\ client = "idle"
    /\ \/ printed > 0 /\ target' = cursor
       \/ range[1] = range[2] /\ target' = range[1]
    /\ RunClient

Bootstrap == ReadLine \/ NoToken \/ Detached \/ NotDetached

-----------------------------------------------------------------------------
HandshakeSteps ==
    /\ (client = "running" /\ ClientShakes) \/ ServerShakes \/ NetworkLoses
    /\ UNCHANGED <<clientVars, serverVars, sshVars>>

StartupNext ==
    \/ ServerStarts \/ ServerGivesUp \/ ServerLacksShell
    \/ SshEnds \/ SshFails
    \/ Bootstrap \/ DirectStart
    \/ HandshakeSteps

(***************************************************************************)
(* Fairness.  The server runs its main function and its timer fires; ssh    *)
(* ends when its command has; the client reads, and waits for ssh.          *)
(***************************************************************************)
StartupSpec ==
    /\ StartupInit /\ [][StartupNext]_allVars
    /\ WF_allVars(ServerStarts) /\ WF_allVars(ServerGivesUp)
    /\ WF_allVars(SshEnds) /\ WF_allVars(Bootstrap)

-----------------------------------------------------------------------------
(***************************************************************************)
(* A client that was started over ssh sends its handshakes to the port of a *)
(* server that it started and that got through its start: one that found no *)
(* port, died while printing or could not detach is never contacted, even   *)
(* when its token was read.  That server, while it lives, owns the port.    *)
(***************************************************************************)
ContactsOwnServer ==
    mode = "ssh" /\ client = "running" =>
        /\ stage = "serve" /\ target = cursor
        /\ phase # "Gone" => bound = target

(***************************************************************************)
(* The bootstrap ends, one way or the other: no lost line, failed step or   *)
(* lost connection leaves the client waiting, and a server whose client has *)
(* failed does not stay behind.                                             *)
(***************************************************************************)
BootstrapEnds ==
    /\ client = "reading" ~> client \in {"running", "failed"}
    /\ client = "failed" ~> (stage = "exited" \/ phase = "Gone")

=============================================================================

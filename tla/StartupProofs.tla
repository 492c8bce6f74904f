--------------------------- MODULE StartupProofs ----------------------------
(***************************************************************************)
(* Proofs about Startup, for any number of ports and of handshake attempts, *)
(* any loss, duplication and delay in the network, and failures of the      *)
(* server's start and of ssh at any step.                                   *)
(***************************************************************************)
EXTENDS Startup, SequenceTheorems, TLAPS

(***************************************************************************)
(* The handshake.  The one acknowledgement sealed with the handshake key    *)
(* names the number the window starts from; it exists only once the server  *)
(* has answered, and no handshake or window is ahead of the client.         *)
(***************************************************************************)
ShakeInv ==
    /\ handshakeSeq \in Nat /\ startSeq \in Nat /\ startSeq <= handshakeSeq
    /\ \A m \in toServer : m.seq \in Nat /\ m.seq <= handshakeSeq
    /\ \A m \in toClient :
          m.key = "handshake" => phase \in {"Session", "Gone"} /\ (~restarted => m.ack = startSeq)
    /\ joined => phase \in {"Session", "Gone"} /\ (~restarted => startSeq = handshakeSeq)

(***************************************************************************)
(* The start.  A token is read only of a server whose scan has ended, and a *)
(* successful status only of one that has detached.                         *)
(***************************************************************************)
Scanned == stage \notin {"args", "scan"}

PipeOK ==
    /\ pipe \in Seq(Lines)
    /\ \A i \in 1..Len(pipe) : pipe[i] = "token" => Scanned

StartInv ==
    /\ PipeOK
    /\ printed \in Nat /\ (stage = "print" => printed < 3) /\ (~Scanned => printed = 0)
    /\ client = "reading" => mode = "ssh"
    /\ client = "detaching" => mode = "ssh" /\ Scanned /\ target = cursor
    /\ client = "running" /\ mode = "ssh" => stage = "serve" /\ target = cursor
    /\ status = "ok" => stage = "serve"
    /\ stage # "serve" => phase = "Off"
    /\ stage \in {"print", "detach"} => bound = cursor
    /\ stage = "serve" /\ phase # "Gone" => bound = cursor

-----------------------------------------------------------------------------
(***************************************************************************)
(* Steps of the handshake.                                                  *)
(***************************************************************************)

(***************************************************************************)
(* What is left after a packet was taken was in the network before.         *)
(***************************************************************************)
LEMMA RemainingSubset ==
    \A net, m, left : left \in Remaining(net, m) => left \subseteq net
BY DEF Remaining

(***************************************************************************)
(* A step of the client's handshake loop.                                   *)
(***************************************************************************)
LEMMA ClientShakesKeepsInv == ASSUME ShakeInv, ClientShakes PROVE ShakeInv'
<1> USE DEF ShakeInv
<1>1. ASSUME NEW m \in toClient, TakeHandshakeAck(m) PROVE ShakeInv'
  <2>1. toClient' \subseteq toClient
    BY <1>1, RemainingSubset DEF TakeHandshakeAck
  <2>. QED BY <1>1, <2>1 DEF TakeHandshakeAck, Accepts
<1>2. ASSUME NEW m \in toClient, TakeOther(m) PROVE ShakeInv'
  <2>1. toClient' \subseteq toClient
    BY <1>2, RemainingSubset DEF TakeOther
  <2>. QED BY <1>2, <2>1 DEF TakeOther, shakeVars, Handshake
<1>3. CASE HandshakeTimeout
  BY <1>3 DEF HandshakeTimeout, Handshake
<1>. QED BY <1>1, <1>2, <1>3 DEF ClientShakes

(***************************************************************************)
(* A step of the server, waiting or in its session.                         *)
(***************************************************************************)
LEMMA ServerShakesKeepsInv == ASSUME ShakeInv, ServerShakes PROVE ShakeInv'
<1> USE DEF ShakeInv
<1>1. ASSUME NEW m \in toServer, AcceptHandshake(m) PROVE ShakeInv'
  <2>1. toServer' \subseteq toServer
    BY <1>1, RemainingSubset DEF AcceptHandshake
  <2>. QED BY <1>1, <2>1 DEF AcceptHandshake, Reply
<1>2. ASSUME NEW m \in toServer, SessionIgnores(m) PROVE ShakeInv'
  <2>1. toServer' \subseteq toServer
    BY <1>2, RemainingSubset DEF SessionIgnores
  <2>. QED BY <1>2, <2>1 DEF SessionIgnores, shakeVars
<1>3. ASSUME NEW m \in toServer, SessionRestarts(m) PROVE ShakeInv'
  <2>1. toServer' \subseteq toServer
    BY <1>3, RemainingSubset DEF SessionRestarts
  <2>. QED BY <1>3, <2>1 DEF SessionRestarts, Reply
<1>4. CASE SessionFrame
  BY <1>4 DEF SessionFrame, Reply
<1>. QED BY <1>1, <1>2, <1>3, <1>4 DEF ServerShakes

(***************************************************************************)
(* Losing packets, an early end and doing nothing.                          *)
(***************************************************************************)
LEMMA OthersKeepShakeInv ==
    ASSUME ShakeInv, NetworkLoses \/ GiveUp \/ ShellFails \/ UNCHANGED vars
    PROVE  ShakeInv'
BY DEF ShakeInv, NetworkLoses, LoseToServer, LoseToClient, GiveUp, ShellFails, netVars, shakeVars, vars

-----------------------------------------------------------------------------
(***************************************************************************)
(* Steps of the start.                                                      *)
(***************************************************************************)

(***************************************************************************)
(* A server that exits had not detached, so ssh cannot have reported        *)
(* success.                                                                 *)
(***************************************************************************)
LEMMA ExitKeepsInv ==
    ASSUME StartInv, ServerExits, stage \in {"args", "scan", "print", "detach"}
    PROVE  StartInv'
BY DEF StartInv, PipeOK, Scanned, ServerExits, vars, netVars, shakeVars, clientVars, sshVars

(***************************************************************************)
(* The server prints three lines.                                           *)
(***************************************************************************)
LEMMA OutputIsLines ==
    /\ Len(Output) = 3
    /\ \A k \in 1..3 : Output[k] \in Lines
<1>1. Len(Output) = 3
  BY DEF Output
<1>2. Output[1] = "token" /\ Output[2] = "other" /\ Output[3] = "other"
  BY DEF Output
<1>3. "token" \in Lines /\ "other" \in Lines
  BY DEF Lines
<1>4. \A k \in 1..3 : k = 1 \/ k = 2 \/ k = 3
  OBVIOUS
<1>. QED BY <1>1, <1>2, <1>3, <1>4, Zenon

(***************************************************************************)
(* The server's start.                                                      *)
(***************************************************************************)
LEMMA ServerStartsKeepsInv == ASSUME StartInv, ServerStarts PROVE StartInv'
<1> USE DEF StartInv, PipeOK, Scanned, vars, shakeVars, clientVars, sshVars
<1>1. CASE ParseArgs
  BY <1>1 DEF ParseArgs
<1>2. CASE PortFree
  BY <1>2 DEF PortFree
<1>3. CASE PortTaken
  BY <1>3 DEF PortTaken
<1>4. CASE PrintLine
  <2>0. printed' \in 1..3
    BY <1>4 DEF PrintLine
  <2>1. Output[printed'] \in Lines /\ Len(Output) = 3
    BY <2>0, OutputIsLines, Zenon
  <2>2. stage' \in {"print", "detach"}
    BY <1>4 DEF PrintLine
  <2>3. PipeOK'
    <3>1. Scanned'
      BY <2>2
    <3> DEFINE line == Output[printed']
    <3>2. pipe' = pipe \/ pipe' = Append(pipe, line)
      BY <1>4 DEF PrintLine
    <3> HIDE DEF Scanned, line
    <3>3. line \in Lines
      BY <2>1 DEF line
    <3>4. pipe' \in Seq(Lines)
      BY <3>2, <3>3
    <3>. QED BY <3>1, <3>4
  <2>. QED BY <1>4, <2>0, <2>1, <2>2, <2>3 DEF PrintLine
<1>5. CASE Detach
  BY <1>5 DEF Detach
<1>6. CASE BadArgs \/ NoPortFree \/ PrintPanics \/ DetachFails
  BY <1>6, ExitKeepsInv DEF BadArgs, NoPortFree, PrintPanics, DetachFails
<1>. QED BY <1>1, <1>2, <1>3, <1>4, <1>5, <1>6 DEF ServerStarts

(***************************************************************************)
(* The end of ssh, and its failure.                                         *)
(***************************************************************************)
LEMMA SshKeepsInv == ASSUME StartInv, SshEnds \/ SshFails PROVE StartInv'
<1> USE DEF StartInv, PipeOK, Scanned, vars, shakeVars, clientVars, serverVars
<1>1. CASE SshEnds
  BY <1>1 DEF SshEnds
<1>2. CASE SshFails
  <2>1. PICK n \in 0..Len(pipe) : pipe' = SubSeq(pipe, 1, n)
    BY <1>2 DEF SshFails
  <2>2. PipeOK'
    BY <1>2, <2>1 DEF SshFails
  <2>. QED BY <1>2, <2>2 DEF SshFails
<1>. QED BY <1>1, <1>2

(***************************************************************************)
(* The client's bootstrap: it goes on only with a status of success.        *)
(***************************************************************************)
LEMMA BootstrapKeepsInv == ASSUME StartInv, Bootstrap \/ DirectStart PROVE StartInv'
<1> USE DEF StartInv, PipeOK, Scanned, vars, shakeVars, serverVars, sshVars
<1>1. CASE ReadLine
  <2>1. PipeOK' /\ (Head(pipe) = "token" => Scanned)
    BY <1>1 DEF ReadLine
  <2>. QED BY <1>1, <2>1 DEF ReadLine
<1>2. CASE NoToken \/ NotDetached
  BY <1>2 DEF NoToken, NotDetached, ClientFails
<1>3. CASE Detached
  BY <1>3 DEF Detached, RunClient, Succeeded
<1>4. CASE DirectStart
  BY <1>4 DEF DirectStart, RunClient
<1>. QED BY <1>1, <1>2, <1>3, <1>4 DEF Bootstrap

-----------------------------------------------------------------------------
(***************************************************************************)
(* Every step of the composition keeps both invariants.                     *)
(***************************************************************************)
LEMMA StartupInvHolds == StartupSpec => [](ShakeInv /\ StartInv)
<1>1. StartupInit => ShakeInv /\ StartInv
  <2> SUFFICES ASSUME StartupInit PROVE ShakeInv /\ StartInv
    OBVIOUS
  <2>1. ShakeInv
    BY DEF StartupInit, ShakeInv
  <2>2. PipeOK
    <3>1. CASE pipe = <<>>
      BY <3>1 DEF PipeOK
    <3>2. CASE pipe = <<"other">>
      BY <3>2 DEF PipeOK, Lines
    <3>3. CASE pipe = <<"malformed">>
      BY <3>3 DEF PipeOK, Lines
    <3>. QED BY <3>1, <3>2, <3>3 DEF StartupInit
  <2>. QED BY <2>1, <2>2 DEF StartupInit, StartInv, Scanned
<1>2. ShakeInv /\ StartInv /\ [StartupNext]_allVars => (ShakeInv /\ StartInv)'
  <2> SUFFICES ASSUME ShakeInv, StartInv, [StartupNext]_allVars PROVE ShakeInv' /\ StartInv'
    OBVIOUS
  <2>1. CASE ServerStarts
    <3>1. UNCHANGED <<netVars, handshakeSeq, joined, startSeq, restarted>>
          /\ (phase' = phase \/ (stage = "detach" /\ phase' = "Waiting"))
      <4>1. CASE ParseArgs \/ PortFree \/ PortTaken \/ PrintLine
        <5>1. UNCHANGED vars
          BY <4>1 DEF ParseArgs, PortFree, PortTaken, PrintLine
        <5>. QED BY <5>1 DEF vars, shakeVars
      <4>2. CASE BadArgs \/ NoPortFree \/ PrintPanics \/ DetachFails
        <5>1. UNCHANGED vars
          BY <4>2 DEF BadArgs, NoPortFree, PrintPanics, DetachFails, ServerExits
        <5>. QED BY <5>1 DEF vars, shakeVars
      <4>3. CASE Detach
        BY <4>3 DEF Detach
      <4>. QED BY <2>1, <4>1, <4>2, <4>3 DEF ServerStarts
    <3>2. ShakeInv'
      BY <3>1 DEF ShakeInv, StartInv, netVars
    <3>. QED BY <2>1, <3>2, ServerStartsKeepsInv
  <2>2. CASE ServerGivesUp \/ ServerLacksShell
    <3>1. ShakeInv'
      BY <2>2, OthersKeepShakeInv DEF ServerGivesUp, ServerLacksShell
    <3>2. /\ UNCHANGED <<clientVars, sshVars, stage, range, cursor, printed>>
          /\ phase # "Off" /\ phase' = "Gone"
      BY <2>2 DEF ServerGivesUp, ServerLacksShell, GiveUp, ShellFails
    <3>. QED BY <3>1, <3>2 DEF StartInv, PipeOK, Scanned, clientVars, sshVars
  <2>3. CASE SshEnds \/ SshFails
    BY <2>3, OthersKeepShakeInv, SshKeepsInv DEF SshEnds, SshFails
  <2>4. CASE Bootstrap \/ DirectStart
    <3>1. UNCHANGED vars \/ RunClient
      BY <2>4 DEF Bootstrap, DirectStart, ReadLine, NoToken, Detached, NotDetached, ClientFails
    <3>2. RunClient => ShakeInv'
      BY DEF RunClient, ShakeInv, shakeVars, Handshake
    <3>. QED BY <2>4, <3>1, <3>2, OthersKeepShakeInv, BootstrapKeepsInv
  <2>5. CASE HandshakeSteps
    <3>1. ShakeInv'
      BY <2>5, ClientShakesKeepsInv, ServerShakesKeepsInv, OthersKeepShakeInv DEF HandshakeSteps
    <3>2. phase' = phase \/ (phase = "Waiting" /\ phase' = "Session")
      <4>1. CASE ClientShakes
        <5>1. UNCHANGED phase
          BY <4>1 DEF ClientShakes, TakeHandshakeAck, TakeOther, HandshakeTimeout, shakeVars
        <5>. QED BY <5>1
      <4>2. CASE ServerShakes
        BY <4>2 DEF ServerShakes, AcceptHandshake, SessionIgnores, SessionRestarts, SessionFrame, shakeVars
      <4>3. CASE NetworkLoses
        <5>1. UNCHANGED phase
          BY <4>3 DEF NetworkLoses, shakeVars
        <5>. QED BY <5>1
      <4>. QED BY <2>5, <4>1, <4>2, <4>3 DEF HandshakeSteps
    <3>3. StartInv'
      BY <2>5, <3>2 DEF HandshakeSteps, StartInv, PipeOK, Scanned, clientVars, serverVars, sshVars
    <3>. QED BY <3>1, <3>3
  <2>6. CASE UNCHANGED allVars
    BY <2>6, OthersKeepShakeInv
       DEF allVars, vars, shakeVars, StartInv, PipeOK, Scanned, clientVars, serverVars, sshVars
  <2>. QED BY <2>1, <2>2, <2>3, <2>4, <2>5, <2>6 DEF StartupNext
<1>. QED BY <1>1, <1>2, PTL DEF StartupSpec

(***************************************************************************)
(* A client that joined did so with the number the server's window starts   *)
(* from, whatever was lost, repeated or delayed.                            *)
(***************************************************************************)
THEOREM JoinedWithTheWindow == StartupSpec => []JoinedAtStart
<1>1. ShakeInv => JoinedAtStart
  BY DEF ShakeInv, JoinedAtStart
<1>. QED BY <1>1, StartupInvHolds, PTL

(***************************************************************************)
(* A bootstrapped client contacts only the server it started, once that is  *)
(* through its start, and at the port that server holds.                    *)
(***************************************************************************)
THEOREM OwnServerContacted == StartupSpec => []ContactsOwnServer
<1>1. StartInv => ContactsOwnServer
  BY DEF StartInv, ContactsOwnServer
<1>. QED BY <1>1, StartupInvHolds, PTL

=============================================================================

---------------------------- MODULE ServerScreen ----------------------------
(***************************************************************************)
(* From the shell to the frames: PtyBridge and ServerTerminalState joined   *)
(* by the single threaded event loop of run_server.  What AuthoritativeSes- *)
(* sion takes for granted is shown here: that its variable term is what the *)
(* shell's output made of the screen, and that the loop that runs the       *)
(* session comes back from every write to the terminal.                     *)
(***************************************************************************)
EXTENDS PtyBridge, ServerTerminalState

vars == <<ptyVars, stateVars>>

ScreenInit == PtyInit /\ StateInit

\* The programs and the reader thread run beside the event loop.
Beside ==
    \/ AppRead \/ (\E c \in Chunks : AppWrite(c)) \/ AppSilent \/ AppExit
    \/ ReaderRead \/ ReaderEnd

\* Task 1 of run_server: a chunk changes the screen in any way.
Chunk == TakeChunk /\ \E next \in Views : OnPtyBytes(next)

\* check_sync, from the timer or at the end of a handler.
Sync ==
    /\ ~writing
    /\ \/ \E ackUpdated \in BOOLEAN : UpdateAndSync(ackUpdated)
       \/ \E done \in 0..emulator.dim[2], copied \in 0..emulator.dim[2] : UpdateFails(done, copied)
       \/ UpdateFailsLast

\* Packets of the client that change the screen's size or its history.
Packet == ~writing /\ ((\E next \in Views : OnResize(next)) \/ Forget)

ScreenNext ==
    \/ (Beside \/ BeginWrite \/ EndWrite \/ Disconnected) /\ UNCHANGED stateVars
    \/ Chunk
    \/ (Sync \/ Packet) /\ UNCHANGED ptyVars

ScreenSpec == ScreenInit /\ [][ScreenNext]_vars

(***************************************************************************)
(* Fairness.  The reader thread runs when it can; a write that can return   *)
(* does; and the executor, which takes its ready tasks in turn, does not    *)
(* pass over the task that takes chunks for ever, however many packets come *)
(* in between.  The programs on the terminal are assumed to read and to     *)
(* answer: one that never reads its terminal blocks the event loop for ever *)
(* once the terminal is full.                                               *)
(***************************************************************************)
FairScreenSpec ==
    /\ ScreenSpec
    /\ WF_vars(AppRead /\ UNCHANGED stateVars)
    /\ WF_vars((AppSilent \/ \E c \in Chunks : AppWrite(c)) /\ UNCHANGED stateVars)
    /\ WF_vars((ReaderRead \/ ReaderEnd) /\ UNCHANGED stateVars)
    /\ WF_vars(EndWrite /\ UNCHANGED stateVars)
    /\ SF_vars(Chunk) /\ SF_vars(Disconnected /\ UNCHANGED stateVars)

-----------------------------------------------------------------------------
(***************************************************************************)
(* No output is lost, repeated or reordered on its way through kernel,      *)
(* thread and channel, and the shutdown is announced only after all of it   *)
(* was given to the emulator: the reader ends after the last byte, and the  *)
(* channel is drained before recv fails.                                    *)
(***************************************************************************)
OutputInOrder ==
    /\ applied \o pty_rx \o ttyOut = written
    /\ stopped => applied = written

(***************************************************************************)
(* The event loop comes back from every write to the terminal, although the *)
(* programs may themselves be blocked writing to a full terminal: the       *)
(* reader thread empties it, whatever the loop is doing.                    *)
(***************************************************************************)
LoopReturns == writing ~> ~writing

(***************************************************************************)
(* When the last program is gone the shutdown is announced at last.         *)
(***************************************************************************)
ShutdownFollows == app = "gone" ~> stopped

=============================================================================

----------------------------- MODULE PtyBridge ------------------------------
(***************************************************************************)
(* The server's end of the pseudo terminal (src/server/pty.rs): the         *)
(* blocking reader thread with its unbounded channel, and the blocking      *)
(* write.  The kernel's terminal and the programs on it are external.       *)
(*                                                                         *)
(* The event loop of run_server (src/server/network.rs) is single threaded: *)
(* while it is inside a write that blocks it does nothing else.             *)
(***************************************************************************)
EXTENDS Naturals, Sequences

CONSTANTS
    TtyCap,     \* what each direction of the kernel's terminal holds
    MaxWrites   \* bound of the model: writes of the programs on the terminal

ASSUME PtyAssumption ==
    TtyCap \in Nat \ {0} /\ MaxWrites \in Nat

VARIABLES
    ttyIn,      \* how much is written to the terminal and not yet read
    ttyOut,     \* chunks the programs wrote, not yet read by the thread
    app,        \* the programs: "reading", "answering", or "gone"
    readerUp,   \* the reader thread runs, and holds the channel open
    pty_rx,     \* chunks in the unbounded channel
    writing,    \* the event loop is inside PtyBridge::write
    written,    \* history: chunks the programs wrote
    applied,    \* history: chunks given to the terminal emulator
    stopped     \* the shutdown signal was sent

ttyVars == <<ttyIn, ttyOut, app, written>>
ptyVars == <<ttyVars, readerUp, pty_rx, writing, applied, stopped>>

\* A chunk of output: text, or a query the terminal emulator answers.
Chunks == {"text", "query"}

PtyInit ==
    /\ ttyIn = 0 /\ ttyOut = <<>> /\ app = "reading" /\ written = <<>> /\ applied = <<>>
    /\ readerUp = TRUE /\ pty_rx = <<>> /\ writing = FALSE /\ stopped = FALSE

-----------------------------------------------------------------------------
(***************************************************************************)
(* The programs: each input is read, then answered with output, which       *)
(* blocks while the terminal is full; output may come by itself as well.    *)
(* When the last program is gone so is the input it did not read.           *)
(***************************************************************************)
AppRead ==
    /\ app = "reading" /\ ttyIn > 0
    /\ app' = "answering" /\ ttyIn' = ttyIn - 1
    /\ UNCHANGED <<ttyOut, written, readerUp, pty_rx, writing, applied, stopped>>

AppWrite(c) ==
    /\ app # "gone" /\ Len(ttyOut) < TtyCap /\ Len(written) < MaxWrites
    /\ app' = "reading"
    /\ ttyOut' = Append(ttyOut, c) /\ written' = Append(written, c)
    /\ UNCHANGED <<ttyIn, readerUp, pty_rx, writing, applied, stopped>>

\* Beyond the bound MaxWrites an input is not answered.
AppSilent ==
    /\ app = "answering" /\ Len(written) >= MaxWrites
    /\ app' = "reading"
    /\ UNCHANGED <<ttyIn, ttyOut, written, readerUp, pty_rx, writing, applied, stopped>>

AppExit ==
    /\ app # "gone"
    /\ app' = "gone" /\ ttyIn' = 0
    /\ UNCHANGED <<ttyOut, written, readerUp, pty_rx, writing, applied, stopped>>

-----------------------------------------------------------------------------
\* The event loop reads the terminal itself.
ReaderRuns_OnLoop == readerUp /\ ~writing

\* The reader has a thread of its own, and never waits for the channel.
ReaderRuns == readerUp

ReaderRead ==
    /\ ReaderRuns /\ ttyOut # <<>>
    /\ pty_rx' = Append(pty_rx, Head(ttyOut)) /\ ttyOut' = Tail(ttyOut)
    /\ UNCHANGED <<ttyIn, app, written, readerUp, writing, applied, stopped>>

\* The thread ends as soon as the shell has.
AtEnd_Exit == app = "gone"

\* A read fails once nobody has the terminal open and its output was read.
AtEnd == app = "gone" /\ ttyOut = <<>>

\* The channel closes with the thread.
ReaderEnd ==
    /\ ReaderRuns /\ AtEnd
    /\ readerUp' = FALSE
    /\ UNCHANGED <<ttyVars, pty_rx, writing, applied, stopped>>

-----------------------------------------------------------------------------
\* The session applies keystrokes: PtyBridge::write begins.
BeginWrite ==
    /\ ~writing /\ ~stopped
    /\ writing' = TRUE
    /\ UNCHANGED <<ttyVars, readerUp, pty_rx, applied, stopped>>

\* write_all returns when the terminal has room, or with an error, which is
\* logged, when nobody has it open.
EndWrite ==
    /\ writing /\ writing' = FALSE
    /\ \/ app # "gone" /\ ttyIn < TtyCap /\ ttyIn' = ttyIn + 1
       \/ app = "gone" /\ UNCHANGED ttyIn
    /\ UNCHANGED <<ttyOut, app, written, readerUp, pty_rx, applied, stopped>>

\* Task 1 of run_server takes a chunk; the emulator answers a query at once,
\* from inside on_pty_bytes.
TakeChunk ==
    /\ ~writing /\ ~stopped /\ pty_rx # <<>>
    /\ pty_rx' = Tail(pty_rx) /\ applied' = Append(applied, Head(pty_rx))
    /\ writing' = (Head(pty_rx) = "query")
    /\ UNCHANGED <<ttyVars, readerUp, stopped>>

\* The event loop still holds a sender of its own.
Closed_Never == FALSE

\* recv fails when the channel is empty and its only sender gone.
Closed == pty_rx = <<>> /\ ~readerUp

Disconnected ==
    /\ ~writing /\ ~stopped /\ Closed
    /\ stopped' = TRUE
    /\ UNCHANGED <<ttyVars, readerUp, pty_rx, writing, applied>>

=============================================================================

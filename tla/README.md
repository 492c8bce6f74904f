# rumsh in TLA+

rumsh keeps a terminal session alive over UDP. The server runs a shell in a PTY,
keeps the authoritative screen and sends *frames*: differences between the
current screen and a screen the client has acknowledged. The client keeps a
mirror of the screen, shows typed characters before the server confirms them,
and sends its input through a sliding window with cumulative acknowledgements
and retransmission. This directory holds TLA+ modules of that system, TLC
configurations for small instances, and proofs checked by TLAPS.

Paths below are relative to the repository (`src/server/session.rs` and so on);
`PROJECT.json` maps every definition to its lines.

## 1. Inventory

| Component | State | Operations | Talks to |
|---|---|---|---|
| AuthoritativeSession (`server/session.rs`) | packet number, acknowledged and expected client number, out-of-order buffer, history of sent screens, dirty flag | `feed_packet`, `on_pty_bytes`, `check_sync`, `prepare_shutdown` | PTY, terminal emulator, diff job, network |
| Server event loop, UpdateJob (`server/network.rs`) | diff job in flight, fragment cache, shutdown signal | receive, frame timer, job completion, resend of fragments, three Shutdown copies | session, codec, socket |
| MirrorSession (`client/session.rs`) | packet number, acknowledged number, unacknowledged packets, history of screens, timers | `feed_packet`, `feed_stdin`, `on_winch`, `on_tick` | mirror, escape interpreter, codec |
| Client event loop (`client/network.rs`) | handshake number, tick interval | handshake loop; one event at a time, then its actions | session, renderer, lifecycle |
| TerminalGrid (`protocol/grid.rs`) | none | `diff_from`, `patch` | both sessions |
| PacketCodec, FragmentBuffer (`protocol/codec.rs`) | incomplete packets, nonces | `seal_*`, `open_*`, `insert`, `get_incomplete_frames` | both loops |
| EscapeInterpreter (`client/escape.rs`) | three states | `handle_byte` | `feed_stdin` |
| LocalEchoEngine (`client/echo.rs`) | queue of predictions with undo buffers | `apply_keystrokes`, `reconcile_frame`, `abort` | ClientTerminal |
| ClientTerminal, renderer (`client/terminal.rs`) | copy of the screen, dirty marks, banner, overlay, back buffer | `apply_frame`, `acknowledge`, `predict_input`, `consume_updates`, `paint` | MirrorSession, console |
| TerminalLifecycle (`client/lifecycle.rs`) | terminal modes | `suspend`, `clear_and_resize`, resize loop | `on_winch` |
| Client bootstrap (`client/bootstrap.rs`) | the ssh child and its output | `bootstrap`, `parse_token` | ssh, command line |
| Command line (`main.rs`) | none | `run_server_subcommand`, `run_client_mode` | bootstrap, both loops |
| Server terminal state (`server/state.rs`) | emulator, copy of its screen, `force_full` | `write`, `resize`, `update_and_get_state` | `check_sync`, `on_pty_bytes` |
| PtyBridge (`server/pty.rs`) | the PTY, a reader thread and its channel, cache of the foreground process | `write`, `resize`, `is_echo_recommended` | shell, server event loop |
| CryptoManager (`crypto.rs`) | key | `encrypt`, `decrypt` | not modelled, see section 8 |

What is hard here: the two ends drop screens from their histories independently
while frames, acknowledgements and retransmissions are lost, duplicated and
reordered; several handlers number packets from one counter while one diff job
is in flight and others are dropped; a delayed handshake can restart the window
in mid-session; large packets travel in fragments that are themselves asked for
again; what the user sees depends on dirty marks that duplicate the state of
the console; the server's event loop is one thread that writes to a terminal
which may be full; two readers compete for the keyboard; and a server started
over ssh may die, or its client may, at every point before the first packet.
What must hold: input is applied in order and once and is never
forgotten early; every screen of the client is the server's screen of that
number; no frame needs a screen the client lacks; a lost packet is replaced, and
the client's screen becomes the server's; a prediction can be undone exactly; a
change reaches the console; the shell's output reaches the frames whole and in
order; nobody waits for ever, neither in a write nor in the bootstrap.

## 2. Modules

| Module | Models | State |
|---|---|---|
| `Grid` | `diff_from`, `patch`, with the width of the flat index (`IndexRange`, 65536 in the code) | operators only |
| `History` | the bounded queues of screens of both ends | operators only |
| `Network` | UDP: a set of packets per direction; a packet may be lost, and what is taken may stay (duplication); sets make reordering free | `toServer`, `toClient` |
| `AuthoritativeSession` | the server's session, the frame timer, the diff job, shutdown | see the comments of its VARIABLES |
| `MirrorSession` | the client's session and its event loop | same |
| `Session` | the two joined by `Network`; the properties of a session | union |
| `InputChannel` | the abstract promise of the reliable stream: a FIFO channel | `sent`, `received` |
| `Fragments` | splitting, reassembly, FragmentNack, the fragment cache | `parts`, `cache`, `frames`, `ackSeqNum` |
| `Delivery` | how the server's screen reaches a client that roams, with packet numbers abstracted to their order; the abstract promise of the frames | `shows`, `queue`, `screen`, addresses, ... |
| `SessionDelivery` | the refinement mapping from `Session` to `Delivery` | |
| `PtyBridge` | the reader thread, its channel, the blocking write, the end of the shell; kernel and programs are external | `ttyIn`, `ttyOut`, `pty_rx`, `writing`, ... |
| `ServerTerminalState` | the copy of the emulator's screen, row by row, and what `check_sync` makes of it | `emulator`, `rowDirty`, `grid_state`, `force_full`, ... |
| `ServerScreen` | the two joined by the server's single threaded loop | union |
| `Handshake` | both handshake loops and the running session's answers | `phase`, `handshakeSeq`, ... |
| `Startup` | command lines, port scan, token, detaching and ssh, composed with `Handshake` | `client`, `stage`, `pipe`, `status`, ... |
| `Escape` | the escape state machine run by `feed_stdin` | `escState`, `stream`, `commands` |
| `Keyboard` | the two readers of the terminal and the event loop, composed with `Escape` | `tty`, `stdinBuf`, `lock`, `event_rx`, ... |
| `Terminal` | local echo, dirty marks, banner, overlay, painting | `frame`, `unconfirmed`, `marks`, `console`, ... |
| `MCSession`, `MCFragments`, `MCServerScreen`, `MCTerminal` | values for the instances | |
| `GridProofs`, `SessionProofs`, `SyncProofs`, `FragmentsProofs`, `ScreenProofs`, `StartupProofs`, `TerminalProofs`, `KeyboardProofs` | proofs | |

An action is one handler with everything it does: `FeedInOrder` for instance
sweeps the out-of-order buffer, applies resizes to the emulator, answers every
KeepAlive and ends in `CheckSync`, as `feed_packet` does. `FeedInOrder` takes
the number where the sweep stops as a parameter that a guard determines
(`FirstGap`), so that the proofs need no recursion. Names follow the source;
where both ends have a variable of one name, `s` and `c` are put before it.

Abstractions that matter:

* **Time.** Wherever the code compares instants (throttling, retransmission
  timeouts, five seconds of silence) the model allows both outcomes. Safety
  therefore holds for every clock and every speed.
* **Packets open to what was sealed.** Encryption, compression and
  serialisation are taken as correct; a packet under a key the receiver has not
  got is ignored (`Handshake`).
* **The emulator** shows any screen of `Screens` of its size after PTY output. In
  `Session` the server's copy and the emulator are one variable (`term`);
  `ServerScreen` shows why that is right: `LastFrameCurrent`.
* **A write to the PTY** returns at once in `Session`; `ServerScreen` lets it
  block, and shows that the loop comes back.
* **Order instead of numbers.** `Delivery` keeps the packets newer than what the
  client took in a sequence: a packet's number matters only for that order. This
  makes an unbounded session finite; `ImplementsDelivery` shows that a session
  with numbers, histories and differences does nothing that `Delivery` does not.
  `Delivery` adds roaming, which `Session` has not: the refinement is for one
  address.
* **ssh** delivers lines in order and the exit status of the first process of the
  server, or fails at any time and loses lines. Other processes take and leave
  ports at will. The key travels with the port and stands for it.
* **A diff is computed when its job is queued**: the job owns copies of both
  screens, so the moment it runs cannot matter. A frame queued while a job is in
  flight is dropped after its bookkeeping, as in the code.
* **KeepAlives, Acks and FragmentNacks.** An Ack or a FragmentNack is outside
  the window; in `Session` a FragmentNack acts as an Ack, and what it asks for
  is in `Fragments`.
* **Cells** are values: graphemes, colours and styles are compared and copied as
  a whole by the code too. In `Terminal` a prediction is a byte that is a cell.

Constants that choose an instance: `StartSeq` is the handshake number the
session was built on; `LateHandshakes` the handshakes the network still holds;
`MayExit` lets the shell and the process end; `FramesSplit` lets the client send
FragmentNacks; `Persistent = TRUE` makes the network keep every packet for ever,
which includes every duplication and reordering, and losing a packet is the same
as never taking it, so both ends reach the same states with fewer
states; with `FALSE` a packet is lost or duplicated explicitly, as liveness and
the refinement need.

## 3. Runs

Every bound is a constant of the cfg: `MaxServerSeq`, `MaxClientSeq`,
`MaxPackets`, `MaxNacks`, `MaxHandshake`, `MaxPort`, `MaxTyped`, `MaxWrites`,
`Late`, `QueueCap`, `Answers`, `MaxInput` and `MaxFrame` bound the model,
`HistoryCap` (200), `PruneLen` (100), `MaxLag` (5), `CacheCap` (4),
`BufferCap` (32) and `TtyCap` (the kernel's buffer) shrink limits of the system,
keeping the order `MaxLag < HistoryCap` that the code has and the proofs assume.

| Run | Checks | Instance and why it is enough |
|---|---|---|
| SessionSync | TypeOK, SnapshotAgreement, LiveFramesHaveRef | two screens, 5 server packets, lag 2, histories of 3: the client can lag beyond the limit, both histories evict and prune, the job drops frames; 1.5 million states |
| SessionReset | SnapshotAgreement, LiveFramesHaveRef, ServerNumbersUnique, ImplementsDelivery | a late handshake resets the session before or between 3 server packets, screens of two sizes, resizes and KeepAlive replies; the refinement is checked on every step |
| SessionStream | InOrderExactlyOnce, PrunedWasProcessed, ImplementsChannel, EventuallyApplied | keystrokes, resizes, KeepAlives up to number 3 with explicit loss and duplication: two packets above StartSeq, enough for a gap, a buffered packet and a sweep; both ends may go away |
| SessionOffset | OnlyProcessedIsPruned (violated) | a session built on handshake 2 |
| Delivery | Converges | two screens, two addresses, one late packet from each address left, two packets on their way: a frame overtaken by a reply, or two frames; no bound on how often anything happens |
| ServerScreen | OutputInOrder, CleanRowsCurrent, LastFrameCurrent, LoopReturns, ShutdownFollows | screens of one and two rows, so that an update can fail between rows and sizes change; a terminal that holds one chunk each way, so that both directions fill; two chunks of output, text or a query that the emulator answers |
| Fragments | FragmentsTypeOK, UsefulPartialsKept, NackRecovers | 3 packets of one or two fragments with cache and buffer of 2: both overflow; recovery is followed for the second packet, which has an older and a newer rival |
| Startup | JoinedAtStart, ContactsOwnServer, BootstrapEnds | two ports, every range over them, three attempts, both modes |
| HandshakeLost | SessionBegins (violated) | two attempts, fairness for every retry |
| Keyboard | OnlyEscapesWithheld, KeysAccountedFor | all inputs of up to 5 keys, typed at any time and cut into buffers in every way that the two readers bring about: longer than the longest sequence with its context, and enough for a help text with keys typed ahead; 4 million states |
| Terminal | UndoRestores, BannerErased, FramesReachConsole | screens of 2x2 and 2x1, buffers that fill a row and overwrite its first cell, 3 frames and 3 inputs |
| TerminalUnpainted | PredictionsReachConsole (violated) | the same |

The runs do not check deadlock: a model stops at its bounds, and a session
really ends (`Disconnect`, `ServerExit`).

**SnapshotAgreement** and **LiveFramesHaveRef** are the heart of the protocol:
the client's branch for a missing reference (`FRAME_DROP_MISSING_REF`) cannot be
reached, even when acknowledgements go backwards, frames are dropped after
their bookkeeping, and a late handshake clears the server's history.
**ImplementsChannel** says that whatever the network does, sessions without a
reset (`LateHandshakes = {}`) look like a FIFO channel from typing to applying.
**Converges** answers what these leave open: whether the client ever shows the
server's last screen. `check_sync` clears `dirty` and records a screen as sent
before the event loop looks at the job in flight, and drops the frame if there is
one; the screen is then skipped as identical. What saves the session is that the
acknowledgement of the next KeepAlive makes it send the same screen again. That a
packet from an address the client has left may move the reply address back is
repaired by the same KeepAlives.
**LastFrameCurrent** ties the frames to the emulator: no failure of
`update_and_get_state` half way, no resize and no size the emulator chose itself
makes the server record a screen that is not the emulator's.
**ContactsOwnServer** is about the last step of the bootstrap: the token is read
while the server still prints and has yet to detach, so only the exit status of
ssh tells that it got through.

## 4. Fairness

* *Stream.* `WF` for a tick that retransmits all unacknowledged packets: the ARQ
  check runs every 100 ms in `on_tick` and a packet's timeout is at most a
  second, so a running client does it again and again. `SF`, per packet number,
  for the server taking that packet in order: the network may lose any copy, but
  not all copies of one number for ever. Nothing is assumed of packets sent
  once, of KeepAlives or of frames.
* *Delivery.* `WF` for the 16 ms timer, for the end of a diff job and for a
  KeepAlive of the client, sent from where it is, being applied (that is
  EventuallyApplied, and a living client sends one every interval); `SF` for a
  frame sent to the client's address being taken. Nothing is assumed of late
  packets, replies and Acks. Converges is not claimed after a late handshake
  (`rejoined`), which may set the acknowledgement back.
* *ServerScreen.* `WF` for the reader thread and for a write that can return; `SF`
  for the task that takes chunks and sees the channel close, because the executor
  takes its ready tasks in turn, however many packets come in between. The
  programs on the terminal are assumed to read and to answer (`WF`): one that
  never reads blocks the loop when the kernel's buffer is full.
* *Startup.* `WF` for the server's main function, its 60 s timer, the end of ssh
  and the bootstrap's steps. Nothing is assumed of the user in direct mode, of
  the network, or of which of two possible outcomes happens.
* *Fragments.* `WF` for the NACK check (40 ms, again after 100 ms), `SF` for
  FragmentNacks and for each fragment: again not dropped for ever.
* *Handshake.* `WF` for the 500 ms timeout, `SF` for handshakes sent again and
  again and for taking an acknowledgement. The violation is under this fairness:
  the acknowledgement that would be taken is sent only once.

## 5. Proofs

All are for every value of the constants that satisfies the ASSUMEs: any bounds,
any number of screens, any handshake numbers at or below `StartSeq`.

* `GridProofs!DiffPatchRoundTrip`: for two screens of any size, if the new one
  fits the index type, patching the reference with the difference gives the new
  screen, and the difference is in bounds. `Fits` is needed: see section 7.
* `SessionProofs!InputInOrder`, `NothingPrunedEarly`
  (InOrderExactlyOnce, PrunedWasProcessed). Neither is inductive. `StreamInv`
  adds what every packet in the network, in the buffer and in the retransmission
  buffer carries (`PacketsInv`: the payload numbered so by the client, and an
  acknowledgement the server has made) and where the window stands
  (`WindowInv`). The hard step is the sweep, `StreamInOrder`.
* `SyncProofs!ScreensAgree`, `NoMissingReference`, `NumbersUnique`,
  `TypesAndBounds` (SnapshotAgreement, LiveFramesHaveRef, ServerNumbersUnique,
  TypeOK). `SyncInv` relates the frames in the network and in the job, the
  histories of both ends and the acknowledgements in flight: a reference is a
  screen that the client acknowledged and has not dropped, because a client drops
  a screen only when it has taken `HistoryCap` newer ones, the server refuses
  references older than `MaxLag` packets, and `MaxLag < HistoryCap`. `NumbersInv`
  adds that numbers are never reused; `RestInv` the bounds of the histories.
  These theorems include sessions that a late handshake resets.

* `FragmentsProofs!FragmentBounds`, `UsefulFragmentsKept` (FragmentsTypeOK,
  UsefulPartialsKept), for any number of packets and parts and any capacities.
  `FragInv` adds what a fragment in the network is (a part of a packet that was
  sealed) and that the buffer is finite; the second is an action property, and
  `DropStep` shows it for one step from `FragInv`.
* `ScreenProofs!SkippedRowsCurrent`, `NothingUnsent`, `OutputDelivered`
  (CleanRowsCurrent, LastFrameCurrent, OutputInOrder), for any rows, sizes and
  terminal capacity. `StateInv` is both screen properties with the shape of the
  screens: LastFrameCurrent alone is not inductive, because a successful update
  yields the emulator's screen only if the rows it skips are right already, which
  is CleanRowsCurrent. `PtyInv` adds that the reader ends only after the last
  output was read.
* `StartupProofs!JoinedWithTheWindow`, `OwnServerContacted` (JoinedAtStart,
  ContactsOwnServer), for any ports and any number of attempts. `ShakeInv` says
  which numbers handshakes and acknowledgements in the network may carry;
  `StartInv` what the stage of the server implies for the token, the pipe and the
  exit status.

* `SessionProofs!StreamIsChannel`: a session without a late handshake implements
  `InputChannel` (`ImplementsChannel`). The initial states map to initial states,
  the steps that number an input are a `Put`, and `FeedInOrder` is a `TakeOut` of a batch
  that `StreamInv` shows to be what comes next; every other step changes nothing
  in the channel.
* `TerminalProofs!TerminalTypesHold`, `AbortRestores`, `BannerIsErased`,
  `FramesArePainted` (TerminalTypes, UndoRestores, BannerErased,
  FramesReachConsole), for screens of every size, any buffers and any number of
  frames. `TerminalInv` joins the types, UndoRestores, FramesReachConsole and
  `BannerInLastRow`: BannerErased is not inductive, because taking a packet marks
  one row only, so the banner must be known to be nowhere else, or the console
  due to be cleared. UndoRestores needs the types (each prediction remembers
  cells of the screen it was put on) and three lemmas by induction on the queue:
  putting a list of bytes on a screen and undoing it is the identity; undoing a
  queue undoes its newest entry first; dropping confirmed entries from the front
  leaves the rest to be applied anew to the new screen.
* `KeyboardProofs!SentIsTyped`, `NoKeyLost` (OnlyEscapesWithheld,
  KeysAccountedFor), for every number of keys. The reference of
  OnlyEscapesWithheld looks at all that was typed at once, the code at one byte
  and one state. `EscapeInv` bridges the two: what a state of the machine says of
  the text read so far (`Interpreted`) and, inside a buffer, of the text and the
  commands collected (`LoopInv`). `SpecialNext`, `WithheldNext` and `SentNext`
  say what one byte more does to the reference. `KeyboardInv` adds `OnWay`, the
  place of every key that no reader has got yet: without it a read could not be
  known to give the keys that come next.

Induction over sequences. The induction theorems of the library take an
operator, which the installed provers cannot instantiate. `SetInduction` is
induction for a set, proved from the well-foundedness of `<` on the naturals
(`WFMin`); from it follows that a recursion of n steps has a solution
(`RecursionExists`; `FoldLeftExists` and `FoldRightExists` for the folds), and
with that what `Pick`, `FlattenSeq`, `Interpret` and the folds of `Terminal`
compute. For this reason `Interpret` and `Pick` are recursive functions and
`Special` and `Helps` are sets: no definition is a RECURSIVE operator.

Assumptions on constants: those of the ASSUMEs, as weak as the code has them.
`TerminalAssumption` says that cursors are pairs of naturals, that buffers are
sequences, that screens of the server are grids, and that banner and overlay are
not cells: a program may well draw the same text, but the model marks whose it is.

Only model-checked: the liveness properties (EventuallyApplied, Converges,
LoopReturns, ShutdownFollows, NackRecovers, BootstrapEnds), which need fairness
and ENABLED, and the refinement `ImplementsDelivery`, whose mapping sorts a set
with the CHOOSE of the community modules. Every safety invariant of a passing
run is a theorem.

## 6. Findings

1. **SessionOffset.** `expected_client_seq` starts after the number of the
   handshake packet, while reliable packets are numbered from 1. The first
   `client_start_seq` of them, the initial Resize always among them, are taken
   for duplicates and yet covered by the acknowledgement, so the client prunes
   them although the server never processed them (`Architecture.md:122`).
2. **HandshakeLost.** HandshakeAck is sent once under the only key the client
   has at that time; if it is lost or late, later attempts are ignored by the
   running session or answered under a key the client cannot have
   (`Architecture.md:59`).
3. **TerminalUnpainted.** A prediction changes the copy without any dirty mark,
   so the Paint that follows it paints nothing; the unit test that asserts the
   mark passes because a new frame starts with every row dirty.

## 7. Observations without a run

Met while modelling; the models contain the behaviour, the properties are stated
so as to exclude it where needed.

* A late handshake accepted in mid-session moves the window back, and packets
  applied before it are applied again; hence `~wasReset` in the stream's
  properties.
* The HandshakeAck is sent before the shell is started. If `PtyBridge::new` fails,
  the server's process ends, and a client that got the acknowledgement joins a
  server that is gone (`ShellFails`); JoinedAtStart allows it.
* A disconnect escape returns before the bytes that stood before it in the same
  buffer are given to the stream; OnlyEscapesWithheld says that nothing else is
  dropped.
* The Shutdown packet has one number, but copies are sent for 150 ms while newer
  packets are numbered; copies that arrive after those are stale, and the client
  stays in its reconnecting state.
* `diff_from` computes `y * cols + x` in 16 bits, `patch` in `usize`: above 65536
  cells the round trip fails. The models and the theorem assume `Fits`.
* A late copy of a fragment of a finished packet opens a new entry in the
  reassembly buffer, and the client asks for fragments of a packet it has
  acknowledged until the entry is pruned or evicted.
* `apply_frame` prunes predictions with the server's frame number, although they
  are numbered by the client's stream; and `acknowledge` re-applies predictions
  to a copy that shows them already, so that they appear twice until the next
  frame (`doubled` in Terminal).
* After a suspension or the help text the console is cleared, rows are not marked
  and the Paint is discarded: it stays blank where no frame changes it. Turning
  the overlay off does not mark its row either.
* The help text says "Press any key to return to session..."
  (`client/network.rs:260`), but the background task normally holds the lock of
  the standard input already: the first key goes to the session, and the help text
  closes with a later one. Until then the whole client loop waits, so frames,
  KeepAlives and retransmissions stop as well.
* `parse_token` returns at the first matching line and drops its end of the pipe
  while the server has two more lines to print: if ssh closes its end in time,
  `println!` panics in the server and the bootstrap fails after a good token
  (`PrintPanics`). The exit status keeps the client from contacting it.
* `Architecture.md:56` says that the client runs `rumsh server --no-daemonize` and
  `:58` that it terminates ssh; `bootstrap.rs` leaves the option out and waits for
  ssh to end.
* The server binds the address of `SSH_CONNECTION`, the client connects to the name
  it was given: they can differ, and then no handshake arrives and both end in
  their loops. Addresses of the start are not modelled.
* The KeepAlive interval is computed only when the reconnecting flag changes
  (`client/session.rs:421`), at five seconds of silence: the intervals of 15
  seconds and more that `Architecture.md:131` lists are reached only if the client
  itself slept.
* The foreground process is cached by its process group: a program that replaces
  itself by `exec` keeps the old echo advice; and a change of the advice alone
  makes no frame.

## 8. Not modelled

`crypto.rs` (calls of a cipher library: packets are taken to open to what was
sealed) and the integration test program. Of modelled parts: values of the
telemetry and of the loss window; the length of intervals, the KeepAlive back-off
among them (every timer may fire at any time, and no property here depends on how
often); the echo advice and its cache (`Terminal` lets the advice change with
every frame); how the shell is started (that it may fail is `ShellFails`) and
killed; the syntax of options and
addresses, the log file; the conversion of one emulator cell; serialisation and
compression.

## 9. Plan

Done, in this order: Grid, History, Network, the two sessions and their
composition; the proofs of the stream, of the screens and of the numbers;
Fragments, Handshake, Escape, Terminal; Delivery with roaming and the refinement
from Session; PtyBridge, ServerTerminalState and ServerScreen; Startup; Keyboard;
the proofs of Fragments, ServerScreen and Startup, of the refinement to
InputChannel, of Terminal and of Keyboard.

Next:

1. The safety part of `ImplementsDelivery` from `SyncInv` (the mapping sorts a
   set, which needs lemmas on the sorted sequence).
2. `ClientTimers`: discrete time for KeepAlive, back-off, retransmission timeout
   and banner, if a property other than the table of intervals turns up.

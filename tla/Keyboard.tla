------------------------------ MODULE Keyboard ------------------------------
(***************************************************************************)
(* Who gets the keys (src/client/network.rs): the background task that      *)
(* reads the terminal for the session, and the help text of ~?, which reads *)
(* one key by itself.  Both go through the library's standard input         *)
(* (external), one buffer behind one lock that is held during a read, also  *)
(* while the read waits for a key.                                          *)
(*                                                                         *)
(* The loop that runs the session waits in the help text, so buffers that   *)
(* are read meanwhile stay in the event channel.                            *)
(***************************************************************************)
EXTENDS Escape

CONSTANT MaxTyped   \* bound of the model: keys pressed in all

ASSUME KeyboardAssumption == MaxTyped \in Nat

VARIABLES
    tty,        \* keys the kernel holds
    stdinBuf,   \* keys in the library's buffer
    lock,       \* who reads: "free", "reader" or "help"
    event_rx,   \* buffers in the channel of the event loop
    helps,      \* ShowHelp actions of the current buffer not yet finished
    typed,      \* history: keys pressed
    takenBy     \* history: who was given each key, in the order read

keyVars == <<tty, stdinBuf, lock, event_rx, helps, typed, takenBy>>
vars == <<escapeVars, keyVars>>

KeyboardInit ==
    /\ EscapeInit
    /\ tty = <<>> /\ stdinBuf = <<>> /\ lock = "free"
    /\ event_rx = <<>> /\ helps = 0 /\ typed = <<>> /\ takenBy = <<>>

Press(b) ==
    /\ Len(typed) < MaxTyped
    /\ tty' = Append(tty, b) /\ typed' = Append(typed, b)
    /\ UNCHANGED <<escapeVars, stdinBuf, lock, event_rx, helps, takenBy>>

\* The lock goes to whoever asks first; it is not handed out in turn.
Lock(who) ==
    /\ lock = "free" /\ (who = "help" => helps > 0)
    /\ lock' = who
    /\ UNCHANGED <<escapeVars, tty, stdinBuf, event_rx, helps, typed, takenBy>>

\* What a read finds: the buffer, which is filled only when it is empty.
Filled == IF stdinBuf # <<>> THEN stdinBuf ELSE tty

\* A read of at most n keys by the holder of the lock; it waits for the first.
Read(who, n) ==
    /\ lock = who /\ Filled # <<>>
    /\ stdinBuf' = SubSeq(Filled, n + 1, Len(Filled))
    /\ tty' = IF stdinBuf # <<>> THEN tty ELSE <<>>
    /\ takenBy' = takenBy \o [i \in 1..n |-> who]
    /\ lock' = "free"
    /\ UNCHANGED <<escapeVars, typed>>

\* The background task reads all there is (1024 bytes at most) and sends it
\* to the event loop.
ReaderRead ==
    /\ Read("reader", Len(Filled))
    /\ event_rx' = Append(event_rx, Filled)
    /\ UNCHANGED helps

\* The help text takes whatever was read, as the background task does.
HelpTakes_All == Len(Filled)

\* The help text reads into a buffer of one byte.
HelpTakes == 1

\* A key is dropped, and the event loop goes on.
HelpRead ==
    /\ Read("help", HelpTakes)
    /\ helps' = helps - 1
    /\ UNCHANGED event_rx

\* The event loop feeds a buffer, then executes the actions: each ShowHelp
\* waits for its key before the next.
Helps(cmds) == Cardinality({i \in DOMAIN cmds : cmds[i] = "?"})

LoopFeed ==
    /\ helps = 0 /\ event_rx # <<>>
    /\ FeedBuffer(Head(event_rx))
    /\ event_rx' = Tail(event_rx)
    /\ helps' = Helps(commands') - Helps(commands)
    /\ UNCHANGED <<tty, stdinBuf, lock, typed, takenBy>>

KeyboardNext ==
    \/ \E b \in Byte : Press(b)
    \/ \E who \in {"reader", "help"} : Lock(who)
    \/ ReaderRead \/ HelpRead \/ LoopFeed

KeyboardSpec == KeyboardInit /\ [][KeyboardNext]_vars

-----------------------------------------------------------------------------
KeysOf(who) == Pick(typed, {i \in DOMAIN takenBy : takenBy[i] = who}, Len(takenBy))

(***************************************************************************)
(* The two readers share the keys without losing one: what the session was  *)
(* or will be fed is what was typed, in order, but for exactly one key for  *)
(* each help text that was closed, wherever the keys stopped on their way   *)
(* and whoever won the lock.                                                *)
(***************************************************************************)
KeysAccountedFor ==
    /\ FlattenSeq(buffers \o event_rx) = KeysOf("reader")
    /\ Len(takenBy) + Len(stdinBuf) + Len(tty) = Len(typed)
    /\ Len(KeysOf("help")) + helps = Helps(commands)

=============================================================================

------------------------------- MODULE Escape -------------------------------
(***************************************************************************)
(* Local escape sequences (src/client/escape.rs): the state machine that    *)
(* looks at every byte read from the terminal, and feed_stdin of the        *)
(* client's session, which runs it over one buffer at a time and gives what *)
(* is left to the reliable stream.                                          *)
(*                                                                         *)
(* Bytes are classes: the two line ends are "nl".                           *)
(***************************************************************************)
EXTENDS Naturals, SequencesExt

Byte == {"~", "nl", ".", "^Z", "?", "o", "a"}
Command == {".", "^Z", "?", "o"}

VARIABLES
    escState,   \* "newline" and "midline" (both Normal), or "waiting"
    stream,     \* bytes handed to prepare_keystrokes, in order
    commands,   \* commands executed, in order
    left,       \* the client was told to disconnect
    buffers     \* history: the buffers read from the terminal

escapeVars == <<escState, stream, commands, left, buffers>>

EscapeInit ==
    /\ escState = "newline"   \* the start of the session counts as a newline
    /\ stream = <<>> /\ commands = <<>> /\ left = FALSE /\ buffers = <<>>

Normal(b) == IF b = "nl" THEN "newline" ELSE "midline"

\* The tilde that was held back is lost.
Aborted_TildeLost(b) == <<b>>

\* What a sequence that turns out to be no command sends.
Aborted(b) == <<"~", b>>

\* handle_byte: the next state, the bytes to send and the command to run.
HandleByte(st, b) ==
    CASE st = "newline" /\ b = "~" ->
            [state |-> "waiting", send |-> <<>>, run |-> <<>>]
      [] st \in {"newline", "midline"} /\ ~(st = "newline" /\ b = "~") ->
            [state |-> Normal(b), send |-> <<b>>, run |-> <<>>]
      [] st = "waiting" /\ b \in Command ->
            [state |-> IF b = "^Z" THEN "newline" ELSE "midline",
             send |-> <<>>, run |-> <<b>>]
      [] st = "waiting" /\ b = "~" ->
            [state |-> "midline", send |-> <<"~">>, run |-> <<>>]
      [] st = "waiting" /\ b \notin Command \cup {"~"} ->
            [state |-> Normal(b), send |-> Aborted(b), run |-> <<>>]

\* The loop of feed_stdin after k bytes.  Disconnect ends it at once.
Interpret(buf) ==
    LET acc[k \in 0..Len(buf)] ==
            IF k = 0 THEN [state |-> escState, send |-> <<>>, run |-> <<>>]
            ELSE IF "." \in Range(acc[k-1].run) THEN acc[k-1]
            ELSE LET r == HandleByte(acc[k-1].state, buf[k])
                 IN  [state |-> r.state, send |-> acc[k-1].send \o r.send,
                      run |-> acc[k-1].run \o r.run]
    IN  acc[Len(buf)]

\* feed_stdin.  A Disconnect returns before the bytes collected so far are
\* sent; the rest of the buffer is not looked at.
FeedBuffer(buf) ==
    LET result == Interpret(buf)
    IN  /\ ~left
        /\ buffers' = Append(buffers, buf)
        /\ escState' = result.state
        /\ commands' = commands \o result.run
        /\ left' = ("." \in Range(result.run))
        /\ stream' = IF left' THEN stream ELSE stream \o result.send

Typed == FlattenSeq(buffers)

-----------------------------------------------------------------------------
(***************************************************************************)
(* The reference, over all that was typed and without a state machine.  A   *)
(* tilde is special if it starts a line: the first byte, after a line end,  *)
(* or after a suspension, so each tilde of a run ~^Z~^Z~ that begins there. *)
(* A special tilde and the command after it are kept from the server, and   *)
(* so is the first of two tildes; the last byte typed is held back while it *)
(* is a special tilde.                                                      *)
(***************************************************************************)
Special(t) ==
    {i \in 1..Len(t) : t[i] = "~" /\ \E j \in 1..i :
        /\ t[j] = "~" /\ (j = 1 \/ t[j-1] = "nl")
        /\ \A k \in j..(i-1) : {t[k], t[k+1]} = {"~", "^Z"}}

Withheld(t) ==
    LET sp == Special(t)
    IN  {i \in sp : i = Len(t) \/ t[i+1] \in Command \cup {"~"}}
            \cup {i \in 2..Len(t) : i-1 \in sp /\ t[i] \in Command}

\* Of the first n bytes of t, those at the positions in keep.
Pick(t, keep, n) ==
    LET p[i \in 0..n] == IF i = 0 THEN <<>>
                         ELSE IF i \in keep THEN Append(p[i-1], t[i]) ELSE p[i-1]
    IN  p[n]

(***************************************************************************)
(* What the server is sent is what was typed without the escape sequences,  *)
(* however the terminal cuts the bytes into buffers: a sequence may begin   *)
(* in one buffer and end in the next.  A disconnect drops only bytes of its *)
(* own buffer, and is executed last.                                        *)
(***************************************************************************)
OnlyEscapesWithheld ==
    LET seen == IF left THEN FlattenSeq(Front(buffers)) ELSE Typed
        sent == Pick(seen, (1..Len(seen)) \ Withheld(seen), Len(seen))
        held == Len(seen) \in Special(seen)
    IN  /\ stream = sent
        /\ left => /\ Last(commands) = "."
                   /\ \E i \in Special(Typed) : i < Len(Typed) /\ Typed[i+1] = "."
        /\ ~left => (escState = "waiting" <=> held)

=============================================================================

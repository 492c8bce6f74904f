------------------------------ MODULE Terminal ------------------------------
(***************************************************************************)
(* What the user sees: the client's copy of the screen with local echo      *)
(* (src/client/echo.rs), its dirty marks, and the painter that brings dirty *)
(* rows to the console (src/client/terminal.rs), as driven by the handlers  *)
(* of the client's session and by the event loop, which paints before it    *)
(* takes the next event.                                                    *)
(*                                                                         *)
(* Control bytes are never predicted (feed_stdin), so apply_keystrokes is   *)
(* modelled for the others.  Its epochs are left out: abort empties the     *)
(* queue and re-applied entries get the current epoch, so they never        *)
(* decide.  Colours, styles and wide characters are part of a cell.         *)
(***************************************************************************)
EXTENDS Grid, SequencesExt

CONSTANTS
    ServerScreens,  \* screens the server may send
    Buffers,        \* buffers the user may type, escape sequences removed
    Printable,      \* bytes that are shown as one cell
    Control,        \* control bytes
    MaxInput,       \* bound of the model on the client's packet numbers
    MaxFrame        \* bound of the model on the server's packet numbers

\* A cursor is a column and a row; a cell shows neither banner nor overlay.
ASSUME TerminalAssumption ==
    /\ MaxInput \in Nat \ {0} /\ MaxFrame \in Nat
    /\ Printable \subseteq Cell /\ \A g \in ServerScreens : IsGrid(g)
    /\ Cursor \subseteq Nat \X Nat
    /\ \A buf \in Buffers : buf \in Seq(Range(buf))
    /\ {"banner", "overlay"} \cap Cell = {}

VARIABLES
    frame,          \* cols, rows, cells and cursor <<x, y>> of the copy
    unconfirmed,    \* predictions not confirmed yet, oldest first
    echoOn,         \* the server recommends local echo
    marks,          \* dirty, the set of dirty rows, and clear_requested
    reconnecting,   \* the banner is on
    overlay,        \* the telemetry line is on
    inputSeq,       \* last number of the client's reliable stream
    frameSeq,       \* last packet number taken from the server
    ackSeq,         \* acknowledgement of that packet
    console,        \* what the user's terminal shows (external)
    base,           \* history: the screen the predictions were put on
    doubled,        \* history: predictions were put on a screen with them
    excused         \* history: positions changed without a mark

echoVars == <<frame, unconfirmed, echoOn, base, doubled>>
paintVars == <<marks, console, excused>>
seqVars == <<inputSeq, frameSeq, ackSeq>>
vars == <<echoVars, paintVars, seqVars, reconnecting, overlay>>

Positions == UNION {Pos(g.cols, g.rows) : g \in ServerScreens}
FrameOf(g) == [cols |-> g.cols, rows |-> g.rows, cells |-> g.cells, cursor |-> g.cursor]
Cleared == [p \in Positions |-> Blank]

\* run_client: a blank copy, everything dirty; the first on_winch is sent but
\* not painted.
TerminalInit ==
    /\ \E g \in ServerScreens : frame = FrameOf(BlankGrid(g.cols, g.rows, <<0, 0>>))
    /\ unconfirmed = <<>> /\ echoOn = TRUE
    /\ marks = [dirty |-> TRUE, rows |-> 0..(frame.rows - 1), clear |-> FALSE]
    /\ reconnecting = FALSE /\ overlay = FALSE
    /\ inputSeq = 1 /\ frameSeq = 0 /\ ackSeq = 0
    /\ console = Cleared
    /\ base = frame /\ doubled = FALSE /\ excused = {}

-----------------------------------------------------------------------------
(***************************************************************************)
(* LocalEchoEngine.  An entry of the queue remembers the cursor and the     *)
(* cells it overwrote.                                                      *)
(***************************************************************************)

\* The cell is remembered anew whenever it is overwritten.
Remember_Last(old, p, cell) ==
    [q \in DOMAIN old \cup {p} |-> IF q = p THEN cell ELSE old[q]]

\* The cell as it was before the entry: only the first value counts.
Remember(old, p, cell) ==
    [q \in DOMAIN old \cup {p} |-> IF q \in DOMAIN old THEN old[q] ELSE cell]

\* One printable byte; at the end of the last row the cursor stays in it.
ApplyByte(acc, b) ==
    LET f == acc.frame
        x == f.cursor[1]
        y == f.cursor[2]
        below == IF y + 1 < f.rows THEN y + 1 ELSE f.rows - 1
    IN  IF b \in Printable /\ x < f.cols /\ y < f.rows
        THEN [frame |-> [f EXCEPT !.cells[<<y, x>>] = b,
                                  !.cursor = IF x + 1 < f.cols THEN <<x + 1, y>>
                                                               ELSE <<0, below>>],
              old   |-> Remember(acc.old, <<y, x>>, f.cells[<<y, x>>])]
        ELSE acc

\* echo is the copy and the queue.
ApplyKeystrokes(echo, bytes, seq) ==
    LET done == FoldLeft(ApplyByte, [frame |-> echo.frame, old |-> [p \in {} |-> Blank]], bytes)
    IN  [frame |-> done.frame,
         queue |-> Append(echo.queue, [seq |-> seq, bytes |-> bytes,
                                       cursor |-> echo.frame.cursor, old |-> done.old])]

\* Acknowledged entries are dropped from the front, up to the first that is not.
Survivors(queue, ack) ==
    LET kept == {i \in DOMAIN queue : queue[i].seq > ack}
    IN  IF kept = {} THEN <<>> ELSE SubSeq(queue, Min(kept), Len(queue))

\* reconcile_frame: drop what is acknowledged and apply the rest (again).
Reconcile(echo, ack) ==
    FoldLeft(LAMBDA e, entry : ApplyKeystrokes(e, entry.bytes, entry.seq),
             [frame |-> echo.frame, queue |-> <<>>], Survivors(echo.queue, ack))

\* abort: undo the predictions, newest first.
UndoEntry(entry, f) ==
    [f EXCEPT !.cursor = entry.cursor,
              !.cells = [p \in DOMAIN f.cells |->
                           IF p \in DOMAIN entry.old THEN entry.old[p] ELSE f.cells[p]]]

Undone(echo) == FoldRight(UndoEntry, echo.queue, echo.frame)

Echo == [frame |-> frame, queue |-> unconfirmed]
SetEcho(echo) == frame' = echo.frame /\ unconfirmed' = echo.queue
Abort == SetEcho([frame |-> Undone(Echo), queue |-> <<>>])

-----------------------------------------------------------------------------
(***************************************************************************)
(* Dirty marks and painting.                                                *)
(***************************************************************************)
Dirty(m) == [m EXCEPT !.dirty = TRUE]

\* The row the banner covered is not marked.
BannerOff_NoRow(m, rows) == Dirty(m)

\* set_reconnecting(false): the row the banner covered must be painted again.
BannerOff(m, rows) == [m EXCEPT !.dirty = TRUE, !.rows = @ \cup {rows - 1}]

\* Only the first row is compared.
ChangedRows_FirstOnly(f, g) == {y \in {0} : \E p \in DOMAIN g.cells : p[1] = y /\ f.cells[p] # g.cells[p]}

ChangedRows(f, g) ==
    {y \in 0..(g.rows - 1) : \E p \in DOMAIN g.cells : p[1] = y /\ f.cells[p] # g.cells[p]}

\* update_from_grid_state: the copy becomes g; another size starts blank.
MarksAfter(m, f, g) ==
    LET resized == f.cols # g.cols \/ f.rows # g.rows
        from    == IF resized THEN BlankGrid(g.cols, g.rows, f.cursor) ELSE f
        changed == ChangedRows(from, g)
    IN  [dirty |-> m.dirty \/ changed # {} \/ f.cursor # g.cursor,
         rows  |-> IF resized THEN 0..(g.rows - 1) ELSE m.rows \cup changed,
         clear |-> m.clear \/ resized]

\* paint: rows that are dirty, then the banner and the overlay over them.
\* The last cell of the last row is never written.
Painted(f, m) ==
    LET start == IF m.clear THEN Cleared ELSE console
        Inside(p) == p \in DOMAIN f.cells /\ p # <<f.rows - 1, f.cols - 1>>
    IN  IF ~m.dirty THEN start
        ELSE [p \in Positions |->
                IF ~Inside(p) THEN start[p]
                ELSE IF overlay' /\ p[1] = 0 THEN "overlay"
                ELSE IF reconnecting' /\ p[1] = f.rows - 1 THEN "banner"
                ELSE IF p[1] \in m.rows THEN f.cells[p] ELSE start[p]]

\* The Paint action: consume_updates and paint, or nothing if nothing is dirty.
Paint(m) ==
    /\ console' = Painted(frame', m)
    /\ marks' = [dirty |-> FALSE, rows |-> IF m.dirty \/ m.clear THEN {} ELSE m.rows,
                 clear |-> FALSE]

\* Telemetry makes the copy dirty while its line is shown.
Telemetry(m) == {m} \cup (IF overlay THEN {Dirty(m)} ELSE {})

\* History: positions that become different from the console without a mark,
\* until the console shows them again.
Excuse(new) ==
    excused' = {p \in excused \cup new :
                  p \in DOMAIN frame'.cells => console'[p] # frame'.cells[p]}

Differ(f, g) == {p \in DOMAIN f.cells \cap DOMAIN g.cells : f.cells[p] # g.cells[p]}

-----------------------------------------------------------------------------
NumberInput == inputSeq < MaxInput /\ inputSeq' = inputSeq + 1 /\ UNCHANGED <<frameSeq, ackSeq>>

\* feed_stdin: a buffer without control bytes is predicted, and painted.
FeedStdin(buf) ==
    LET predicted == echoOn /\ Range(buf) \cap Control = {}
    IN  /\ NumberInput
        /\ \/ /\ predicted
              /\ SetEcho(ApplyKeystrokes(Echo, buf, inputSeq + 1))
              /\ base' = IF unconfirmed = <<>> THEN frame ELSE base
              /\ doubled' = (unconfirmed # <<>> /\ doubled)
              /\ UNCHANGED <<reconnecting, overlay>>
              /\ Paint(marks)
              /\ Excuse(Differ(frame, frame'))
           \/ /\ ~predicted
              /\ UNCHANGED <<frame, unconfirmed, base, doubled, paintVars, reconnecting, overlay>>
        /\ UNCHANGED echoOn

\* on_winch, painted at once.
OnWinch ==
    /\ NumberInput
    /\ Abort
    /\ UNCHANGED <<echoOn, base, doubled, reconnecting, overlay>>
    /\ Paint(Dirty(marks))
    /\ Excuse(Differ(frame, frame'))

\* Back from a suspension or from the help text: the console was cleared, and
\* the actions that on_winch returns, Paint among them, are thrown away.
OnResume ==
    /\ NumberInput
    /\ Abort
    /\ console' = Cleared
    /\ marks' = Dirty(marks)
    /\ Excuse(Positions)
    /\ UNCHANGED <<echoOn, base, doubled, reconnecting, overlay>>

ToggleOverlay ==
    /\ overlay' = ~overlay
    /\ UNCHANGED <<echoVars, seqVars, reconnecting>>
    /\ Paint(Dirty(marks))
    /\ Excuse({})

\* on_tick: the banner after five seconds of silence, and once a second the
\* telemetry; both end in a Paint.
TickBanner ==
    /\ ~reconnecting
    /\ reconnecting' = TRUE
    /\ UNCHANGED <<echoVars, seqVars, overlay>>
    /\ Paint(Dirty(marks))
    /\ Excuse({})

TickTelemetry ==
    /\ UNCHANGED <<echoVars, seqVars, reconnecting, overlay>>
    /\ \E m \in Telemetry(marks) : Paint(m)
    /\ Excuse({})

-----------------------------------------------------------------------------
\* acknowledge, which feed_packet calls for every packet.
Acknowledged(ack) == Reconcile(Echo, ack)

MarksReceived == IF reconnecting THEN BannerOff(marks, frame.rows) ELSE marks

\* Numbers may be skipped: packets are lost or overtaken.
NewerPacket(seq, ack) ==
    /\ seq > frameSeq
    /\ frameSeq' = seq /\ ackSeq' = ack /\ UNCHANGED inputSeq
    /\ reconnecting' = FALSE /\ UNCHANGED overlay

\* A frame: acknowledge, then the new screen, then the predictions that the
\* frame's own number does not drop, then abort if echo is not recommended.
FeedFrame(g, seq, ack, recommended) ==
    LET acked == Acknowledged(ack)
        onTop == Reconcile([frame |-> FrameOf(g), queue |-> acked.queue], seq)
    IN  /\ NewerPacket(seq, ack)
        /\ echoOn' = recommended
        /\ IF recommended THEN SetEcho(onTop)
                          ELSE SetEcho([frame |-> Undone(onTop), queue |-> <<>>])
        /\ base' = FrameOf(g) /\ doubled' = FALSE
        /\ \E m \in Telemetry(MarksReceived) : Paint(MarksAfter(m, acked.frame, g))
        /\ Excuse(Differ(frame, acked.frame) \cup Differ(onTop.frame, g))

\* A KeepAlive, or a packet that is not newer, only acknowledges: what is
\* left of the predictions is put on a screen that shows them already.
OnlyAcknowledge(ack) ==
    /\ SetEcho(Acknowledged(ack))
    /\ doubled' = (doubled \/ Survivors(unconfirmed, ack) # <<>>)
    /\ UNCHANGED <<echoOn, base, console>>
    /\ Excuse(Differ(frame, frame'))

FeedKeepAlive(seq, ack) ==
    /\ NewerPacket(seq, ack)
    /\ marks' \in Telemetry(MarksReceived)
    /\ OnlyAcknowledge(ack)

FeedStale(ack) ==
    /\ marks' \in Telemetry(marks)
    /\ OnlyAcknowledge(ack)
    /\ UNCHANGED <<seqVars, reconnecting, overlay>>

TerminalNext ==
    \/ \E buf \in Buffers : FeedStdin(buf)
    \/ OnWinch \/ OnResume \/ ToggleOverlay \/ TickBanner \/ TickTelemetry
    \/ \E seq \in 1..MaxFrame, ack \in ackSeq..inputSeq :
          \/ \E g \in ServerScreens, recommended \in BOOLEAN : FeedFrame(g, seq, ack, recommended)
          \/ FeedKeepAlive(seq, ack)
    \/ \E ack \in 0..ackSeq : FeedStale(ack)

TerminalSpec == TerminalInit /\ [][TerminalNext]_vars

-----------------------------------------------------------------------------
(***************************************************************************)
(* Rolling back: unless predictions were doubled, undoing the queue gives   *)
(* exactly the screen they were put on, cursor included, however they       *)
(* overlap and however often frames made them be applied anew (abort).      *)
(***************************************************************************)
UndoRestores == unconfirmed # <<>> /\ ~doubled => Undone(Echo) = base

(***************************************************************************)
(* Once a packet has come in, the banner is gone from the console or its    *)
(* row is due to be painted, also across a change of size.                  *)
(***************************************************************************)
BannerErased ==
    ~reconnecting => \A p \in Positions :
        console[p] = "banner" => marks.clear \/ (marks.dirty /\ p[1] \in marks.rows)

\* The console differs from the copy at p (where neither banner nor overlay is
\* and which is not the corner that is never painted), and no mark says so.
Forgotten(p) ==
    /\ p \in DOMAIN frame.cells /\ p # <<frame.rows - 1, frame.cols - 1>>
    /\ console[p] \notin {"banner", "overlay", frame.cells[p]}
    /\ ~(marks.dirty /\ p[1] \in marks.rows)
    /\ ~(marks.clear /\ frame.cells[p] = Blank)

(***************************************************************************)
(* Every change that a frame brings reaches the console or is marked: marks *)
(* are cleared only by painting what they stand for.  Left out are the      *)
(* positions that local echo, the overlay or a cleared console touched.     *)
(***************************************************************************)
FramesReachConsole == \A p \in Positions \ excused : ~Forgotten(p)

(***************************************************************************)
(* The same for local echo, as the unit test of predict_input has it: a row *)
(* with a prediction is dirty until it is painted.                          *)
(***************************************************************************)
PredictionsReachConsole ==
    \A i \in DOMAIN unconfirmed : \A p \in DOMAIN unconfirmed[i].old : ~Forgotten(p)

=============================================================================

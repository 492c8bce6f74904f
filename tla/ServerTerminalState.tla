------------------------- MODULE ServerTerminalState ------------------------
(***************************************************************************)
(* The server's copy of the terminal emulator's screen                      *)
(* (src/server/state.rs) and what check_sync makes of it                    *)
(* (src/server/session.rs): rows are copied into grid_state only if they    *)
(* are dirty or a full copy is forced, the emulator may fail at any row,    *)
(* and the copy is recorded in the history when a frame is queued.          *)
(*                                                                         *)
(* The emulator (libghostty_vt) is external.  A row stands for its cells    *)
(* and its wrap flag; converting a cell is left out.                        *)
(***************************************************************************)
EXTENDS Naturals, Sequences

CONSTANTS
    Row,            \* contents a row may have
    BlankRow,       \* a row of blanks
    CursorState,    \* positions and visibility of the cursor
    HomeCursor,     \* the cursor of a new grid_state
    Dimensions      \* sizes <<columns, rows>> of the emulator's screen

ASSUME StateAssumption ==
    /\ BlankRow \in Row /\ HomeCursor \in CursorState
    /\ Dimensions \subseteq (Nat \ {0}) \X (Nat \ {0})

VARIABLES
    emulator,   \* the emulator's screen
    rowDirty,   \* rows changed since their dirty flag was cleared
    grid_state, \* the server's copy
    force_full, \* the next update copies every row
    unsent,     \* dirty of the session
    lastFrame   \* the back of state_history, or NoFrame

copyVars == <<grid_state, force_full>>
stateVars == <<emulator, rowDirty, copyVars, unsent, lastFrame>>

RowsOf(dim) == 1..dim[2]
View(dim, rows, cursor) == [dim |-> dim, rows |-> rows, cursor |-> cursor]
Views == UNION {{View(d, r, c) : r \in [RowsOf(d) -> Row], c \in CursorState} : d \in Dimensions}
BlankRows(dim) == [y \in RowsOf(dim) |-> BlankRow]
NoFrame == [dim |-> <<0, 0>>]

\* new: a blank copy, and a full update forced.
StateInit ==
    \E d \in Dimensions :
        /\ emulator = View(d, BlankRows(d), HomeCursor)
        /\ rowDirty = {}
        /\ grid_state = View(d, BlankRows(d), HomeCursor)
        /\ force_full = TRUE
        /\ unsent = FALSE /\ lastFrame = NoFrame

-----------------------------------------------------------------------------
\* vt_write: the emulator marks the rows it changes; it may change its own
\* size (132 columns), and then marks every row.
VtWrite(next) ==
    /\ emulator' = next
    /\ rowDirty' = IF next.dim # emulator.dim THEN RowsOf(next.dim)
                   ELSE rowDirty \cup {y \in RowsOf(next.dim) : next.rows[y] # emulator.rows[y]}

\* on_pty_bytes.
OnPtyBytes(next) ==
    /\ VtWrite(next)
    /\ unsent' = TRUE
    /\ UNCHANGED <<copyVars, lastFrame>>

\* The copy is resized but not marked for a full update.
Resized_NotForced(dim) ==
    /\ grid_state' = View(dim, BlankRows(dim), grid_state.cursor)
    /\ UNCHANGED force_full

\* The copy takes the new size with blank rows, and must be filled again.
Resized(dim) ==
    /\ grid_state' = View(dim, BlankRows(dim), grid_state.cursor)
    /\ force_full' = TRUE

\* A Resize packet.  The emulator reflows its text, or refuses the size; the
\* code does not rely on any row being marked then.
OnResize(next) ==
    /\ \/ emulator' = next /\ rowDirty' = {} /\ Resized(next.dim)
       \/ UNCHANGED <<emulator, rowDirty, copyVars>>
    /\ unsent' = TRUE
    /\ UNCHANGED lastFrame

-----------------------------------------------------------------------------
\* update_and_get_state first takes over a size the emulator chose itself.
Adapted(grid) ==
    IF grid.dim = emulator.dim THEN grid
    ELSE View(emulator.dim, BlankRows(emulator.dim), grid.cursor)
Forced == force_full \/ grid_state.dim # emulator.dim

\* Rows not looked at are marked clean as well.
CleanedRows_All(done) == RowsOf(emulator.dim)

\* The rows whose flag is cleared when the first done rows were gone through.
CleanedRows(done) == 1..done

\* The first done rows of the copy: those that are dirty, or all if forced.
CopyRows(grid, done) ==
    [grid EXCEPT !.rows = [y \in RowsOf(grid.dim) |->
        IF y <= done /\ (Forced \/ y \in rowDirty) THEN emulator.rows[y] ELSE grid.rows[y]]]

\* An update that fails: before anything, or at row done + 1, of which the
\* cells may be copied but not the flag cleared.
UpdateFails(done, copied) ==
    /\ copied \in {done, done + 1} /\ copied <= emulator.dim[2]
    /\ grid_state' = CopyRows(Adapted(grid_state), copied)
    /\ force_full' = Forced
    /\ rowDirty' = rowDirty \ CleanedRows(done)
    /\ UNCHANGED <<emulator, unsent, lastFrame>>

\* It may also fail at the very end, when only the cursor is missing.
UpdateFailsLast ==
    /\ grid_state' = CopyRows(Adapted(grid_state), emulator.dim[2])
    /\ force_full' = FALSE
    /\ rowDirty' = rowDirty \ CleanedRows(emulator.dim[2])
    /\ UNCHANGED <<emulator, unsent, lastFrame>>

\* An update that succeeds.  check_sync queues a frame, or skips it because it
\* is the last one again: either way the history ends with this screen.
UpdateAndSync(ackUpdated) ==
    /\ unsent \/ ackUpdated
    /\ grid_state' = [CopyRows(Adapted(grid_state), emulator.dim[2])
                         EXCEPT !.cursor = emulator.cursor]
    /\ force_full' = FALSE
    /\ rowDirty' = rowDirty \ CleanedRows(emulator.dim[2])
    /\ unsent' = FALSE
    /\ lastFrame' = grid_state'
    /\ UNCHANGED emulator

\* A late handshake clears the history.
Forget ==
    /\ lastFrame' = NoFrame /\ unsent' = TRUE
    /\ UNCHANGED <<emulator, rowDirty, copyVars>>

-----------------------------------------------------------------------------
(***************************************************************************)
(* What is not marked for copying is already right: a row that is neither   *)
(* dirty nor to be copied by force shows what the emulator shows, although  *)
(* updates may stop at any row and sizes may change in between.             *)
(***************************************************************************)
CleanRowsCurrent ==
    ~Forced => \A y \in RowsOf(emulator.dim) \ rowDirty : grid_state.rows[y] = emulator.rows[y]

(***************************************************************************)
(* A session that has nothing unsent has sent the emulator's screen: the    *)
(* last frame recorded is exactly what the emulator shows, with its size    *)
(* and cursor.  (In Session the two are one variable, term.)                *)
(***************************************************************************)
LastFrameCurrent == ~unsent /\ lastFrame # NoFrame => lastFrame = emulator

=============================================================================

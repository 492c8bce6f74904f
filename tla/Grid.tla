-------------------------------- MODULE Grid --------------------------------
(***************************************************************************)
(* The screen buffer both ends share (src/protocol/grid.rs): GridState, the *)
(* compilation of the difference between two screens into a FrameUpdate     *)
(* (diff_from) and the application of a FrameUpdate to a screen (patch).    *)
(*                                                                         *)
(* A cell stands for grapheme, colours and style together: the code only    *)
(* compares and copies whole cells.  The flat vector of cells is a function *)
(* of positions <<y, x>>; the flat index is kept where its width matters.   *)
(***************************************************************************)
EXTENDS Integers

CONSTANTS
    Cell,        \* what a cell can show
    Blank,       \* the default cell: a space without colours
    Cursor,      \* cursor position and visibility, taken as one value
    IndexRange   \* number of values of the index type of diff_from (2^16)

ASSUME GridAssumption == Blank \in Cell /\ IndexRange \in Nat \ {0}

Pos(cols, rows) == (0..(rows - 1)) \X (0..(cols - 1))

GridOf(cols, rows) ==
    [cols : {cols}, rows : {rows}, cursor : Cursor,
     cells : [Pos(cols, rows) -> Cell], wrapped : [0..(rows - 1) -> BOOLEAN]]

IsGrid(g) == g.cols \in Nat /\ g.rows \in Nat /\ g \in GridOf(g.cols, g.rows)

\* The grid whose every cell fits the index type of diff_from.
Fits(g) == g.cols * g.rows <= IndexRange

(***************************************************************************)
(* Both diff_from and patch start from the reference screen when it has the *)
(* size of the new one, and from an all-default screen when it has not.     *)
(***************************************************************************)
BlankGrid(cols, rows, cursor) ==
    [cols |-> cols, rows |-> rows, cursor |-> cursor,
     cells |-> [p \in Pos(cols, rows) |-> Blank],
     wrapped |-> [y \in 0..(rows - 1) |-> FALSE]]

SameSizeOrBlank(g, cols, rows) ==
    IF g.cols = cols /\ g.rows = rows THEN g
                                      ELSE BlankGrid(cols, rows, g.cursor)

(***************************************************************************)
(* (y * cols + x) is computed in u16 and then used as the flat index, so an *)
(* index beyond the type wraps around to an earlier cell.                   *)
(***************************************************************************)
WrappedPos(y, x, cols) ==
    LET i == y * cols + x
        w == i % IndexRange
    IN  IF i < IndexRange THEN <<y, x>> ELSE <<w \div cols, w % cols>>

\* A row is sent if one of its cells or its wrap flag changed.
RowTouched(changed, to, from) == changed # {} \/ to # from

DiffFrom(cur, ref, refSeq) ==
    LET base == SameSizeOrBlank(ref, cur.cols, cur.rows)
        To(y, x) == cur.cells[WrappedPos(y, x, cur.cols)]
        From(y, x) == base.cells[WrappedPos(y, x, cur.cols)]
        Changed(y) == {x \in 0..(cur.cols - 1) : To(y, x) # From(y, x)}
        Touched == {y \in 0..(cur.rows - 1) :
                       RowTouched(Changed(y), cur.wrapped[y], base.wrapped[y])}
    IN  [ref_seq |-> refSeq, cols |-> cur.cols, rows |-> cur.rows,
         cursor |-> cur.cursor,
         row_updates |-> [y \in Touched |->
                            [cells |-> [x \in Changed(y) |-> To(y, x)],
                             wrapped |-> cur.wrapped[y]]]]

\* After a change of size the cells inside both screens are kept.
Patch_KeepsOverlap(g, diff) ==
    LET Sent(p) == p[1] \in DOMAIN diff.row_updates /\ p[2] \in DOMAIN diff.row_updates[p[1]].cells
    IN  [cols |-> diff.cols, rows |-> diff.rows, cursor |-> diff.cursor,
         cells |-> [p \in Pos(diff.cols, diff.rows) |->
                      CASE Sent(p) -> diff.row_updates[p[1]].cells[p[2]]
                        [] ~Sent(p) /\ p \in DOMAIN g.cells -> g.cells[p]
                        [] OTHER -> Blank],
         wrapped |-> [y \in 0..(diff.rows - 1) |-> FALSE]]

Patch(g, diff) ==
    LET base == SameSizeOrBlank(g, diff.cols, diff.rows)
        Rows == DOMAIN diff.row_updates
    IN  [cols |-> diff.cols, rows |-> diff.rows, cursor |-> diff.cursor,
         cells |-> [p \in Pos(diff.cols, diff.rows) |->
                      IF p[1] \in Rows /\ p[2] \in DOMAIN diff.row_updates[p[1]].cells
                      THEN diff.row_updates[p[1]].cells[p[2]]
                      ELSE base.cells[p]],
         wrapped |-> [y \in 0..(diff.rows - 1) |->
                        IF y \in Rows THEN diff.row_updates[y].wrapped
                                      ELSE base.wrapped[y]]]

\* patch refuses an update that names a row or a column outside the screen.
InBounds(diff) ==
    /\ DOMAIN diff.row_updates \subseteq 0..(diff.rows - 1)
    /\ \A y \in DOMAIN diff.row_updates :
          DOMAIN diff.row_updates[y].cells \subseteq 0..(diff.cols - 1)

(***************************************************************************)
(* What the pair promises: patching the reference with the difference gives *)
(* the new screen, whatever the two sizes are.                              *)
(***************************************************************************)
RoundTrip(cur, ref) ==
    LET diff == DiffFrom(cur, ref, 0) IN InBounds(diff) /\ Patch(ref, diff) = cur

=============================================================================

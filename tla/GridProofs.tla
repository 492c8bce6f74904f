----------------------------- MODULE GridProofs -----------------------------
(***************************************************************************)
(* What diff_from and patch achieve together, for every pair of screens     *)
(* that the index type of diff_from can address.                            *)
(***************************************************************************)
EXTENDS Grid, TLAPS

\* A position of a screen that fits is addressed as it is.
LEMMA WrappedPosFits ==
    ASSUME NEW cols \in Nat, NEW rows \in Nat, cols * rows <= IndexRange,
           NEW y \in 0..(rows - 1), NEW x \in 0..(cols - 1)
    PROVE  WrappedPos(y, x, cols) = <<y, x>>
<1>1. y * cols + x < cols * rows
  <2>1. rows - 1 - y \in Nat /\ cols \in Nat
    OBVIOUS
  <2>2. (rows - 1 - y) * cols >= 0
    BY <2>1
  <2>3. (rows - 1 - y) * cols = rows * cols - cols - y * cols
    OBVIOUS
  <2> QED BY <2>2, <2>3
<1> QED BY <1>1, GridAssumption DEF WrappedPos

\* The reference actually used has the size of the new screen.
LEMMA BaseIsGrid ==
    ASSUME NEW g, IsGrid(g), NEW cols \in Nat, NEW rows \in Nat
    PROVE  LET b == SameSizeOrBlank(g, cols, rows)
           IN  b.cols = cols /\ b.rows = rows /\ b \in GridOf(cols, rows)
BY GridAssumption DEF IsGrid, SameSizeOrBlank, BlankGrid, GridOf

(***************************************************************************)
(* diff_from followed by patch on the same reference rebuilds the screen,   *)
(* cell by cell, wrap flag by wrap flag, whether or not the sizes agree.    *)
(***************************************************************************)
THEOREM DiffPatchRoundTrip ==
    ASSUME NEW cur, IsGrid(cur), Fits(cur), NEW ref, IsGrid(ref), NEW n
    PROVE  /\ InBounds(DiffFrom(cur, ref, n))
           /\ Patch(ref, DiffFrom(cur, ref, n)) = cur
<1> DEFINE base == SameSizeOrBlank(ref, cur.cols, cur.rows)
           Changed(y) == {x \in 0..(cur.cols - 1) : cur.cells[<<y, x>>] # base.cells[<<y, x>>]}
           Touched == {y \in 0..(cur.rows - 1) :
                          Changed(y) # {} \/ cur.wrapped[y] # base.wrapped[y]}
           ups == [y \in Touched |->
                     [cells |-> [x \in Changed(y) |-> cur.cells[<<y, x>>]],
                      wrapped |-> cur.wrapped[y]]]
           d == [ref_seq |-> n, cols |-> cur.cols, rows |-> cur.rows,
                 cursor |-> cur.cursor, row_updates |-> ups]
<1>1. cur.cols \in Nat /\ cur.rows \in Nat /\ cur \in GridOf(cur.cols, cur.rows)
  BY DEF IsGrid
<1>2. base \in GridOf(cur.cols, cur.rows)
  BY <1>1, BaseIsGrid
<1>3. DiffFrom(cur, ref, n) = d
  <2>1. \A y \in 0..(cur.rows - 1), x \in 0..(cur.cols - 1) :
           WrappedPos(y, x, cur.cols) = <<y, x>>
    BY <1>1, WrappedPosFits DEF Fits
  <2> QED BY <2>1, ZenonT(60) DEF DiffFrom, RowTouched
<1>4. InBounds(d)
  BY DEF InBounds
<1>5. Patch(ref, d) = cur
  <2> DEFINE cells2 == [p \in Pos(cur.cols, cur.rows) |->
                          IF p[1] \in Touched /\ p[2] \in Changed(p[1])
                          THEN cur.cells[<<p[1], p[2]>>] ELSE base.cells[p]]
             wrapped2 == [y \in 0..(cur.rows - 1) |->
                            IF y \in Touched THEN cur.wrapped[y] ELSE base.wrapped[y]]
  <2>1. Patch(ref, d) = [cols |-> cur.cols, rows |-> cur.rows, cursor |-> cur.cursor,
                         cells |-> cells2, wrapped |-> wrapped2]
    BY DEF Patch
  <2>2. cells2 = cur.cells
    <3>1. cur.cells \in [Pos(cur.cols, cur.rows) -> Cell]
      BY <1>1 DEF GridOf
    <3>2. ASSUME NEW p \in Pos(cur.cols, cur.rows) PROVE cells2[p] = cur.cells[p]
      <4>1. /\ p[1] \in 0..(cur.rows - 1) /\ p[2] \in 0..(cur.cols - 1)
            /\ p = <<p[1], p[2]>>
        BY DEF Pos
      <4>2. CASE p[2] \in Changed(p[1])
        BY <4>1, <4>2
      <4>3. CASE p[2] \notin Changed(p[1])
        BY <4>1, <4>3
      <4> QED BY <4>2, <4>3
    <3> QED BY <3>1, <3>2
  <2>3. wrapped2 = cur.wrapped
    <3>1. cur.wrapped \in [0..(cur.rows - 1) -> BOOLEAN]
      BY <1>1 DEF GridOf
    <3> QED BY <3>1
  <2>4. cur = [cols |-> cur.cols, rows |-> cur.rows, cursor |-> cur.cursor,
               cells |-> cur.cells, wrapped |-> cur.wrapped]
    BY <1>1 DEF GridOf
  <2> QED BY <2>1, <2>2, <2>3, <2>4
<1> QED BY <1>3, <1>4, <1>5

=============================================================================

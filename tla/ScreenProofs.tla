---------------------------- MODULE ScreenProofs ----------------------------
(***************************************************************************)
(* Proofs about ServerScreen, for every value of its constants: screens of  *)
(* any sizes and contents, any capacity of the kernel's terminal and any    *)
(* number of writes, with updates that fail at any row.                     *)
(***************************************************************************)
EXTENDS ServerScreen, SequenceTheorems, TLAPS

-----------------------------------------------------------------------------
(***************************************************************************)
(* Screens.                                                                 *)
(***************************************************************************)
IsView(v) ==
    /\ v = View(v.dim, v.rows, v.cursor)
    /\ v.dim \in Dimensions
    /\ v.rows \in [RowsOf(v.dim) -> Row]
    /\ v.cursor \in CursorState

(***************************************************************************)
(* A member of Views is a record of a size, its rows and a cursor.          *)
(***************************************************************************)
LEMMA ViewFacts == \A v \in Views : IsView(v)
BY DEF Views, View, IsView

(***************************************************************************)
(* And such a record is a member of Views.                                  *)
(***************************************************************************)
LEMMA ViewIsView ==
    ASSUME NEW d \in Dimensions, NEW r \in [RowsOf(d) -> Row], NEW c \in CursorState
    PROVE  IsView(View(d, r, c))
BY DEF View, IsView

(***************************************************************************)
(* The type part of the inductive invariant, and the two properties.        *)
(***************************************************************************)
StateTypes ==
    /\ IsView(emulator) /\ IsView(grid_state)
    /\ rowDirty \subseteq Nat
    /\ force_full \in BOOLEAN /\ unsent \in BOOLEAN

StateInv == StateTypes /\ CleanRowsCurrent /\ LastFrameCurrent

(***************************************************************************)
(* Rows of a screen are numbered by naturals.                               *)
(***************************************************************************)
LEMMA RowsAreNat ==
    ASSUME NEW d \in Dimensions
    PROVE  d[2] \in Nat \ {0} /\ RowsOf(d) \subseteq Nat
BY StateAssumption DEF RowsOf

(***************************************************************************)
(* A blank screen of an allowed size is a screen.                           *)
(***************************************************************************)
LEMMA BlankIsView ==
    ASSUME NEW d \in Dimensions, NEW c \in CursorState
    PROVE  /\ IsView(View(d, BlankRows(d), c))
           /\ View(d, BlankRows(d), c).dim = d
           /\ View(d, BlankRows(d), c).cursor = c
<1>1. BlankRows(d) \in [RowsOf(d) -> Row]
  BY StateAssumption DEF BlankRows
<1>. QED BY <1>1, ViewIsView DEF View

(***************************************************************************)
(* The copy after it took over the emulator's size has that size.           *)
(***************************************************************************)
LEMMA AdaptedFacts ==
    ASSUME StateTypes
    PROVE  /\ IsView(Adapted(grid_state))
           /\ Adapted(grid_state).dim = emulator.dim
           /\ Adapted(grid_state).cursor = grid_state.cursor
           /\ ~Forced => Adapted(grid_state) = grid_state
<1>1. emulator.dim \in Dimensions /\ grid_state.cursor \in CursorState
  BY DEF StateTypes, IsView
<1>. QED BY <1>1, BlankIsView DEF Adapted, Forced, StateTypes

(***************************************************************************)
(* Copying rows keeps size and cursor and replaces exactly the rows that    *)
(* were gone through and are dirty or forced.                               *)
(***************************************************************************)
LEMMA CopyFacts ==
    ASSUME StateTypes, NEW done \in Nat, NEW g, g = CopyRows(Adapted(grid_state), done)
    PROVE  /\ IsView(g) /\ g.dim = emulator.dim
           /\ g.cursor = grid_state.cursor
           /\ \A y \in RowsOf(emulator.dim) :
                 g.rows[y] = IF y <= done /\ (Forced \/ y \in rowDirty)
                             THEN emulator.rows[y] ELSE Adapted(grid_state).rows[y]
<1> DEFINE a == Adapted(grid_state)
           r == [y \in RowsOf(emulator.dim) |->
                    IF y <= done /\ (Forced \/ y \in rowDirty) THEN emulator.rows[y] ELSE a.rows[y]]
<1>1. IsView(a) /\ a.dim = emulator.dim /\ a.cursor = grid_state.cursor
  BY AdaptedFacts
<1>2. r \in [RowsOf(emulator.dim) -> Row]
  BY <1>1 DEF IsView, StateTypes
<1>3. a = View(emulator.dim, a.rows, grid_state.cursor)
  BY <1>1 DEF IsView
<1>4. g = View(emulator.dim, r, grid_state.cursor)
  <2>1. g = [a EXCEPT !.rows = r]
    BY <1>1 DEF CopyRows
  <2> HIDE DEF a, r
  <2>. QED BY <2>1, <1>3 DEF View
<1>5. emulator.dim \in Dimensions /\ grid_state.cursor \in CursorState
  BY DEF StateTypes, IsView
<1>6. IsView(g)
  BY <1>2, <1>4, <1>5, ViewIsView
<1>7. g.dim = emulator.dim /\ g.rows = r /\ g.cursor = grid_state.cursor
  BY <1>4 DEF View
<1>. QED BY <1>6, <1>7

-----------------------------------------------------------------------------
(***************************************************************************)
(* The steps of ServerTerminalState.                                        *)
(***************************************************************************)

(***************************************************************************)
(* The copy is blank at first, but to be filled by force.                   *)
(***************************************************************************)
LEMMA StateInitInv == StateInit => StateInv
<1> SUFFICES ASSUME StateInit PROVE StateInv
  OBVIOUS
<1>1. PICK d \in Dimensions :
         /\ emulator = View(d, BlankRows(d), HomeCursor)
         /\ grid_state = View(d, BlankRows(d), HomeCursor)
         /\ rowDirty = {} /\ force_full = TRUE /\ unsent = FALSE /\ lastFrame = NoFrame
  BY DEF StateInit
<1>2. StateTypes
  BY <1>1, BlankIsView, StateAssumption DEF StateTypes
<1>. QED BY <1>1, <1>2 DEF StateInv, CleanRowsCurrent, LastFrameCurrent, Forced

(***************************************************************************)
(* Output marks the rows it changes, and all of them if the size changes.   *)
(***************************************************************************)
LEMMA OutputKeepsInv ==
    ASSUME StateInv, NEW next \in Views, OnPtyBytes(next)
    PROVE  StateInv'
<1>1. IsView(next)
  BY ViewFacts
<1>2. StateTypes'
  <2>1. rowDirty' \subseteq Nat
    BY <1>1, RowsAreNat DEF OnPtyBytes, VtWrite, StateInv, StateTypes, IsView
  <2>. QED BY <1>1, <2>1 DEF OnPtyBytes, VtWrite, StateInv, StateTypes, copyVars
<1>3. CleanRowsCurrent'
  <2> SUFFICES ASSUME ~Forced', NEW y \in RowsOf(emulator'.dim) \ rowDirty'
               PROVE  grid_state'.rows[y] = emulator'.rows[y]
    BY DEF CleanRowsCurrent
  <2>1. emulator' = next /\ grid_state' = grid_state /\ force_full' = force_full
    BY DEF OnPtyBytes, VtWrite, copyVars
  <2>2. next.dim = emulator.dim
    BY DEF OnPtyBytes, VtWrite
  <2>3. ~Forced /\ y \notin rowDirty /\ next.rows[y] = emulator.rows[y]
    BY <2>1, <2>2 DEF Forced, OnPtyBytes, VtWrite
  <2>. QED BY <2>1, <2>2, <2>3 DEF StateInv, CleanRowsCurrent
<1>4. LastFrameCurrent'
  BY DEF OnPtyBytes, LastFrameCurrent
<1>. QED BY <1>2, <1>3, <1>4 DEF StateInv

(***************************************************************************)
(* A resize that succeeds forces a full copy; one that fails changes        *)
(* nothing.                                                                 *)
(***************************************************************************)
LEMMA ResizeKeepsInv ==
    ASSUME StateInv, NEW next \in Views, OnResize(next)
    PROVE  StateInv'
<1>1. IsView(next)
  BY ViewFacts
<1>2. CASE emulator' = next /\ rowDirty' = {} /\ Resized(next.dim)
  <2>1. IsView(grid_state')
    BY <1>1, <1>2, BlankIsView DEF Resized, IsView, StateInv, StateTypes
  <2>2. StateTypes'
    BY <1>1, <1>2, <2>1 DEF StateTypes, Resized, OnResize
  <2>. QED BY <1>2, <2>2
           DEF StateInv, CleanRowsCurrent, LastFrameCurrent, Forced, Resized, OnResize
<1>3. CASE UNCHANGED <<emulator, rowDirty, copyVars>>
  BY <1>3 DEF OnResize, StateInv, StateTypes, CleanRowsCurrent, LastFrameCurrent, Forced,
              copyVars, IsView, RowsOf
<1>. QED BY <1>2, <1>3 DEF OnResize

(***************************************************************************)
(* An update that stops at some row has cleared only flags of rows it has   *)
(* copied; if a full copy was due, it still is.                             *)
(***************************************************************************)
LEMMA FailedUpdateKeepsInv ==
    ASSUME StateInv, NEW done \in 0..emulator.dim[2], NEW copied \in 0..emulator.dim[2],
           UpdateFails(done, copied)
    PROVE  StateInv'
<1> USE DEF StateInv
<1> DEFINE g == grid_state'
<1>0. emulator.dim[2] \in Nat
  BY RowsAreNat DEF StateTypes, IsView
<1>1. done \in Nat /\ copied \in Nat /\ done <= copied
  BY <1>0 DEF UpdateFails
<1>2. /\ IsView(g) /\ g.dim = emulator.dim
      /\ \A y \in RowsOf(emulator.dim) :
            g.rows[y] = IF y <= copied /\ (Forced \/ y \in rowDirty)
                        THEN emulator.rows[y] ELSE Adapted(grid_state).rows[y]
  BY <1>1, CopyFacts DEF UpdateFails
<1>3. StateTypes'
  BY <1>2 DEF StateTypes, UpdateFails, Forced
<1>4. CleanRowsCurrent'
  <2> SUFFICES ASSUME ~Forced', NEW y \in RowsOf(emulator.dim), y \notin rowDirty'
               PROVE  g.rows[y] = emulator.rows[y]
    BY DEF CleanRowsCurrent, UpdateFails
  <2>1. ~Forced
    BY DEF UpdateFails, Forced
  <2>2. Adapted(grid_state) = grid_state
    BY <2>1, AdaptedFacts
  <2>3. y \in Nat
    BY RowsAreNat DEF StateTypes, IsView
  <2>4. CASE y \in rowDirty
    <3>1. y <= done
      BY <1>0, <2>3, <2>4 DEF UpdateFails, CleanedRows, RowsOf
    <3>. QED BY <1>1, <1>2, <2>3, <2>4, <3>1
  <2>5. CASE y \notin rowDirty
    BY <1>2, <2>1, <2>2, <2>5 DEF CleanRowsCurrent
  <2>. QED BY <2>4, <2>5
<1>5. LastFrameCurrent'
  BY DEF UpdateFails, LastFrameCurrent
<1>. QED BY <1>3, <1>4, <1>5

(***************************************************************************)
(* After all rows were gone through, the copy has the emulator's rows.      *)
(***************************************************************************)
LEMMA FullCopy ==
    ASSUME StateInv, NEW g, g = CopyRows(Adapted(grid_state), emulator.dim[2])
    PROVE  g = View(emulator.dim, emulator.rows, grid_state.cursor)
<1> USE DEF StateInv
<1>0. emulator.dim[2] \in Nat
  BY RowsAreNat DEF StateTypes, IsView
<1>1. /\ IsView(g) /\ g.dim = emulator.dim /\ g.cursor = grid_state.cursor
      /\ \A y \in RowsOf(emulator.dim) :
            g.rows[y] = IF y <= emulator.dim[2] /\ (Forced \/ y \in rowDirty)
                        THEN emulator.rows[y] ELSE Adapted(grid_state).rows[y]
  BY <1>0, CopyFacts
<1>2. \A y \in RowsOf(emulator.dim) : g.rows[y] = emulator.rows[y]
  <2> TAKE y \in RowsOf(emulator.dim)
  <2>1. y <= emulator.dim[2]
    BY <1>0 DEF RowsOf
  <2>2. CASE Forced \/ y \in rowDirty
    BY <1>1, <2>1, <2>2
  <2>3. CASE ~Forced /\ y \notin rowDirty
    BY <1>1, <2>3, AdaptedFacts DEF CleanRowsCurrent
  <2>. QED BY <2>2, <2>3
<1>3. g.rows = emulator.rows
  BY <1>1, <1>2 DEF IsView, StateTypes
<1>. QED BY <1>1, <1>3 DEF IsView

(***************************************************************************)
(* An update that fails only at the end has copied all rows.                *)
(***************************************************************************)
LEMMA LateFailureKeepsInv == ASSUME StateInv, UpdateFailsLast PROVE StateInv'
<1>1. grid_state' = View(emulator.dim, emulator.rows, grid_state.cursor)
  BY FullCopy DEF UpdateFailsLast
<1>2. IsView(grid_state')
  BY <1>1, ViewIsView DEF StateInv, StateTypes, IsView
<1>3. grid_state'.dim = emulator.dim /\ grid_state'.rows = emulator.rows
  BY <1>1 DEF View
<1>. QED BY <1>2, <1>3 DEF UpdateFailsLast, StateInv, StateTypes, CleanRowsCurrent, LastFrameCurrent

(***************************************************************************)
(* An update that succeeds leaves exactly the emulator's screen behind.     *)
(***************************************************************************)
LEMMA SyncKeepsInv ==
    ASSUME StateInv, NEW ackUpdated \in BOOLEAN, UpdateAndSync(ackUpdated)
    PROVE  StateInv'
<1>1. grid_state' = emulator
  <2>1. CopyRows(Adapted(grid_state), emulator.dim[2])
            = View(emulator.dim, emulator.rows, grid_state.cursor)
    BY FullCopy
  <2>2. grid_state' = View(emulator.dim, emulator.rows, emulator.cursor)
    BY <2>1 DEF UpdateAndSync, View
  <2>. QED BY <2>2 DEF StateInv, StateTypes, IsView
<1>. QED BY <1>1 DEF UpdateAndSync, StateInv, StateTypes, CleanRowsCurrent, LastFrameCurrent

(***************************************************************************)
(* Forgetting the history touches no screen.                                *)
(***************************************************************************)
LEMMA ForgetKeepsInv == ASSUME StateInv, Forget PROVE StateInv'
BY DEF Forget, StateInv, StateTypes, CleanRowsCurrent, LastFrameCurrent, Forced, copyVars,
       IsView, RowsOf

-----------------------------------------------------------------------------
(***************************************************************************)
(* The terminal's output.  The invariant is made inductive by saying when   *)
(* the reader thread ends and when the shutdown is announced.               *)
(***************************************************************************)
PtyInv ==
    /\ ttyOut \in Seq(Chunks) /\ pty_rx \in Seq(Chunks) /\ applied \in Seq(Chunks)
    /\ applied \o pty_rx \o ttyOut = written
    /\ ~readerUp => app = "gone" /\ ttyOut = <<>>
    /\ stopped => ~readerUp /\ pty_rx = <<>>

(***************************************************************************)
(* The first of one sequence may be moved to the end of the one before it.  *)
(***************************************************************************)
LEMMA MoveHead ==
    ASSUME NEW S, NEW a \in Seq(S), NEW b \in Seq(S), b # <<>>
    PROVE  /\ Append(a, Head(b)) \o Tail(b) = a \o b
           /\ Append(a, Head(b)) \in Seq(S) /\ Tail(b) \in Seq(S)
<1>1. Append(a, Head(b)) \in Seq(S) /\ Tail(b) \in Seq(S) /\ Len(b) > 0
  BY EmptySeq, HeadTailProperties
<1>. QED BY <1>1

(***************************************************************************)
(* A chunk appended to the last of three sequences is appended to all.      *)
(***************************************************************************)
LEMMA AppendToConcat ==
    \A a, b \in Seq(Chunks), c \in Chunks :
        a \o Append(b, c) = Append(a \o b, c) /\ Append(b, c) \in Seq(Chunks)
OBVIOUS

(***************************************************************************)
(* Concatenation is associative.                                            *)
(***************************************************************************)
LEMMA Reassociate == \A a, b, c \in Seq(Chunks) : (a \o b) \o c = a \o (b \o c)
OBVIOUS

(***************************************************************************)
(* A step of the programs, of the reader thread or of the event loop keeps  *)
(* the output in order.                                                     *)
(***************************************************************************)
LEMMA PtyStepKeepsInv ==
    ASSUME PtyInv, Beside \/ BeginWrite \/ EndWrite \/ Disconnected \/ TakeChunk
    PROVE  PtyInv'
<1> USE DEF PtyInv
<1>1. CASE AppRead
  BY <1>1 DEF AppRead
<1>2. ASSUME NEW c \in Chunks, AppWrite(c) PROVE PtyInv'
  <2> DEFINE before == applied \o pty_rx
  <2>1. before \in Seq(Chunks)
    BY ConcatProperties
  <2>2. before \o Append(ttyOut, c) = Append(before \o ttyOut, c) /\ Append(ttyOut, c) \in Seq(Chunks)
    <3> HIDE DEF before
    <3>. QED BY <2>1, <1>2, AppendToConcat, Zenon
  <2>. QED BY <1>2, <2>2 DEF AppWrite
<1>3. CASE AppSilent
  BY <1>3 DEF AppSilent
<1>4. CASE AppExit
  BY <1>4 DEF AppExit
<1>5. CASE ReaderRead
  <2> DEFINE moved == Append(pty_rx, Head(ttyOut))
             rest == Tail(ttyOut)
  <2>1. moved \o rest = pty_rx \o ttyOut /\ moved \in Seq(Chunks) /\ rest \in Seq(Chunks)
    BY <1>5, MoveHead DEF ReaderRead
  <2>2. applied \o moved \o rest = applied \o pty_rx \o ttyOut
    <3> HIDE DEF moved, rest
    <3>1. (applied \o moved) \o rest = applied \o (moved \o rest)
      BY <2>1, Reassociate, Zenon
    <3>2. (applied \o pty_rx) \o ttyOut = applied \o (pty_rx \o ttyOut)
      BY Reassociate, Zenon
    <3>. QED BY <2>1, <3>1, <3>2, Zenon
  <2>. QED BY <1>5, <2>1, <2>2 DEF ReaderRead, ReaderRuns
<1>6. CASE ReaderEnd
  BY <1>6 DEF ReaderEnd, AtEnd, ttyVars
<1>7. CASE BeginWrite
  BY <1>7 DEF BeginWrite, ttyVars
<1>8. CASE EndWrite
  BY <1>8 DEF EndWrite
<1>9. CASE Disconnected
  BY <1>9 DEF Disconnected, Closed, ttyVars
<1>10. CASE TakeChunk
  <2>1. /\ Append(applied, Head(pty_rx)) \o Tail(pty_rx) = applied \o pty_rx
        /\ Append(applied, Head(pty_rx)) \in Seq(Chunks) /\ Tail(pty_rx) \in Seq(Chunks)
    BY <1>10, MoveHead DEF TakeChunk
  <2>. QED BY <1>10, <2>1 DEF TakeChunk, ttyVars
<1>. QED BY <1>1, <1>2, <1>3, <1>4, <1>5, <1>6, <1>7, <1>8, <1>9, <1>10 DEF Beside

-----------------------------------------------------------------------------
(***************************************************************************)
(* The composition: every step keeps both invariants.                       *)
(***************************************************************************)
LEMMA ScreenInvHolds == ScreenSpec => [](StateInv /\ PtyInv)
<1>1. ScreenInit => StateInv /\ PtyInv
  <2>1. PtyInit => PtyInv
    BY DEF PtyInit, PtyInv
  <2>. QED BY <2>1, StateInitInv DEF ScreenInit
<1>2. StateInv /\ PtyInv /\ [ScreenNext]_vars => (StateInv /\ PtyInv)'
  <2> SUFFICES ASSUME StateInv, PtyInv, [ScreenNext]_vars PROVE StateInv' /\ PtyInv'
    OBVIOUS
  <2> DEFINE Ptys == Beside \/ BeginWrite \/ EndWrite \/ Disconnected
  <2>1. UNCHANGED stateVars => StateInv'
    BY DEF stateVars, copyVars, StateInv, StateTypes, CleanRowsCurrent, LastFrameCurrent,
           Forced, IsView, RowsOf
  <2>2. UNCHANGED ptyVars => PtyInv'
    BY DEF ptyVars, ttyVars, PtyInv
  <2>3. CASE Ptys /\ UNCHANGED stateVars
    BY <2>1, <2>3, PtyStepKeepsInv
  <2>4. CASE Chunk
    BY <2>4, OutputKeepsInv, PtyStepKeepsInv DEF Chunk
  <2>5. CASE Sync /\ UNCHANGED ptyVars
    BY <2>2, <2>5, SyncKeepsInv, FailedUpdateKeepsInv, LateFailureKeepsInv DEF Sync
  <2>6. CASE Packet /\ UNCHANGED ptyVars
    BY <2>2, <2>6, ResizeKeepsInv, ForgetKeepsInv DEF Packet
  <2>7. CASE UNCHANGED vars
    BY <2>1, <2>2, <2>7 DEF vars
  <2>. QED BY <2>3, <2>4, <2>5, <2>6, <2>7 DEF ScreenNext
<1>. QED BY <1>1, <1>2, PTL DEF ScreenSpec

(***************************************************************************)
(* Rows that update_and_get_state would skip already show what the emulator *)
(* shows, wherever earlier updates stopped and whatever was resized.        *)
(***************************************************************************)
THEOREM SkippedRowsCurrent == ScreenSpec => []CleanRowsCurrent
<1>1. StateInv => CleanRowsCurrent
  BY DEF StateInv
<1>. QED BY <1>1, ScreenInvHolds, PTL

(***************************************************************************)
(* When check_sync has nothing unsent, the last frame it recorded is the    *)
(* emulator's screen.                                                       *)
(***************************************************************************)
THEOREM NothingUnsent == ScreenSpec => []LastFrameCurrent
<1>1. StateInv => LastFrameCurrent
  BY DEF StateInv
<1>. QED BY <1>1, ScreenInvHolds, PTL

(***************************************************************************)
(* The terminal's output reaches the emulator in order, and all of it       *)
(* before the shutdown is announced.                                        *)
(***************************************************************************)
THEOREM OutputDelivered == ScreenSpec => []OutputInOrder
<1>1. PtyInv => OutputInOrder
  <2> SUFFICES ASSUME PtyInv PROVE OutputInOrder
    OBVIOUS
  <2>1. stopped => applied \o <<>> \o <<>> = written
    BY DEF PtyInv
  <2>2. applied \o <<>> \o <<>> = applied
    BY ConcatEmptySeq DEF PtyInv
  <2>. QED BY <2>1, <2>2 DEF PtyInv, OutputInOrder
<1>. QED BY <1>1, ScreenInvHolds, PTL

=============================================================================

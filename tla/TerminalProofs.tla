--------------------------- MODULE TerminalProofs ---------------------------
(***************************************************************************)
(* Proofs about what the user sees, for every value of the constants of     *)
(* Terminal: screens of every size, any input, any number of frames.        *)
(***************************************************************************)
EXTENDS Terminal, SequenceTheorems, WellFoundedInduction, TLAPS

(***************************************************************************)
(* Induction over the naturals, for a set instead of a predicate.           *)
(***************************************************************************)
LEMMA SetInduction ==
    ASSUME NEW S, 0 \in S, \A n \in Nat : n \in S => n + 1 \in S
    PROVE  \A n \in Nat : n \in S
<1> DEFINE T == {n \in Nat : n \notin S}
           R == {ss \in Nat \X Nat : ss[1] < ss[2]}
<1> SUFFICES ASSUME T # {} PROVE FALSE
  OBVIOUS
<1>1. IsWellFoundedOn(R, Nat)
  BY NatLessThanWellFounded, Zenon DEF OpToRel
<1>2. T \subseteq Nat
  OBVIOUS
<1> HIDE DEF T, R
<1>3. PICK x \in T : \A y \in T : ~(<<y, x>> \in R)
  BY <1>1, <1>2, WFMin, Zenon
<1>4. x \in Nat /\ x \notin S /\ x # 0
  BY <1>3 DEF T
<1>5. x - 1 \in Nat /\ (x - 1) + 1 = x /\ x - 1 < x
  BY <1>4
<1>6. x - 1 \notin S
  BY <1>4, <1>5
<1>7. x - 1 \in T
  BY <1>5, <1>6 DEF T
<1>8. <<x - 1, x>> \in R
  BY <1>4, <1>5 DEF R
<1> QED BY <1>3, <1>7, <1>8

(***************************************************************************)
(* The functions that FoldLeft and FoldRight are defined with exist, for    *)
(* steps (a function G of value and index) that stay in a set V.            *)
(***************************************************************************)
LEMMA MaxLast ==
    ASSUME NEW n \in Nat, NEW s \in SUBSET (1..(n + 1)), n + 1 \in s
    PROVE  Max(s) = n + 1
<1>1. \A y \in s : y \in Int /\ n + 1 >= y
  OBVIOUS
<1>2. \A x \in s : (\A y \in s : x >= y) => x = n + 1
  BY <1>1
<1> QED BY <1>1, <1>2 DEF Max

LEMMA MinFirst ==
    ASSUME NEW m \in Nat, NEW n \in Nat, NEW s \in SUBSET (m..n), m \in s
    PROVE  Min(s) = m
<1>1. \A y \in s : y \in Int /\ m <= y
  OBVIOUS
<1>2. \A x \in s : (\A y \in s : x <= y) => x = m
  BY <1>1
<1> QED BY <1>1, <1>2 DEF Min

LEMMA UpToK ==
    ASSUME NEW n \in Nat, NEW k \in 1..n
    PROVE  /\ Max(1..k) = k
           /\ (1..k) \ {k} = 1..(k - 1)
           /\ 1..k \in SUBSET (1..n)
           /\ 1..k # {}
<1>1. k - 1 \in Nat /\ (k - 1) + 1 = k /\ k \in 1..k
  OBVIOUS
<1>2. Max(1..k) = k
  BY <1>1, MaxLast
<1>3. (1..k) \ {k} = 1..(k - 1)
  <2>1. \A i : i \in (1..k) \ {k} <=> i \in 1..(k - 1)
    OBVIOUS
  <2> QED BY <2>1, Zenon
<1>4. 1..k \in SUBSET (1..n) /\ 1..k # {}
  BY <1>1
<1> QED BY <1>2, <1>3, <1>4, Zenon

LEMMA FromK ==
    ASSUME NEW n \in Nat, NEW k \in 1..n
    PROVE  /\ Min(k..n) = k
           /\ (k..n) \ {k} = (k + 1)..n
           /\ k..n \in SUBSET (1..n)
           /\ k..n # {}
<1>1. k \in Nat /\ k \in k..n
  OBVIOUS
<1>2. Min(k..n) = k
  BY <1>1, MinFirst
<1>3. (k..n) \ {k} = (k + 1)..n
  <2>1. \A i : i \in (k..n) \ {k} <=> i \in (k + 1)..n
    OBVIOUS
  <2> QED BY <2>1, Zenon
<1>4. k..n \in SUBSET (1..n) /\ k..n # {}
  BY <1>1
<1> QED BY <1>2, <1>3, <1>4, Zenon

LEMMA MaxIn ==
    ASSUME NEW n \in Nat, NEW s \in SUBSET (1..n), s # {}
    PROVE  Max(s) \in s
<1> DEFINE S == {k \in Nat : \A t \in SUBSET (1..k) : t # {} => Max(t) \in t}
<1>1. 0 \in S
  <2>1. 1..0 = {}
    OBVIOUS
  <2> QED BY <2>1
<1>2. ASSUME NEW k \in Nat, k \in S PROVE k + 1 \in S
  <2> SUFFICES ASSUME NEW t \in SUBSET (1..(k + 1)), t # {} PROVE Max(t) \in t
    OBVIOUS
  <2>1. CASE k + 1 \in t
    BY <2>1, MaxLast
  <2>2. CASE k + 1 \notin t
    <3>1. t \in SUBSET (1..k)
      BY <2>2
    <3> QED BY <1>2, <3>1
  <2> QED BY <2>1, <2>2
<1>3. \A k \in Nat : k \in S => k + 1 \in S
  BY <1>2
<1> HIDE DEF S
<1>4. n \in S
  BY <1>1, <1>3, SetInduction
<1> QED BY <1>4 DEF S

LEMMA MinIn ==
    ASSUME NEW s \in SUBSET Nat, s # {}
    PROVE  Min(s) \in s /\ \A y \in s : Min(s) <= y
<1> DEFINE R == {ss \in Nat \X Nat : ss[1] < ss[2]}
<1>1. IsWellFoundedOn(R, Nat)
  BY NatLessThanWellFounded, Zenon DEF OpToRel
<1> HIDE DEF R
<1>2. PICK x \in s : \A y \in s : ~(<<y, x>> \in R)
  BY <1>1, WFMin, Zenon
<1>3. \A y \in s : ~(y < x)
  BY <1>2 DEF R
<1>4. \A y \in s : x <= y
  BY <1>3
<1> QED BY <1>4 DEF Min

LeftFold(f, D, v0, G) ==
    \A s \in SUBSET D : f[s] = IF s = {} THEN v0 ELSE G[<<f[s \ {Max(s)}], Max(s)>>]

LEMMA FoldLeftExists ==
    ASSUME NEW n \in Nat, NEW V, NEW v0 \in V, NEW G \in [V \X (1..n) -> V]
    PROVE  \E f \in [SUBSET (1..n) -> V] : LeftFold(f, 1..n, v0, G)
<1> DEFINE Ok(k) == \E f \in [SUBSET (1..k) -> V] : LeftFold(f, 1..k, v0, G)
           S == {k \in Nat : k <= n => Ok(k)}
<1>1. Ok(0)
  <2> DEFINE f == [s \in SUBSET (1..0) |-> v0]
  <2>1. 1..0 = {}
    OBVIOUS
  <2>2. \A s \in SUBSET (1..0) : s = {} /\ f[s] = v0
    BY <2>1
  <2>3. f \in [SUBSET (1..0) -> V]
    OBVIOUS
  <2> HIDE DEF f
  <2> QED BY <2>2, <2>3 DEF LeftFold
<1>2. ASSUME NEW k \in Nat, Ok(k), k + 1 <= n PROVE Ok(k + 1)
  <2>1. PICK f \in [SUBSET (1..k) -> V] : LeftFold(f, 1..k, v0, G)
    BY <1>2
  <2> DEFINE D == 1..(k + 1)
             h == [s \in SUBSET D |->
                     IF k + 1 \in s THEN G[<<f[s \ {k + 1}], k + 1>>] ELSE f[s]]
  <2>2. k + 1 \in 1..n
    BY <1>2
  <2>3. \A s \in SUBSET D :
           /\ s \ {k + 1} \in SUBSET (1..k)
           /\ k + 1 \notin s => s \in SUBSET (1..k)
    OBVIOUS
  <2>4. \A s \in SUBSET D : f[s \ {k + 1}] \in V /\ (k + 1 \notin s => f[s] \in V)
    BY <2>3
  <2>5. \A v \in V : G[<<v, k + 1>>] \in V
    BY <2>2
  <2> HIDE DEF D
  <2>6. \A s \in SUBSET D : h[s] \in V
    BY <2>4, <2>5
  <2>7. h \in [SUBSET D -> V]
    BY <2>6
  <2>8. \A s \in SUBSET D : /\ k + 1 \in s => h[s] = G[<<f[s \ {k + 1}], k + 1>>]
                            /\ k + 1 \notin s => h[s] = f[s]
    OBVIOUS
  <2> HIDE DEF h
  <2>9. ASSUME NEW s \in SUBSET D
        PROVE  h[s] = IF s = {} THEN v0 ELSE G[<<h[s \ {Max(s)}], Max(s)>>]
    <3>1. CASE k + 1 \in s
      <4>1. Max(s) = k + 1
        BY <3>1, MaxLast DEF D
      <4>2. h[s \ {k + 1}] = f[s \ {k + 1}]
        BY <2>8
      <4> QED BY <2>8, <3>1, <4>1, <4>2
    <3>2. CASE k + 1 \notin s
      <4>1. s \in SUBSET (1..k) /\ h[s] = f[s] /\ h[s \ {Max(s)}] = f[s \ {Max(s)}]
        BY <2>3, <2>8, <3>2
      <4> QED BY <2>1, <4>1 DEF LeftFold
    <3> QED BY <3>1, <3>2
  <2> QED BY <2>7, <2>9 DEF LeftFold, D
<1> HIDE DEF Ok
<1>3. 0 \in S
  BY <1>1
<1>4. \A k \in Nat : k \in S => k + 1 \in S
  BY <1>2
<1> HIDE DEF S
<1>5. n \in S
  BY <1>3, <1>4, SetInduction
<1>6. Ok(n)
  BY <1>5 DEF S
<1> QED BY <1>6 DEF Ok

RightFold(f, D, v0, G) ==
    \A s \in SUBSET D : f[s] = IF s = {} THEN v0 ELSE G[<<Min(s), f[s \ {Min(s)}]>>]

LEMMA FoldRightExists ==
    ASSUME NEW n \in Nat, NEW V, NEW v0 \in V, NEW G \in [(1..n) \X V -> V]
    PROVE  \E f \in [SUBSET (1..n) -> V] : RightFold(f, 1..n, v0, G)
<1> DEFINE From(k) == (n - k + 1)..n
           Ok(k) == \E f \in [SUBSET From(k) -> V] : RightFold(f, From(k), v0, G)
           S == {k \in Nat : k <= n => Ok(k)}
<1>1. Ok(0)
  <2> DEFINE f == [s \in SUBSET From(0) |-> v0]
  <2>1. From(0) = {}
    OBVIOUS
  <2>2. \A s \in SUBSET From(0) : s = {} /\ f[s] = v0
    BY <2>1
  <2>3. f \in [SUBSET From(0) -> V]
    OBVIOUS
  <2> HIDE DEF f
  <2> QED BY <2>2, <2>3 DEF RightFold
<1>2. ASSUME NEW k \in Nat, Ok(k), k + 1 <= n PROVE Ok(k + 1)
  <2>1. PICK f \in [SUBSET From(k) -> V] : RightFold(f, From(k), v0, G)
    BY <1>2
  <2> DEFINE D == From(k + 1)
             m == n - k
             h == [s \in SUBSET D |-> IF m \in s THEN G[<<m, f[s \ {m}]>>] ELSE f[s]]
  <2>2. m \in 1..n /\ m \in Nat /\ D = m..n /\ From(k) = (m + 1)..n
    BY <1>2
  <2> HIDE DEF D, m, From
  <2>3. \A s \in SUBSET D : /\ s \ {m} \in SUBSET From(k)
                            /\ m \notin s => s \in SUBSET From(k)
    BY <2>2
  <2>4. \A s \in SUBSET D : f[s \ {m}] \in V /\ (m \notin s => f[s] \in V)
    BY <2>3
  <2>5. \A v \in V : G[<<m, v>>] \in V
    BY <2>2
  <2>6. \A s \in SUBSET D : h[s] \in V
    BY <2>4, <2>5
  <2>7. h \in [SUBSET D -> V]
    BY <2>6
  <2>8. \A s \in SUBSET D : /\ m \in s => h[s] = G[<<m, f[s \ {m}]>>]
                            /\ m \notin s => h[s] = f[s]
    OBVIOUS
  <2> HIDE DEF h
  <2>9. ASSUME NEW s \in SUBSET D
        PROVE  h[s] = IF s = {} THEN v0 ELSE G[<<Min(s), h[s \ {Min(s)}]>>]
    <3>1. CASE m \in s
      <4>1. Min(s) = m
        BY <2>2, <3>1, MinFirst
      <4>2. h[s \ {m}] = f[s \ {m}]
        BY <2>8
      <4> QED BY <2>8, <3>1, <4>1, <4>2
    <3>2. CASE m \notin s
      <4>1. s \in SUBSET From(k) /\ h[s] = f[s] /\ h[s \ {Min(s)}] = f[s \ {Min(s)}]
        BY <2>3, <2>8, <3>2
      <4> QED BY <2>1, <4>1 DEF RightFold
    <3> QED BY <3>1, <3>2
  <2> QED BY <2>7, <2>9 DEF RightFold, D
<1> HIDE DEF Ok
<1>3. 0 \in S
  BY <1>1
<1>4. \A k \in Nat : k \in S => k + 1 \in S
  BY <1>2
<1> HIDE DEF S
<1>5. n \in S
  BY <1>3, <1>4, SetInduction
<1>6. Ok(n)
  BY <1>5 DEF S
<1>7. From(n) = 1..n
  OBVIOUS
<1> HIDE DEF From
<1> QED BY <1>6, <1>7 DEF Ok

-----------------------------------------------------------------------------
(***************************************************************************)
(* Types of the echo engine, for a copy of c columns and r rows.            *)
(***************************************************************************)
FramesOf(c, r) ==
    [cols : {c}, rows : {r}, cells : [Pos(c, r) -> Cell], cursor : Nat \X Nat]

OldCells(c, r) == UNION {[D -> Cell] : D \in SUBSET Pos(c, r)}

EntriesOf(c, r) ==
    [seq : Nat, bytes : Buffers, cursor : Nat \X Nat, old : OldCells(c, r)]

EchoesOf(c, r) == [frame : FramesOf(c, r), queue : Seq(EntriesOf(c, r))]

\* Frame and remembered cells while a buffer is applied.
PartsOf(c, r) == [frame : FramesOf(c, r), old : OldCells(c, r)]

LEMMA FrameWith ==
    ASSUME NEW c, NEW r, NEW f \in FramesOf(c, r), NEW p \in Pos(c, r), NEW b \in Cell,
           NEW cur \in Nat \X Nat
    PROVE  /\ [f EXCEPT !.cells[p] = b, !.cursor = cur] \in FramesOf(c, r)
           /\ [f EXCEPT !.cells[p] = b, !.cursor = cur].cells = [f.cells EXCEPT ![p] = b]
BY DEF FramesOf

LEMMA SameFrame ==
    ASSUME NEW c, NEW r, NEW f \in FramesOf(c, r), NEW g \in FramesOf(c, r),
           f.cells = g.cells, f.cursor = g.cursor
    PROVE  f = g
BY DEF FramesOf

\* apply_keystrokes stays inside the screen.
LEMMA ApplyByteType ==
    ASSUME NEW c \in Nat, NEW r \in Nat, NEW acc \in PartsOf(c, r), NEW b
    PROVE  ApplyByte(acc, b) \in PartsOf(c, r)
<1> DEFINE f == acc.frame
           x == f.cursor[1]
           y == f.cursor[2]
           below == IF y + 1 < f.rows THEN y + 1 ELSE f.rows - 1
           p == <<y, x>>
<1>1. /\ f.cols = c /\ f.rows = r /\ x \in Nat /\ y \in Nat
      /\ f.cells \in [Pos(c, r) -> Cell] /\ f \in FramesOf(c, r)
  BY DEF PartsOf, FramesOf
<1>2. CASE b \in Printable /\ x < f.cols /\ y < f.rows
  <2>1. p \in Pos(c, r) /\ b \in Cell /\ below \in Nat
    BY <1>1, <1>2, TerminalAssumption DEF Pos
  <2>2. [f EXCEPT !.cells[p] = b,
                  !.cursor = IF x + 1 < f.cols THEN <<x + 1, y>> ELSE <<0, below>>]
          \in FramesOf(c, r)
    <3>1. (IF x + 1 < f.cols THEN <<x + 1, y>> ELSE <<0, below>>) \in Nat \X Nat
      BY <1>1, <2>1
    <3> HIDE DEF f, p, x, y, below
    <3> QED BY <1>1, <2>1, <3>1, FrameWith
  <2>3. Remember(acc.old, p, f.cells[p]) \in OldCells(c, r)
    <3>1. PICK D \in SUBSET Pos(c, r) : acc.old \in [D -> Cell]
      BY DEF PartsOf, OldCells
    <3>2. Remember(acc.old, p, f.cells[p]) \in [D \cup {p} -> Cell]
      BY <1>1, <2>1, <3>1 DEF Remember
    <3>3. D \cup {p} \in SUBSET Pos(c, r)
      BY <2>1
    <3> QED BY <3>2, <3>3 DEF OldCells
  <2> QED BY <1>2, <2>2, <2>3 DEF ApplyByte, PartsOf
<1>3. CASE ~(b \in Printable /\ x < f.cols /\ y < f.rows)
  BY <1>3 DEF ApplyByte
<1> QED BY <1>2, <1>3

(***************************************************************************)
(* The fold of apply_keystrokes as a run: the values after each byte.       *)
(***************************************************************************)
BytesApplied(start, bytes) == FoldLeft(ApplyByte, start, bytes)

ByteRun(run, c, r, start, bytes, n) ==
    /\ run \in [0..n -> PartsOf(c, r)]
    /\ run[0] = start /\ run[n] = BytesApplied(start, bytes)
    /\ \A k \in 1..n : run[k] = ApplyByte(run[k - 1], bytes[k])

LEMMA ApplyRun ==
    ASSUME NEW c \in Nat, NEW r \in Nat, NEW start \in PartsOf(c, r),
           NEW bytes, NEW n \in Nat, DOMAIN bytes = 1..n
    PROVE  \E run : ByteRun(run, c, r, start, bytes, n)
<1> DEFINE V == PartsOf(c, r)
           G == [vi \in V \X (1..n) |-> ApplyByte(vi[1], bytes[vi[2]])]
           Def(it) == it = [s \in SUBSET DOMAIN bytes |->
                             IF s = {} THEN start
                             ELSE ApplyByte(it[s \ {Max(s)}], bytes[Max(s)])]
           iter == CHOOSE it : Def(it)
<1>1. G \in [V \X (1..n) -> V]
  BY ApplyByteType
<1> HIDE DEF V
<1>2. start \in V
  BY DEF V
<1>3. PICK f \in [SUBSET (1..n) -> V] : LeftFold(f, 1..n, start, G)
  BY <1>1, <1>2, FoldLeftExists
<1>4. Def(f)
  <2>1. ASSUME NEW s \in SUBSET (1..n)
        PROVE  f[s] = IF s = {} THEN start ELSE ApplyByte(f[s \ {Max(s)}], bytes[Max(s)])
    <3>1. CASE s = {}
      BY <1>3, <3>1 DEF LeftFold
    <3>2. CASE s # {}
      <4>1. Max(s) \in 1..n /\ s \ {Max(s)} \in SUBSET (1..n)
        BY <3>2, MaxIn
      <4>2. G[<<f[s \ {Max(s)}], Max(s)>>] = ApplyByte(f[s \ {Max(s)}], bytes[Max(s)])
        BY <4>1
      <4> QED BY <1>3, <3>2, <4>2 DEF LeftFold
    <3> QED BY <3>1, <3>2
  <2> QED BY <2>1
<1>5. Def(iter)
  <2> HIDE DEF Def
  <2> QED BY <1>4
<1>6. /\ iter[{}] = start
      /\ \A s \in SUBSET (1..n) : s # {} =>
            iter[s] = ApplyByte(iter[s \ {Max(s)}], bytes[Max(s)])
  <2> HIDE DEF iter
  <2> QED BY <1>5
<1>7. BytesApplied(start, bytes) = iter[1..n]
  BY DEF BytesApplied, FoldLeft, MapThenFoldSet
<1> HIDE DEF iter
<1>8. \A k \in 1..n : iter[1..k] = ApplyByte(iter[1..(k - 1)], bytes[k])
  <2> TAKE k \in 1..n
  <2>1. /\ Max(1..k) = k
        /\ (1..k) \ {k} = 1..(k - 1)
        /\ 1..k \in SUBSET (1..n)
        /\ 1..k # {}
    BY UpToK, Zenon
  <2> QED BY <1>6, <2>1
<1> DEFINE run == [k \in 0..n |-> iter[1..k]]
           S == {k \in Nat : k <= n => iter[1..k] \in PartsOf(c, r)}
<1>9. iter[1..0] = start
  BY <1>6
<1>10. 0 \in S
  BY <1>9
<1>11. ASSUME NEW k \in Nat, k \in S PROVE k + 1 \in S
  <2>1. CASE k + 1 <= n
    <3>1. k + 1 \in 1..n /\ (k + 1) - 1 = k /\ k <= n
      BY <2>1
    <3>2. iter[1..(k + 1)] = ApplyByte(iter[1..k], bytes[k + 1])
      BY <1>8, <3>1
    <3>3. iter[1..k] \in PartsOf(c, r)
      BY <1>11, <3>1
    <3>4. iter[1..(k + 1)] \in PartsOf(c, r)
      BY <3>2, <3>3, ApplyByteType
    <3> QED BY <3>4
  <2> QED BY <2>1
<1> HIDE DEF S
<1>12. \A k \in Nat : k \in S
  BY <1>10, <1>11, SetInduction
<1>13. run \in [0..n -> PartsOf(c, r)]
  BY <1>12 DEF S
<1>14. run[0] = start /\ run[n] = iter[1..n]
  BY <1>9
<1>15. \A k \in 1..n : run[k] = ApplyByte(run[k - 1], bytes[k])
  BY <1>8
<1> HIDE DEF run
<1> QED BY <1>7, <1>13, <1>14, <1>15 DEF ByteRun

(***************************************************************************)
(* What was remembered undoes what was applied: after any number of bytes,  *)
(* the remembered cells are those of the frame before the first byte, and   *)
(* every other cell is as it was.                                           *)
(***************************************************************************)
Undoable(f0, acc) ==
    \A p \in DOMAIN f0.cells :
        IF p \in DOMAIN acc.old THEN acc.old[p] = f0.cells[p]
                                ELSE acc.frame.cells[p] = f0.cells[p]

LEMMA ApplyByteUndoable ==
    ASSUME NEW c \in Nat, NEW r \in Nat, NEW f0 \in FramesOf(c, r),
           NEW acc \in PartsOf(c, r), Undoable(f0, acc), NEW b
    PROVE  Undoable(f0, ApplyByte(acc, b))
<1> DEFINE f == acc.frame
           x == f.cursor[1]
           y == f.cursor[2]
           below == IF y + 1 < f.rows THEN y + 1 ELSE f.rows - 1
           p == <<y, x>>
           cur == IF x + 1 < f.cols THEN <<x + 1, y>> ELSE <<0, below>>
           new == [f EXCEPT !.cells[p] = b, !.cursor = cur]
<1>1. /\ f.cols = c /\ f.rows = r /\ x \in Nat /\ y \in Nat
      /\ f.cells \in [Pos(c, r) -> Cell] /\ f \in FramesOf(c, r)
      /\ f0.cells \in [Pos(c, r) -> Cell]
  BY DEF PartsOf, FramesOf
<1>2. CASE b \in Printable /\ x < f.cols /\ y < f.rows
  <2>1. p \in Pos(c, r) /\ b \in Cell /\ cur \in Nat \X Nat
    <3>1. b \in Cell
      BY <1>2, TerminalAssumption
    <3>2. /\ x \in Nat /\ y \in Nat /\ f.cols = c /\ f.rows = r /\ x < c /\ y < r
      BY <1>1, <1>2
    <3> HIDE DEF x, y, f
    <3>3. y \in 0..(r - 1) /\ x \in 0..(c - 1)
      BY <3>2
    <3>4. p \in Pos(c, r)
      BY <3>3 DEF Pos
    <3>5. below \in Nat
      BY <3>2
    <3>6. x + 1 \in Nat
      BY <3>2
    <3>7. cur \in Nat \X Nat
      <4> HIDE DEF below
      <4> QED BY <3>2, <3>5, <3>6
    <3> QED BY <3>1, <3>4, <3>7
  <2>2. /\ ApplyByte(acc, b).frame = new
        /\ ApplyByte(acc, b).old = Remember(acc.old, p, f.cells[p])
    BY <1>2 DEF ApplyByte
  <2>3. new.cells = [f.cells EXCEPT ![p] = b]
    <3> HIDE DEF f, p, x, y, below, cur
    <3> QED BY <1>1, <2>1 DEF FramesOf
  <2> HIDE DEF new, p
  <2>4. \A q \in DOMAIN f0.cells : q # p => new.cells[q] = f.cells[q]
    BY <1>1, <2>3
  <2> QED BY <1>1, <2>2, <2>4 DEF Undoable, Remember
<1>3. CASE ~(b \in Printable /\ x < f.cols /\ y < f.rows)
  BY <1>3 DEF ApplyByte
<1> QED BY <1>2, <1>3

LEMMA UndoEntryType ==
    ASSUME NEW c \in Nat, NEW r \in Nat, NEW e \in EntriesOf(c, r), NEW f \in FramesOf(c, r)
    PROVE  /\ UndoEntry(e, f) \in FramesOf(c, r) /\ UndoEntry(e, f).cursor = e.cursor
           /\ UndoEntry(e, f).cells = [p \in Pos(c, r) |->
                  IF p \in DOMAIN e.old THEN e.old[p] ELSE f.cells[p]]
<1> DEFINE cs == [p \in Pos(c, r) |-> IF p \in DOMAIN e.old THEN e.old[p] ELSE f.cells[p]]
<1>1. PICK D \in SUBSET Pos(c, r) : e.old \in [D -> Cell]
  BY DEF EntriesOf, OldCells
<1>2. DOMAIN f.cells = Pos(c, r) /\ f.cells \in [Pos(c, r) -> Cell] /\ e.cursor \in Nat \X Nat
  BY DEF FramesOf, EntriesOf
<1>3. cs \in [Pos(c, r) -> Cell]
  BY <1>1, <1>2
<1>4. UndoEntry(e, f) = [f EXCEPT !.cursor = e.cursor, !.cells = cs]
  BY <1>2 DEF UndoEntry
<1> HIDE DEF cs
<1>5. /\ UndoEntry(e, f) \in FramesOf(c, r) /\ UndoEntry(e, f).cursor = e.cursor
      /\ UndoEntry(e, f).cells = cs
  BY <1>2, <1>3, <1>4 DEF FramesOf
<1> QED BY <1>5 DEF cs

(***************************************************************************)
(* One prediction: the entry that apply_keystrokes queues takes the frame   *)
(* back to what it was, however often the bytes met in one cell.            *)
(***************************************************************************)
LEMMA KeystrokesUndone ==
    ASSUME NEW c \in Nat, NEW r \in Nat, NEW echo \in EchoesOf(c, r),
           NEW bytes \in Buffers, NEW seq \in Nat
    PROVE  \E e \in EntriesOf(c, r), f \in FramesOf(c, r) :
               /\ ApplyKeystrokes(echo, bytes, seq) =
                    [frame |-> f, queue |-> Append(echo.queue, e)]
               /\ UndoEntry(e, f) = echo.frame
<1> DEFINE f0 == echo.frame
           start == [frame |-> f0, old |-> [p \in {} |-> Blank]]
           done == BytesApplied(start, bytes)
           e == [seq |-> seq, bytes |-> bytes, cursor |-> f0.cursor, old |-> done.old]
<1>1. f0 \in FramesOf(c, r) /\ echo.queue \in Seq(EntriesOf(c, r))
  BY DEF EchoesOf
<1>2. start \in PartsOf(c, r) /\ Undoable(f0, start)
  <2>1. [p \in {} |-> Blank] \in [{} -> Cell] /\ {} \in SUBSET Pos(c, r)
    OBVIOUS
  <2>2. [p \in {} |-> Blank] \in OldCells(c, r)
    BY <2>1 DEF OldCells
  <2> QED BY <1>1, <2>2 DEF PartsOf, Undoable
<1>3. PICK n \in Nat : DOMAIN bytes = 1..n
  BY TerminalAssumption
<1> HIDE DEF start
<1>4. PICK run : ByteRun(run, c, r, start, bytes, n)
  BY <1>2, <1>3, ApplyRun
<1> HIDE DEF done
<1> DEFINE S == {k \in Nat : k <= n => Undoable(f0, run[k])}
<1>5. 0 \in S
  BY <1>2, <1>4 DEF ByteRun
<1>6. ASSUME NEW k \in Nat, k \in S PROVE k + 1 \in S
  <2>1. CASE k + 1 <= n
    <3>1. k + 1 \in 1..n /\ (k + 1) - 1 = k /\ k \in 0..n /\ k <= n
      BY <2>1
    <3>2. run[k + 1] = ApplyByte(run[k], bytes[k + 1]) /\ run[k] \in PartsOf(c, r)
      BY <1>4, <3>1 DEF ByteRun
    <3>3. Undoable(f0, run[k])
      BY <1>6, <3>1
    <3>4. Undoable(f0, run[k + 1])
      BY <1>1, <3>2, <3>3, ApplyByteUndoable
    <3> QED BY <3>4
  <2> QED BY <2>1
<1> HIDE DEF S
<1>7. n \in S
  BY <1>5, <1>6, SetInduction
<1>8. Undoable(f0, done) /\ done \in PartsOf(c, r)
  BY <1>4, <1>7 DEF S, ByteRun, done
<1>9. done.frame \in FramesOf(c, r) /\ done.old \in OldCells(c, r)
  BY <1>8 DEF PartsOf
<1>10. e \in EntriesOf(c, r)
  BY <1>1, <1>9 DEF EntriesOf, FramesOf
<1>11. ApplyKeystrokes(echo, bytes, seq) = [frame |-> done.frame, queue |-> Append(echo.queue, e)]
  BY DEF ApplyKeystrokes, BytesApplied, start, done
<1>12. e.cursor = f0.cursor /\ e.old = done.old
  OBVIOUS
<1> HIDE DEF e, f0
<1>13. UndoEntry(e, done.frame) = f0
  <2>1. /\ UndoEntry(e, done.frame) \in FramesOf(c, r)
        /\ UndoEntry(e, done.frame).cursor = f0.cursor
        /\ UndoEntry(e, done.frame).cells = [p \in Pos(c, r) |->
              IF p \in DOMAIN done.old THEN done.old[p] ELSE done.frame.cells[p]]
    BY <1>9, <1>10, <1>12, UndoEntryType
  <2>2. f0.cells \in [Pos(c, r) -> Cell]
    BY <1>1 DEF FramesOf
  <2>3. UndoEntry(e, done.frame).cells = f0.cells
    BY <1>8, <2>1, <2>2 DEF Undoable
  <2> QED BY <1>1, <2>1, <2>3, SameFrame
<1> QED BY <1>9, <1>10, <1>11, <1>13 DEF f0

-----------------------------------------------------------------------------
(***************************************************************************)
(* abort as a run, from the newest entry to the oldest.                     *)
(***************************************************************************)
UndoneFrom(f, q) == FoldRight(UndoEntry, q, f)

UndoRun(run, c, r, f, q, n) ==
    /\ run \in [0..n -> FramesOf(c, r)]
    /\ run[n] = f /\ run[0] = UndoneFrom(f, q)
    /\ \A k \in 1..n : run[k - 1] = UndoEntry(q[k], run[k])

LEMMA UndoRuns ==
    ASSUME NEW c \in Nat, NEW r \in Nat, NEW f \in FramesOf(c, r),
           NEW q \in Seq(EntriesOf(c, r)), NEW n \in Nat, DOMAIN q = 1..n
    PROVE  \E run : UndoRun(run, c, r, f, q, n)
<1> DEFINE V == FramesOf(c, r)
           G == [iv \in (1..n) \X V |-> UndoEntry(q[iv[1]], iv[2])]
           Def(it) == it = [s \in SUBSET DOMAIN q |->
                             IF s = {} THEN f
                             ELSE UndoEntry(q[Min(s)], it[s \ {Min(s)}])]
           iter == CHOOSE it : Def(it)
<1>1. \A i \in 1..n : q[i] \in EntriesOf(c, r)
  OBVIOUS
<1>2. G \in [(1..n) \X V -> V]
  BY <1>1, UndoEntryType
<1> HIDE DEF V
<1>3. f \in V
  BY DEF V
<1>4. PICK g \in [SUBSET (1..n) -> V] : RightFold(g, 1..n, f, G)
  BY <1>2, <1>3, FoldRightExists
<1>5. Def(g)
  <2>1. ASSUME NEW s \in SUBSET (1..n)
        PROVE  g[s] = IF s = {} THEN f ELSE UndoEntry(q[Min(s)], g[s \ {Min(s)}])
    <3>1. CASE s = {}
      BY <1>4, <3>1 DEF RightFold
    <3>2. CASE s # {}
      <4>1. s \in SUBSET Nat
        OBVIOUS
      <4>2. Min(s) \in s
        BY <3>2, <4>1, MinIn
      <4>3. Min(s) \in 1..n /\ s \ {Min(s)} \in SUBSET (1..n)
        BY <4>2
      <4>4. G[<<Min(s), g[s \ {Min(s)}]>>] = UndoEntry(q[Min(s)], g[s \ {Min(s)}])
        BY <4>3
      <4> QED BY <1>4, <3>2, <4>4 DEF RightFold
    <3> QED BY <3>1, <3>2
  <2> QED BY <2>1
<1>6. Def(iter)
  <2> HIDE DEF Def
  <2> QED BY <1>5
<1>7. /\ iter[{}] = f
      /\ \A s \in SUBSET (1..n) : s # {} =>
            iter[s] = UndoEntry(q[Min(s)], iter[s \ {Min(s)}])
  <2> HIDE DEF iter
  <2> QED BY <1>6
<1>8. UndoneFrom(f, q) = iter[1..n]
  BY DEF UndoneFrom, FoldRight, MapThenFoldSet
<1> HIDE DEF iter
<1>9. \A k \in 1..n : iter[k..n] = UndoEntry(q[k], iter[(k + 1)..n])
  <2> TAKE k \in 1..n
  <2>1. /\ Min(k..n) = k
        /\ (k..n) \ {k} = (k + 1)..n
        /\ k..n \in SUBSET (1..n)
        /\ k..n # {}
    BY FromK, Zenon
  <2> QED BY <1>7, <2>1
<1> DEFINE run == [k \in 0..n |-> iter[(k + 1)..n]]
           S == {j \in Nat : j <= n => iter[(n - j + 1)..n] \in FramesOf(c, r)}
<1>10. iter[(n + 1)..n] = f
  <2>1. (n + 1)..n = {}
    OBVIOUS
  <2> QED BY <1>7, <2>1
<1>11. 0 \in S
  <2>1. n - 0 + 1 = n + 1
    OBVIOUS
  <2> QED BY <1>10, <2>1
<1>12. ASSUME NEW j \in Nat, j \in S PROVE j + 1 \in S
  <2>1. CASE j + 1 <= n
    <3>1. /\ n - j \in 1..n /\ n - (j + 1) + 1 = n - j /\ j <= n
          /\ iter[(n - j + 1)..n] \in FramesOf(c, r)
      BY <1>12, <2>1
    <3>2. iter[(n - j)..n] = UndoEntry(q[n - j], iter[(n - j + 1)..n])
      BY <1>9, <3>1
    <3>3. q[n - j] \in EntriesOf(c, r)
      BY <1>1, <3>1
    <3>4. UndoEntry(q[n - j], iter[(n - j + 1)..n]) \in FramesOf(c, r)
      BY <3>1, <3>3, UndoEntryType
    <3>5. iter[(n - j)..n] \in FramesOf(c, r)
      BY <3>2, <3>4
    <3> QED BY <3>1, <3>5
  <2> QED BY <2>1
<1> HIDE DEF S
<1>13. \A j \in Nat : j \in S
  BY <1>11, <1>12, SetInduction
<1>14. \A k \in 0..n : iter[(k + 1)..n] \in FramesOf(c, r)
  <2> TAKE k \in 0..n
  <2>1. n - k \in Nat /\ n - k <= n /\ n - (n - k) + 1 = k + 1
    OBVIOUS
  <2>2. n - k \in S
    BY <1>13, <2>1
  <2> QED BY <2>1, <2>2 DEF S
<1>15. run \in [0..n -> FramesOf(c, r)]
  BY <1>14
<1>16. run[n] = f /\ run[0] = iter[1..n]
  BY <1>10
<1>17. \A k \in 1..n : run[k - 1] = UndoEntry(q[k], run[k])
  <2> TAKE k \in 1..n
  <2>1. run[k - 1] = iter[k..n] /\ run[k] = iter[(k + 1)..n]
    <3>1. k - 1 \in 0..n /\ k \in 0..n /\ (k - 1) + 1 = k
      OBVIOUS
    <3> QED BY <3>1
  <2> QED BY <1>9, <2>1
<1> HIDE DEF run
<1> QED BY <1>8, <1>15, <1>16, <1>17 DEF UndoRun

\* Undoing stays inside the screen.
LEMMA UndoneType ==
    ASSUME NEW c \in Nat, NEW r \in Nat, NEW f \in FramesOf(c, r),
           NEW q \in Seq(EntriesOf(c, r))
    PROVE  UndoneFrom(f, q) \in FramesOf(c, r)
<1>1. Len(q) \in Nat /\ DOMAIN q = 1..Len(q)
  OBVIOUS
<1>2. PICK run : UndoRun(run, c, r, f, q, Len(q))
  BY <1>1, UndoRuns
<1> QED BY <1>1, <1>2 DEF UndoRun

LEMMA UndoNothing ==
    ASSUME NEW c \in Nat, NEW r \in Nat, NEW f \in FramesOf(c, r)
    PROVE  UndoneFrom(f, <<>>) = f
<1> DEFINE q == <<>>
<1>1. q \in Seq(EntriesOf(c, r)) /\ 0 \in Nat /\ DOMAIN q = 1..0
  OBVIOUS
<1> HIDE DEF q
<1>2. PICK run : UndoRun(run, c, r, f, q, 0)
  BY <1>1, UndoRuns
<1>3. UndoneFrom(f, q) = f
  BY <1>2 DEF UndoRun
<1> QED BY <1>3 DEF q

\* The newest entry is undone first.
LEMMA UndoNewest ==
    ASSUME NEW c \in Nat, NEW r \in Nat, NEW f \in FramesOf(c, r),
           NEW q \in Seq(EntriesOf(c, r)), NEW e \in EntriesOf(c, r)
    PROVE  UndoneFrom(f, Append(q, e)) = UndoneFrom(UndoEntry(e, f), q)
<1> DEFINE n == Len(q)
           q2 == Append(q, e)
           f2 == UndoEntry(e, f)
<1>1. /\ n \in Nat /\ DOMAIN q = 1..n /\ q2 \in Seq(EntriesOf(c, r)) /\ DOMAIN q2 = 1..(n + 1)
      /\ \A k \in 1..n : q2[k] = q[k]
      /\ q2[n + 1] = e
  OBVIOUS
<1>2. f2 \in FramesOf(c, r)
  BY UndoEntryType
<1> HIDE DEF n, q2, f2
<1>3. PICK long : UndoRun(long, c, r, f, q2, n + 1)
  <2>1. n + 1 \in Nat
    BY <1>1
  <2> QED BY <1>1, <2>1, UndoRuns
<1>4. PICK short : UndoRun(short, c, r, f2, q, n)
  BY <1>1, <1>2, UndoRuns
<1> DEFINE S == {j \in Nat : j <= n => long[n - j] = short[n - j]}
<1>5. 0 \in S
  <2>1. n + 1 \in 1..(n + 1) /\ (n + 1) - 1 = n /\ n - 0 = n
    BY <1>1
  <2>2. long[n] = UndoEntry(e, f)
    BY <1>1, <1>3, <2>1 DEF UndoRun
  <2> QED BY <1>4, <2>1, <2>2 DEF UndoRun, f2
<1>6. ASSUME NEW j \in Nat, j \in S PROVE j + 1 \in S
  <2>1. CASE j + 1 <= n
    <3>1. /\ n - j \in 1..n /\ n - j \in 1..(n + 1) /\ (n - j) - 1 = n - (j + 1)
          /\ long[n - j] = short[n - j]
      BY <1>1, <1>6, <2>1
    <3>2. /\ long[n - (j + 1)] = UndoEntry(q2[n - j], long[n - j])
          /\ short[n - (j + 1)] = UndoEntry(q[n - j], short[n - j])
      BY <1>3, <1>4, <3>1 DEF UndoRun
    <3> QED BY <1>1, <3>1, <3>2
  <2> QED BY <2>1
<1> HIDE DEF S
<1>7. n \in S
  BY <1>1, <1>5, <1>6, SetInduction
<1>8. long[0] = short[0]
  <2>1. n - n = 0 /\ n <= n
    BY <1>1
  <2> QED BY <1>7, <2>1 DEF S
<1>9. UndoneFrom(f, q2) = UndoneFrom(f2, q)
  BY <1>3, <1>4, <1>8 DEF UndoRun
<1> QED BY <1>9 DEF q2, f2

-----------------------------------------------------------------------------
(***************************************************************************)
(* A prediction on top changes nothing in what undoing all of them gives.   *)
(***************************************************************************)
LEMMA PredictionOnTop ==
    ASSUME NEW c \in Nat, NEW r \in Nat, NEW echo \in EchoesOf(c, r),
           NEW bytes \in Buffers, NEW seq \in Nat
    PROVE  /\ ApplyKeystrokes(echo, bytes, seq) \in EchoesOf(c, r)
           /\ Undone(ApplyKeystrokes(echo, bytes, seq)) = Undone(echo)
<1>1. PICK e \in EntriesOf(c, r), f \in FramesOf(c, r) :
        /\ ApplyKeystrokes(echo, bytes, seq) = [frame |-> f, queue |-> Append(echo.queue, e)]
        /\ UndoEntry(e, f) = echo.frame
  BY KeystrokesUndone
<1>2. echo.queue \in Seq(EntriesOf(c, r)) /\ echo.frame \in FramesOf(c, r)
  BY DEF EchoesOf
<1> DEFINE q == Append(echo.queue, e)
           new == [frame |-> f, queue |-> q]
<1>3. q \in Seq(EntriesOf(c, r))
  BY <1>2
<1>4. UndoneFrom(f, q) = UndoneFrom(echo.frame, echo.queue)
  BY <1>1, <1>2, UndoNewest
<1> HIDE DEF q
<1>5. new \in EchoesOf(c, r)
  BY <1>3 DEF EchoesOf
<1>6. Undone(new) = UndoneFrom(f, q) /\ Undone(echo) = UndoneFrom(echo.frame, echo.queue)
  BY DEF Undone, UndoneFrom
<1> QED BY <1>1, <1>4, <1>5, <1>6 DEF q

\* What reconcile_frame uses of an entry.
Replayable(list, n) ==
    DOMAIN list = 1..n /\ \A i \in 1..n : list[i].bytes \in Buffers /\ list[i].seq \in Nat

Replayed(start, list) ==
    FoldLeft(LAMBDA e, entry : ApplyKeystrokes(e, entry.bytes, entry.seq), start, list)

ReplayRun(run, c, r, start, list, n) ==
    /\ run \in [0..n -> EchoesOf(c, r)]
    /\ run[0] = start /\ run[n] = Replayed(start, list)
    /\ \A k \in 1..n : run[k] = ApplyKeystrokes(run[k - 1], list[k].bytes, list[k].seq)

LEMMA ReplayRuns ==
    ASSUME NEW c \in Nat, NEW r \in Nat, NEW start \in EchoesOf(c, r),
           NEW list, NEW n \in Nat, Replayable(list, n)
    PROVE  \E run : ReplayRun(run, c, r, start, list, n)
<1> DEFINE V == EchoesOf(c, r)
           G == [vi \in V \X (1..n) |-> ApplyKeystrokes(vi[1], list[vi[2]].bytes, list[vi[2]].seq)]
           Def(it) == it = [s \in SUBSET DOMAIN list |->
                             IF s = {} THEN start
                             ELSE ApplyKeystrokes(it[s \ {Max(s)}], list[Max(s)].bytes,
                                                  list[Max(s)].seq)]
           iter == CHOOSE it : Def(it)
<1>0. DOMAIN list = 1..n /\ \A i \in 1..n : list[i].bytes \in Buffers /\ list[i].seq \in Nat
  BY DEF Replayable
<1>1. G \in [V \X (1..n) -> V]
  BY <1>0, PredictionOnTop
<1> HIDE DEF V
<1>2. start \in V
  BY DEF V
<1>3. PICK f \in [SUBSET (1..n) -> V] : LeftFold(f, 1..n, start, G)
  BY <1>1, <1>2, FoldLeftExists
<1>4. Def(f)
  <2>1. ASSUME NEW s \in SUBSET (1..n)
        PROVE  f[s] = IF s = {} THEN start
                      ELSE ApplyKeystrokes(f[s \ {Max(s)}], list[Max(s)].bytes, list[Max(s)].seq)
    <3>1. CASE s = {}
      BY <1>3, <3>1 DEF LeftFold
    <3>2. CASE s # {}
      <4>1. Max(s) \in 1..n /\ s \ {Max(s)} \in SUBSET (1..n)
        BY <3>2, MaxIn
      <4>2. G[<<f[s \ {Max(s)}], Max(s)>>] =
              ApplyKeystrokes(f[s \ {Max(s)}], list[Max(s)].bytes, list[Max(s)].seq)
        BY <4>1
      <4> QED BY <1>3, <3>2, <4>2 DEF LeftFold
    <3> QED BY <3>1, <3>2
  <2> QED BY <1>0, <2>1
<1>5. Def(iter)
  <2> HIDE DEF Def
  <2> QED BY <1>4
<1>6. /\ iter[{}] = start
      /\ \A s \in SUBSET (1..n) : s # {} =>
            iter[s] = ApplyKeystrokes(iter[s \ {Max(s)}], list[Max(s)].bytes, list[Max(s)].seq)
  <2> HIDE DEF iter
  <2> QED BY <1>0, <1>5
<1>7. Replayed(start, list) = iter[1..n]
  BY <1>0 DEF Replayed, FoldLeft, MapThenFoldSet
<1> HIDE DEF iter
<1>8. \A k \in 1..n :
         iter[1..k] = ApplyKeystrokes(iter[1..(k - 1)], list[k].bytes, list[k].seq)
  <2> TAKE k \in 1..n
  <2>1. /\ Max(1..k) = k
        /\ (1..k) \ {k} = 1..(k - 1)
        /\ 1..k \in SUBSET (1..n)
        /\ 1..k # {}
    BY UpToK, Zenon
  <2> QED BY <1>6, <2>1
<1> DEFINE run == [k \in 0..n |-> iter[1..k]]
           S == {k \in Nat : k <= n => iter[1..k] \in EchoesOf(c, r)}
<1>9. iter[1..0] = start
  BY <1>6
<1>10. 0 \in S
  BY <1>9
<1>11. ASSUME NEW k \in Nat, k \in S PROVE k + 1 \in S
  <2>1. CASE k + 1 <= n
    <3>1. k + 1 \in 1..n /\ (k + 1) - 1 = k /\ k <= n
      BY <2>1
    <3>2. iter[1..(k + 1)] = ApplyKeystrokes(iter[1..k], list[k + 1].bytes, list[k + 1].seq)
      BY <1>8, <3>1
    <3>3. iter[1..k] \in EchoesOf(c, r)
      BY <1>11, <3>1
    <3>4. list[k + 1].bytes \in Buffers /\ list[k + 1].seq \in Nat
      BY <1>0, <3>1
    <3>5. iter[1..(k + 1)] \in EchoesOf(c, r)
      BY <3>2, <3>3, <3>4, PredictionOnTop
    <3> QED BY <3>5
  <2> QED BY <2>1
<1> HIDE DEF S
<1>12. \A k \in Nat : k \in S
  BY <1>10, <1>11, SetInduction
<1>13. run \in [0..n -> EchoesOf(c, r)]
  BY <1>12 DEF S
<1>14. run[0] = start /\ run[n] = iter[1..n]
  BY <1>9
<1>15. \A k \in 1..n : run[k] = ApplyKeystrokes(run[k - 1], list[k].bytes, list[k].seq)
  BY <1>8
<1> HIDE DEF run
<1> QED BY <1>7, <1>13, <1>14, <1>15 DEF ReplayRun

(***************************************************************************)
(* reconcile_frame: the surviving predictions go on top of the given frame, *)
(* and undoing them gives that frame back.                                  *)
(***************************************************************************)
LEMMA ReplayUndone ==
    ASSUME NEW c \in Nat, NEW r \in Nat, NEW f \in FramesOf(c, r),
           NEW list, NEW n \in Nat, Replayable(list, n)
    PROVE  LET new == Replayed([frame |-> f, queue |-> <<>>], list)
           IN  /\ new \in EchoesOf(c, r)
               /\ Undone(new) = f
               /\ n = 0 => new = [frame |-> f, queue |-> <<>>]
<1> DEFINE start == [frame |-> f, queue |-> <<>>]
           new == Replayed(start, list)
<1>1. start \in EchoesOf(c, r) /\ Undone(start) = f
  <2>1. start \in EchoesOf(c, r)
    BY DEF EchoesOf
  <2>2. Undone(start) = UndoneFrom(f, <<>>)
    BY DEF Undone, UndoneFrom
  <2> QED BY <2>1, <2>2, UndoNothing
<1> HIDE DEF start
<1>2. PICK run : ReplayRun(run, c, r, start, list, n)
  BY <1>1, ReplayRuns
<1> DEFINE S == {k \in Nat : k <= n => Undone(run[k]) = f}
<1>3. 0 \in S
  BY <1>1, <1>2 DEF ReplayRun
<1>4. ASSUME NEW k \in Nat, k \in S PROVE k + 1 \in S
  <2>1. CASE k + 1 <= n
    <3>1. k + 1 \in 1..n /\ (k + 1) - 1 = k /\ k \in 0..n /\ Undone(run[k]) = f
      BY <1>4, <2>1
    <3>2. /\ run[k + 1] = ApplyKeystrokes(run[k], list[k + 1].bytes, list[k + 1].seq)
          /\ run[k] \in EchoesOf(c, r)
          /\ list[k + 1].bytes \in Buffers /\ list[k + 1].seq \in Nat
      BY <1>2, <3>1 DEF ReplayRun, Replayable
    <3>3. Undone(run[k + 1]) = f
      BY <3>1, <3>2, PredictionOnTop
    <3> QED BY <3>3
  <2> QED BY <2>1
<1> HIDE DEF S
<1>5. n \in S
  BY <1>3, <1>4, SetInduction
<1>6. Undone(new) = f
  BY <1>2, <1>5 DEF S, ReplayRun
<1>7. new \in EchoesOf(c, r) /\ (n = 0 => new = start)
  BY <1>2 DEF ReplayRun
<1> QED BY <1>6, <1>7 DEF start

\* Whatever is acknowledged, what is left can be replayed.
LEMMA SurvivorsReplayable ==
    ASSUME NEW c, NEW r, NEW q \in Seq(EntriesOf(c, r)), NEW ack
    PROVE  \E n \in Nat : /\ Replayable(Survivors(q, ack), n)
                          /\ n = 0 <=> Survivors(q, ack) = <<>>
<1> DEFINE kept == {i \in DOMAIN q : q[i].seq > ack}
           m == Min(kept)
           t == SubSeq(q, m, Len(q))
<1>1. Survivors(q, ack) = IF kept = {} THEN <<>> ELSE t
  BY DEF Survivors
<1>2. CASE kept = {}
  BY <1>1, <1>2 DEF Replayable
<1>3. CASE kept # {}
  <2>1. kept \in SUBSET Nat /\ kept \subseteq 1..Len(q)
    OBVIOUS
  <2>2. m \in kept
    BY <1>3, <2>1, MinIn
  <2>3. m \in 1..Len(q) /\ Len(q) \in Nat
    BY <2>1, <2>2
  <2> HIDE DEF m, kept
  <2>4. /\ DOMAIN t = 1..(Len(q) - m + 1) /\ Len(q) - m + 1 \in Nat /\ Len(q) - m + 1 # 0
        /\ \A i \in 1..(Len(q) - m + 1) : t[i] = q[m + i - 1] /\ m + i - 1 \in 1..Len(q)
    BY <2>3
  <2>5. ASSUME NEW i \in 1..Len(q) PROVE q[i].bytes \in Buffers /\ q[i].seq \in Nat
    <3>1. q[i] \in EntriesOf(c, r)
      OBVIOUS
    <3> QED BY <3>1 DEF EntriesOf
  <2> HIDE DEF t
  <2>6. t # <<>>
    <3>1. 1 \in DOMAIN t
      BY <2>4
    <3> QED BY <3>1
  <2>7. Replayable(t, Len(q) - m + 1)
    BY <2>4, <2>5 DEF Replayable
  <2> QED BY <1>1, <1>3, <2>4, <2>6, <2>7
<1> QED BY <1>2, <1>3

LEMMA ReconcileUndone ==
    ASSUME NEW c \in Nat, NEW r \in Nat, NEW f \in FramesOf(c, r),
           NEW c2, NEW r2, NEW q \in Seq(EntriesOf(c2, r2)), NEW ack,
           NEW new, new = Reconcile([frame |-> f, queue |-> q], ack)
    PROVE  /\ new \in EchoesOf(c, r)
           /\ Undone(new) = f
           /\ Survivors(q, ack) = <<>> => new = [frame |-> f, queue |-> <<>>]
<1>1. PICK n \in Nat : Replayable(Survivors(q, ack), n) /\ (n = 0 <=> Survivors(q, ack) = <<>>)
  BY SurvivorsReplayable
<1>2. Reconcile([frame |-> f, queue |-> q], ack) =
        Replayed([frame |-> f, queue |-> <<>>], Survivors(q, ack))
  BY DEF Reconcile, Replayed
<1> QED BY <1>1, <1>2, ReplayUndone

-----------------------------------------------------------------------------
(***************************************************************************)
(* The inductive invariant.  Between two events a clear is never pending.   *)
(***************************************************************************)
MarkSets == [dirty : BOOLEAN, rows : SUBSET Int, clear : BOOLEAN]
Consoles == [Positions -> Cell \cup {"banner", "overlay"}]

TerminalTypes ==
    /\ frame.cols \in Nat /\ frame.rows \in Nat
    /\ frame \in FramesOf(frame.cols, frame.rows)
    /\ Pos(frame.cols, frame.rows) \subseteq Positions
    /\ unconfirmed \in Seq(EntriesOf(frame.cols, frame.rows))
    /\ marks \in MarkSets /\ marks.clear = FALSE
    /\ console \in Consoles
    /\ echoOn \in BOOLEAN /\ reconnecting \in BOOLEAN /\ overlay \in BOOLEAN
    /\ doubled \in BOOLEAN
    /\ inputSeq \in Nat /\ frameSeq \in Nat /\ ackSeq \in Nat

\* Where the painter writes in a frame of c columns and r rows.
Paintable(c, r) == Pos(c, r) \ {<<r - 1, c - 1>>}

(***************************************************************************)
(* The banner is nowhere but in the last row of the copy, and there it is   *)
(* on or due to be painted over.                                            *)
(***************************************************************************)
BannerInLastRow ==
    \A p \in Positions : console[p] = "banner" =>
        /\ p \in Paintable(frame.cols, frame.rows) /\ p[1] = frame.rows - 1
        /\ reconnecting \/ (marks.dirty /\ p[1] \in marks.rows)

TerminalInv == TerminalTypes /\ BannerInLastRow /\ UndoRestores /\ FramesReachConsole

-----------------------------------------------------------------------------
\* Cells and dimensions of a copy.
LEMMA FrameParts ==
    ASSUME NEW c, NEW r, NEW f \in FramesOf(c, r)
    PROVE  /\ f.cols = c /\ f.rows = r /\ f.cursor \in Nat \X Nat
           /\ f.cells \in [Pos(c, r) -> Cell] /\ DOMAIN f.cells = Pos(c, r)
           /\ \A p \in Pos(c, r) : f.cells[p] \in Cell /\ f.cells[p] \notin {"banner", "overlay"}
<1>1. /\ f.cols = c /\ f.rows = r /\ f.cursor \in Nat \X Nat
      /\ f.cells \in [Pos(c, r) -> Cell]
  BY DEF FramesOf
<1>2. \A x \in Cell : x \notin {"banner", "overlay"}
  BY TerminalAssumption
<1> QED BY <1>1, <1>2

\* The screens of the server, and blank ones of their sizes, are copies.
LEMMA ScreenParts ==
    ASSUME NEW g \in ServerScreens
    PROVE  /\ g.cols \in Nat /\ g.rows \in Nat
           /\ FrameOf(g) \in FramesOf(g.cols, g.rows)
           /\ FrameOf(g).cells = g.cells /\ FrameOf(g).cols = g.cols /\ FrameOf(g).rows = g.rows
           /\ FrameOf(BlankGrid(g.cols, g.rows, <<0, 0>>)) \in FramesOf(g.cols, g.rows)
           /\ FrameOf(BlankGrid(g.cols, g.rows, <<0, 0>>)).cells = [p \in Pos(g.cols, g.rows) |-> Blank]
           /\ Pos(g.cols, g.rows) \subseteq Positions
           /\ DOMAIN g.cells = Pos(g.cols, g.rows)
<1>1. g.cols \in Nat /\ g.rows \in Nat /\ g \in GridOf(g.cols, g.rows)
  BY TerminalAssumption DEF IsGrid
<1>2. g.cells \in [Pos(g.cols, g.rows) -> Cell] /\ g.cursor \in Nat \X Nat
  BY <1>1, TerminalAssumption DEF GridOf
<1>3. FrameOf(g) \in FramesOf(g.cols, g.rows)
  BY <1>2 DEF FrameOf, FramesOf
<1>4. /\ FrameOf(BlankGrid(g.cols, g.rows, <<0, 0>>)) \in FramesOf(g.cols, g.rows)
      /\ FrameOf(BlankGrid(g.cols, g.rows, <<0, 0>>)).cells = [p \in Pos(g.cols, g.rows) |-> Blank]
  BY <1>2, GridAssumption DEF FrameOf, FramesOf, BlankGrid
<1>5. Pos(g.cols, g.rows) \subseteq Positions
  BY DEF Positions
<1>6. FrameOf(g).cells = g.cells /\ FrameOf(g).cols = g.cols /\ FrameOf(g).rows = g.rows
  BY DEF FrameOf
<1> QED BY <1>1, <1>2, <1>3, <1>4, <1>5, <1>6

LEMMA ClearedType == Cleared \in Consoles /\ \A p \in Positions : Cleared[p] = Blank
BY GridAssumption DEF Cleared, Consoles

-----------------------------------------------------------------------------
(***************************************************************************)
(* Painting.  m are the marks that are painted, old is what the console     *)
(* shows when painting begins.                                              *)
(***************************************************************************)
Before(m) == IF m.clear THEN Cleared ELSE console

\* What painting leaves at a position, after Painted.
LEMMA PaintedAt ==
    ASSUME NEW c \in Nat, NEW r \in Nat, NEW m \in MarkSets, NEW p \in Positions,
           console \in Consoles, frame' \in FramesOf(c, r), Paint(m)
    PROVE  /\ ~m.dirty \/ p \notin Paintable(c, r) => console'[p] = Before(m)[p]
           /\ m.dirty /\ p \in Paintable(c, r) =>
                \/ console'[p] = "overlay"
                \/ reconnecting' /\ p[1] = r - 1 /\ console'[p] = "banner"
                \/ /\ ~(reconnecting' /\ p[1] = r - 1)
                   /\ console'[p] = IF p[1] \in m.rows THEN frame'.cells[p] ELSE Before(m)[p]
<1>1. Before(m) \in Consoles
  BY ClearedType DEF Before
<1>2. DOMAIN frame'.cells = Pos(c, r) /\ frame'.cols = c /\ frame'.rows = r
  BY FrameParts
<1>3. console' = Painted(frame', m)
  BY DEF Paint
<1>4. Painted(frame', m) =
        IF ~m.dirty THEN Before(m)
        ELSE [q \in Positions |->
                IF ~(q \in DOMAIN frame'.cells /\ q # <<frame'.rows - 1, frame'.cols - 1>>)
                THEN Before(m)[q]
                ELSE IF overlay' /\ q[1] = 0 THEN "overlay"
                ELSE IF reconnecting' /\ q[1] = frame'.rows - 1 THEN "banner"
                ELSE IF q[1] \in m.rows THEN frame'.cells[q] ELSE Before(m)[q]]
  BY DEF Painted, Before
<1>5. p \in Paintable(c, r) <=>
        p \in DOMAIN frame'.cells /\ p # <<frame'.rows - 1, frame'.cols - 1>>
  BY <1>2 DEF Paintable
<1>6. CASE ~m.dirty
  BY <1>3, <1>4, <1>6
<1>7. CASE m.dirty
  <2>1. console'[p] =
            IF p \notin Paintable(c, r) THEN Before(m)[p]
            ELSE IF overlay' /\ p[1] = 0 THEN "overlay"
            ELSE IF reconnecting' /\ p[1] = r - 1 THEN "banner"
            ELSE IF p[1] \in m.rows THEN frame'.cells[p] ELSE Before(m)[p]
    BY <1>2, <1>3, <1>4, <1>5, <1>7
  <2> QED BY <1>7, <2>1
<1> QED BY <1>6, <1>7

LEMMA PaintTypes ==
    ASSUME NEW c \in Nat, NEW r \in Nat, NEW m \in MarkSets,
           console \in Consoles, frame' \in FramesOf(c, r), Paint(m)
    PROVE  console' \in Consoles /\ marks' \in MarkSets /\ marks'.clear = FALSE
<1>1. Before(m) \in Consoles
  BY ClearedType DEF Before
<1>2. console' \in Consoles
  <2>1. CASE ~m.dirty
    BY <1>1, <2>1 DEF Paint, Painted, Before
  <2>2. CASE m.dirty
    <3>1. DOMAIN console' = Positions /\ console' = [p \in Positions |-> console'[p]]
      BY <2>2 DEF Paint, Painted
    <3>2. ASSUME NEW p \in Positions PROVE console'[p] \in Cell \cup {"banner", "overlay"}
      <4>1. p \in Paintable(c, r) => frame'.cells[p] \in Cell
        BY FrameParts DEF Paintable
      <4>2. Before(m)[p] \in Cell \cup {"banner", "overlay"}
        BY <1>1 DEF Consoles
      <4> QED BY <4>1, <4>2, PaintedAt
    <3> QED BY <3>1, <3>2 DEF Consoles
  <2> QED BY <2>1, <2>2 DEF MarkSets
<1>3. marks' \in MarkSets /\ marks'.clear = FALSE
  BY DEF Paint, MarkSets
<1> QED BY <1>2, <1>3

\* The banner stays in the last row.
LEMMA PaintBanner ==
    ASSUME NEW c \in Nat, NEW r \in Nat, NEW m \in MarkSets,
           console \in Consoles, frame' \in FramesOf(c, r), Paint(m),
           \A p \in Positions : Before(m)[p] = "banner" =>
               /\ p \in Paintable(c, r) /\ p[1] = r - 1
               /\ reconnecting' \/ (m.dirty /\ p[1] \in m.rows)
    PROVE  BannerInLastRow'
<1> SUFFICES ASSUME NEW p \in Positions, console'[p] = "banner"
             PROVE  /\ p \in Paintable(c, r) /\ p[1] = r - 1
                    /\ reconnecting'
  <2>1. frame'.cols = c /\ frame'.rows = r
    BY FrameParts
  <2> QED BY <2>1 DEF BannerInLastRow
<1>1. p \in Paintable(c, r) => frame'.cells[p] # "banner"
  BY FrameParts DEF Paintable
<1>2. CASE ~m.dirty \/ p \notin Paintable(c, r)
  BY <1>2, PaintedAt
<1>3. CASE m.dirty /\ p \in Paintable(c, r)
  BY <1>1, <1>3, PaintedAt
<1> QED BY <1>2, <1>3

(***************************************************************************)
(* Nothing is forgotten: marks are taken back only for what is painted.     *)
(***************************************************************************)
LEMMA PaintReaches ==
    ASSUME NEW c \in Nat, NEW r \in Nat, NEW m \in MarkSets, NEW new,
           console \in Consoles, frame' \in FramesOf(c, r), Paint(m), Excuse(new),
           \A p \in Positions : p \in Paintable(c, r) /\ p \notin excused \cup new =>
               \/ Before(m)[p] \in {"banner", "overlay", frame'.cells[p]}
               \/ m.dirty /\ p[1] \in m.rows
    PROVE  FramesReachConsole'
<1> SUFFICES ASSUME NEW p \in Positions, p \notin excused', p \in Paintable(c, r)
             PROVE  console'[p] \in {"banner", "overlay", frame'.cells[p]}
  <2>1. frame'.cols = c /\ frame'.rows = r /\ DOMAIN frame'.cells = Pos(c, r)
    BY FrameParts
  <2> QED BY <2>1 DEF FramesReachConsole, Forgotten, Paintable
<1>1. CASE p \in excused \cup new
  <2>1. p \in DOMAIN frame'.cells
    BY FrameParts DEF Paintable
  <2> QED BY <1>1, <2>1 DEF Excuse
<1>2. CASE p \notin excused \cup new
  <2>1. CASE ~m.dirty
    BY <1>2, <2>1, PaintedAt
  <2>2. CASE m.dirty
    BY <1>2, <2>2, PaintedAt
  <2> QED BY <2>1, <2>2 DEF MarkSets
<1> QED BY <1>1, <1>2

-----------------------------------------------------------------------------
(***************************************************************************)
(* Handlers that keep the size of the copy: marks are only added, the       *)
(* banner does not go, and what they change is either excused or not there. *)
(***************************************************************************)
MoreMarks(m, m0) ==
    /\ m \in MarkSets /\ m.clear = FALSE
    /\ m0.dirty => m.dirty
    /\ m0.rows \subseteq m.rows

LEMMA MoreMarksTrivial ==
    ASSUME TerminalTypes
    PROVE  MoreMarks(marks, marks) /\ MoreMarks(Dirty(marks), marks)
BY DEF TerminalTypes, MoreMarks, MarkSets, Dirty

LEMMA TelemetryMarks ==
    ASSUME NEW m0 \in MarkSets, NEW m \in Telemetry(m0)
    PROVE  m \in MarkSets /\ m.clear = m0.clear /\ (m0.dirty => m.dirty) /\ m.rows = m0.rows
<1>1. m = m0 \/ m = Dirty(m0)
  BY DEF Telemetry
<1> QED BY <1>1 DEF MarkSets, Dirty

\* What the invariant says of the console before the step.
LEMMA ShownBefore ==
    ASSUME TerminalTypes, FramesReachConsole, NEW p \in Positions,
           p \in Paintable(frame.cols, frame.rows), p \notin excused
    PROVE  \/ console[p] \in {"banner", "overlay", frame.cells[p]}
           \/ marks.dirty /\ p[1] \in marks.rows
<1>1. DOMAIN frame.cells = Pos(frame.cols, frame.rows) /\ marks.clear = FALSE
  BY FrameParts DEF TerminalTypes
<1>2. ~Forgotten(p)
  BY DEF FramesReachConsole
<1> QED BY <1>1, <1>2 DEF Forgotten, Paintable

LEMMA SameSizePaint ==
    ASSUME TerminalInv, frame' \in FramesOf(frame.cols, frame.rows),
           NEW m, MoreMarks(m, marks), reconnecting => reconnecting',
           NEW new, Differ(frame, frame') \subseteq new, Paint(m), Excuse(new)
    PROVE  /\ console' \in Consoles /\ marks' \in MarkSets /\ marks'.clear = FALSE
           /\ BannerInLastRow' /\ FramesReachConsole'
<1> DEFINE c == frame.cols
           r == frame.rows
<1>1. /\ c \in Nat /\ r \in Nat /\ console \in Consoles /\ m \in MarkSets
      /\ frame \in FramesOf(c, r) /\ m.clear = FALSE
  BY DEF TerminalInv, TerminalTypes, MoreMarks
<1>2. Before(m) = console
  BY <1>1 DEF Before
<1>3. DOMAIN frame.cells = Pos(c, r) /\ DOMAIN frame'.cells = Pos(c, r)
  BY <1>1, FrameParts
<1>4. ASSUME NEW p \in Positions, p \in Paintable(c, r), p \notin excused \cup new
      PROVE  \/ Before(m)[p] \in {"banner", "overlay", frame'.cells[p]}
             \/ m.dirty /\ p[1] \in m.rows
  <2>1. frame.cells[p] = frame'.cells[p]
    BY <1>3, <1>4 DEF Differ, Paintable
  <2>2. \/ console[p] \in {"banner", "overlay", frame.cells[p]}
        \/ marks.dirty /\ p[1] \in marks.rows
    BY <1>4, ShownBefore DEF TerminalInv
  <2> QED BY <1>2, <2>1, <2>2 DEF MoreMarks
<1>5. ASSUME NEW p \in Positions, Before(m)[p] = "banner"
      PROVE  /\ p \in Paintable(c, r) /\ p[1] = r - 1
             /\ reconnecting' \/ (m.dirty /\ p[1] \in m.rows)
  BY <1>2, <1>5 DEF TerminalInv, BannerInLastRow, MoreMarks
<1> HIDE DEF c, r
<1>6. frame' \in FramesOf(c, r)
  BY DEF c, r
<1>7. FramesReachConsole'
  BY <1>1, <1>4, <1>6, PaintReaches
<1>8. BannerInLastRow'
  BY <1>1, <1>5, <1>6, PaintBanner
<1> QED BY <1>1, <1>6, <1>7, <1>8, PaintTypes

\* The same without a paint; the banner may go if its row is marked.
LEMMA SameSizeMarks ==
    ASSUME TerminalInv, frame' \in FramesOf(frame.cols, frame.rows),
           MoreMarks(marks', marks),
           reconnecting => reconnecting' \/ (marks'.dirty /\ frame.rows - 1 \in marks'.rows),
           NEW new, Differ(frame, frame') \subseteq new, console' = console, Excuse(new)
    PROVE  BannerInLastRow' /\ FramesReachConsole'
<1> DEFINE c == frame.cols
           r == frame.rows
<1>1. /\ c \in Nat /\ r \in Nat /\ frame \in FramesOf(c, r)
      /\ frame'.cols = c /\ frame'.rows = r
      /\ DOMAIN frame.cells = Pos(c, r) /\ DOMAIN frame'.cells = Pos(c, r)
  BY FrameParts DEF TerminalInv, TerminalTypes
<1>2. BannerInLastRow'
  <2> SUFFICES ASSUME NEW p \in Positions, console[p] = "banner"
               PROVE  /\ p \in Paintable(c, r) /\ p[1] = r - 1
                      /\ reconnecting' \/ (marks'.dirty /\ p[1] \in marks'.rows)
    BY <1>1 DEF BannerInLastRow
  <2>1. /\ p \in Paintable(c, r) /\ p[1] = r - 1
        /\ reconnecting \/ (marks.dirty /\ p[1] \in marks.rows)
    BY DEF TerminalInv, BannerInLastRow
  <2> QED BY <2>1 DEF MoreMarks
<1>3. FramesReachConsole'
  <2> SUFFICES ASSUME NEW p \in Positions, p \notin excused', p \in Paintable(c, r),
                      ~(marks'.dirty /\ p[1] \in marks'.rows)
               PROVE  console[p] \in {"banner", "overlay", frame'.cells[p]}
    BY <1>1 DEF FramesReachConsole, Forgotten, Paintable
  <2>1. CASE p \in excused \cup new
    <3>1. p \in DOMAIN frame'.cells
      BY <1>1 DEF Paintable
    <3> QED BY <2>1, <3>1 DEF Excuse
  <2>2. CASE p \notin excused \cup new
    <3>1. frame.cells[p] = frame'.cells[p]
      BY <1>1, <2>2 DEF Differ, Paintable
    <3>2. \/ console[p] \in {"banner", "overlay", frame.cells[p]}
          \/ marks.dirty /\ p[1] \in marks.rows
      BY <2>2, ShownBefore DEF TerminalInv
    <3> QED BY <3>1, <3>2 DEF MoreMarks
  <2> QED BY <2>1, <2>2
<1> QED BY <1>2, <1>3

-----------------------------------------------------------------------------
\* The copy and its queue before and after acknowledge and abort.
LEMMA EchoParts ==
    ASSUME TerminalTypes
    PROVE  /\ Echo \in EchoesOf(frame.cols, frame.rows)
           /\ frame.cols \in Nat /\ frame.rows \in Nat
           /\ Undone(Echo) = UndoneFrom(frame, unconfirmed)
           /\ Undone(Echo) \in FramesOf(frame.cols, frame.rows)
           /\ unconfirmed = <<>> => Undone(Echo) = frame
<1>1. /\ Echo \in EchoesOf(frame.cols, frame.rows)
      /\ frame.cols \in Nat /\ frame.rows \in Nat
      /\ frame \in FramesOf(frame.cols, frame.rows)
      /\ unconfirmed \in Seq(EntriesOf(frame.cols, frame.rows))
  BY DEF TerminalTypes, Echo, EchoesOf
<1>2. Undone(Echo) = UndoneFrom(frame, unconfirmed)
  BY DEF Undone, UndoneFrom, Echo
<1>3. Undone(Echo) \in FramesOf(frame.cols, frame.rows)
  BY <1>1, <1>2, UndoneType
<1>4. unconfirmed = <<>> => Undone(Echo) = frame
  BY <1>1, <1>2, UndoNothing
<1> QED BY <1>1, <1>2, <1>3, <1>4

LEMMA AcknowledgedParts ==
    ASSUME TerminalTypes, NEW ack
    PROVE  /\ Acknowledged(ack) \in EchoesOf(frame.cols, frame.rows)
           /\ Survivors(unconfirmed, ack) = <<>> => Acknowledged(ack).queue = <<>>
<1>1. /\ frame.cols \in Nat /\ frame.rows \in Nat
      /\ frame \in FramesOf(frame.cols, frame.rows)
      /\ unconfirmed \in Seq(EntriesOf(frame.cols, frame.rows))
  BY DEF TerminalTypes
<1> DEFINE new == Reconcile([frame |-> frame, queue |-> unconfirmed], ack)
<1>2. Acknowledged(ack) = new
  BY DEF Acknowledged, Echo
<1>3. /\ new \in EchoesOf(frame.cols, frame.rows)
      /\ Survivors(unconfirmed, ack) = <<>> => new = [frame |-> frame, queue |-> <<>>]
  BY <1>1, ReconcileUndone
<1> HIDE DEF new
<1> QED BY <1>2, <1>3

LEMMA AbortParts ==
    ASSUME TerminalTypes, Abort
    PROVE  /\ frame' \in FramesOf(frame.cols, frame.rows) /\ unconfirmed' = <<>>
           /\ UndoRestores'
<1>1. frame' = Undone(Echo) /\ unconfirmed' = <<>>
  BY DEF Abort, SetEcho
<1>2. UndoRestores'
  BY <1>1 DEF UndoRestores
<1> QED BY <1>1, <1>2, EchoParts

\* Types after a step that keeps the size.
LEMMA SameSizeTypes ==
    ASSUME TerminalTypes, frame' \in FramesOf(frame.cols, frame.rows),
           unconfirmed' \in Seq(EntriesOf(frame.cols, frame.rows)),
           marks' \in MarkSets, marks'.clear = FALSE, console' \in Consoles,
           echoOn' \in BOOLEAN, reconnecting' \in BOOLEAN, overlay' \in BOOLEAN,
           doubled' \in BOOLEAN,
           inputSeq' \in Nat, frameSeq' \in Nat, ackSeq' \in Nat
    PROVE  TerminalTypes'
<1>1. frame'.cols = frame.cols /\ frame'.rows = frame.rows
  BY FrameParts
<1> QED BY <1>1 DEF TerminalTypes

-----------------------------------------------------------------------------
LEMMA TerminalInvInit == TerminalInit => TerminalInv
<1> SUFFICES ASSUME TerminalInit PROVE TerminalInv
  OBVIOUS
<1>1. PICK g \in ServerScreens : frame = FrameOf(BlankGrid(g.cols, g.rows, <<0, 0>>))
  BY DEF TerminalInit
<1>2. /\ frame \in FramesOf(g.cols, g.rows) /\ g.cols \in Nat /\ g.rows \in Nat
      /\ Pos(g.cols, g.rows) \subseteq Positions
      /\ frame.cells = [p \in Pos(g.cols, g.rows) |-> Blank]
      /\ frame.cols = g.cols /\ frame.rows = g.rows
  BY <1>1, ScreenParts, FrameParts
<1>3. marks \in MarkSets /\ marks.clear = FALSE
  BY <1>2 DEF TerminalInit, MarkSets
<1>4. TerminalTypes
  <2>1. unconfirmed \in Seq(EntriesOf(frame.cols, frame.rows))
    BY DEF TerminalInit
  <2>2. /\ echoOn \in BOOLEAN /\ reconnecting \in BOOLEAN /\ overlay \in BOOLEAN
        /\ doubled \in BOOLEAN
        /\ inputSeq \in Nat /\ frameSeq \in Nat /\ ackSeq \in Nat
        /\ console \in Consoles
    BY ClearedType DEF TerminalInit
  <2> QED BY <1>2, <1>3, <2>1, <2>2 DEF TerminalTypes
<1>5. BannerInLastRow
  <2>1. Blank # "banner"
    BY TerminalAssumption, GridAssumption
  <2> QED BY <2>1, ClearedType DEF TerminalInit, BannerInLastRow
<1>6. UndoRestores
  BY DEF TerminalInit, UndoRestores
<1>7. FramesReachConsole
  BY <1>2, ClearedType DEF TerminalInit, FramesReachConsole, Forgotten
<1> QED BY <1>4, <1>5, <1>6, <1>7 DEF TerminalInv

LEMMA FeedStdinStep ==
    ASSUME TerminalInv, NEW buf \in Buffers, FeedStdin(buf) PROVE TerminalInv'
<1>1. TerminalTypes /\ UndoRestores
  BY DEF TerminalInv
<1>2. inputSeq' \in Nat /\ frameSeq' \in Nat /\ ackSeq' \in Nat /\ echoOn' = echoOn
  BY <1>1 DEF FeedStdin, NumberInput, TerminalTypes
<1>3. CASE UNCHANGED <<frame, unconfirmed, base, doubled, paintVars, reconnecting, overlay>>
  <2>1. UndoRestores'
    BY <1>1, <1>3 DEF UndoRestores, Echo
  <2>2. TerminalTypes'
    BY <1>1, <1>2, <1>3 DEF TerminalTypes, paintVars
  <2>3. BannerInLastRow'
    BY <1>3 DEF TerminalInv, BannerInLastRow, paintVars
  <2>4. FramesReachConsole'
    BY <1>3 DEF TerminalInv, FramesReachConsole, Forgotten, paintVars
  <2> QED BY <2>1, <2>2, <2>3, <2>4 DEF TerminalInv
<1>4. CASE /\ SetEcho(ApplyKeystrokes(Echo, buf, inputSeq + 1))
           /\ base' = IF unconfirmed = <<>> THEN frame ELSE base
           /\ doubled' = (unconfirmed # <<>> /\ doubled)
           /\ UNCHANGED <<reconnecting, overlay>>
           /\ Paint(marks)
           /\ Excuse(Differ(frame, frame'))
  <2> DEFINE new == ApplyKeystrokes(Echo, buf, inputSeq + 1)
  <2>1. new \in EchoesOf(frame.cols, frame.rows) /\ Undone(new) = Undone(Echo)
    <3>1. inputSeq + 1 \in Nat
      BY <1>1 DEF TerminalTypes
    <3> QED BY <1>1, <3>1, EchoParts, PredictionOnTop
  <2>2. frame' = new.frame /\ unconfirmed' = new.queue
    BY <1>4 DEF SetEcho
  <2> HIDE DEF new
  <2>3. /\ frame' \in FramesOf(frame.cols, frame.rows)
        /\ unconfirmed' \in Seq(EntriesOf(frame.cols, frame.rows))
        /\ Echo' = new
    BY <2>1, <2>2 DEF EchoesOf, Echo
  <2>4. UndoRestores'
    <3>1. Undone(Echo)' = Undone(Echo)
      BY <2>1, <2>3 DEF Undone
    <3>2. CASE unconfirmed = <<>>
      BY <1>1, <1>4, <3>1, <3>2, EchoParts DEF UndoRestores
    <3>3. CASE unconfirmed # <<>>
      BY <1>1, <1>4, <3>1, <3>3 DEF UndoRestores, TerminalTypes
    <3> QED BY <3>2, <3>3
  <2>5. /\ console' \in Consoles /\ marks' \in MarkSets /\ marks'.clear = FALSE
        /\ BannerInLastRow' /\ FramesReachConsole'
    BY <1>1, <1>4, <2>3, MoreMarksTrivial, SameSizePaint
  <2>6. TerminalTypes'
    <3>1. doubled' \in BOOLEAN /\ reconnecting' \in BOOLEAN /\ overlay' \in BOOLEAN
      BY <1>1, <1>4 DEF TerminalTypes
    <3>2. echoOn' \in BOOLEAN
      BY <1>1, <1>2 DEF TerminalTypes
    <3> QED BY <1>1, <1>2, <2>3, <2>5, <3>1, <3>2, SameSizeTypes
  <2> QED BY <2>4, <2>5, <2>6 DEF TerminalInv
<1> QED BY <1>3, <1>4 DEF FeedStdin

LEMMA OnWinchStep == TerminalInv /\ OnWinch => TerminalInv'
<1> SUFFICES ASSUME TerminalInv, OnWinch PROVE TerminalInv'
  OBVIOUS
<1>1. TerminalTypes
  BY DEF TerminalInv
<1>2. frame' \in FramesOf(frame.cols, frame.rows) /\ unconfirmed' = <<>> /\ UndoRestores'
  BY <1>1, AbortParts DEF OnWinch
<1>3. /\ console' \in Consoles /\ marks' \in MarkSets /\ marks'.clear = FALSE
      /\ BannerInLastRow' /\ FramesReachConsole'
  <2>1. Paint(Dirty(marks)) /\ Excuse(Differ(frame, frame')) /\ (reconnecting => reconnecting')
    BY DEF OnWinch
  <2> QED BY <1>1, <1>2, <2>1, MoreMarksTrivial, SameSizePaint
<1>4. /\ inputSeq' \in Nat /\ frameSeq' \in Nat /\ ackSeq' \in Nat
      /\ echoOn' \in BOOLEAN /\ reconnecting' \in BOOLEAN /\ overlay' \in BOOLEAN
      /\ doubled' \in BOOLEAN
  BY <1>1 DEF OnWinch, NumberInput, TerminalTypes
<1>5. unconfirmed' \in Seq(EntriesOf(frame.cols, frame.rows))
  BY <1>2
<1>6. TerminalTypes'
  BY <1>1, <1>2, <1>3, <1>4, <1>5, SameSizeTypes
<1> QED BY <1>2, <1>3, <1>6 DEF TerminalInv

LEMMA OnResumeStep == TerminalInv /\ OnResume => TerminalInv'
<1> SUFFICES ASSUME TerminalInv, OnResume PROVE TerminalInv'
  OBVIOUS
<1>1. TerminalTypes
  BY DEF TerminalInv
<1>2. frame' \in FramesOf(frame.cols, frame.rows) /\ unconfirmed' = <<>> /\ UndoRestores'
  BY <1>1, AbortParts DEF OnResume
<1>3. marks' \in MarkSets /\ marks'.clear = FALSE /\ console' \in Consoles
  BY <1>1, ClearedType DEF OnResume, TerminalTypes, Dirty, MarkSets
<1>4. BannerInLastRow'
  <2>1. Blank # "banner"
    BY TerminalAssumption, GridAssumption
  <2> QED BY <2>1, ClearedType DEF OnResume, BannerInLastRow
<1>5. FramesReachConsole'
  BY DEF OnResume, Excuse, FramesReachConsole, Forgotten
<1>6. /\ inputSeq' \in Nat /\ frameSeq' \in Nat /\ ackSeq' \in Nat
      /\ echoOn' \in BOOLEAN /\ reconnecting' \in BOOLEAN /\ overlay' \in BOOLEAN
      /\ doubled' \in BOOLEAN
  BY <1>1 DEF OnResume, NumberInput, TerminalTypes
<1>7. unconfirmed' \in Seq(EntriesOf(frame.cols, frame.rows))
  BY <1>2
<1>8. TerminalTypes'
  BY <1>1, <1>2, <1>3, <1>6, <1>7, SameSizeTypes
<1> QED BY <1>2, <1>4, <1>5, <1>8 DEF TerminalInv

\* The overlay, the banner and the telemetry line: the echo engine rests.
LEMMA LocalPaint ==
    ASSUME TerminalInv, UNCHANGED <<echoVars, seqVars>>, NEW m, MoreMarks(m, marks),
           reconnecting => reconnecting', reconnecting' \in BOOLEAN, overlay' \in BOOLEAN,
           Paint(m), Excuse({})
    PROVE  TerminalInv'
<1>1. TerminalTypes /\ UndoRestores
  BY DEF TerminalInv
<1>2. /\ frame' = frame /\ unconfirmed' = unconfirmed /\ echoOn' = echoOn /\ base' = base
      /\ doubled' = doubled
      /\ inputSeq' = inputSeq /\ frameSeq' = frameSeq /\ ackSeq' = ackSeq
  BY DEF echoVars, seqVars
<1>3. frame' \in FramesOf(frame.cols, frame.rows) /\ Differ(frame, frame') \subseteq {}
  BY <1>1, <1>2 DEF TerminalTypes, Differ
<1>4. /\ console' \in Consoles /\ marks' \in MarkSets /\ marks'.clear = FALSE
      /\ BannerInLastRow' /\ FramesReachConsole'
  BY <1>1, <1>3, SameSizePaint
<1>5. UndoRestores'
  BY <1>1, <1>2 DEF UndoRestores, Echo
<1>6. TerminalTypes'
  BY <1>1, <1>2, <1>4 DEF TerminalTypes
<1> QED BY <1>4, <1>5, <1>6 DEF TerminalInv

LEMMA LocalStep == TerminalInv /\ (ToggleOverlay \/ TickBanner \/ TickTelemetry) => TerminalInv'
<1> SUFFICES ASSUME TerminalInv, ToggleOverlay \/ TickBanner \/ TickTelemetry PROVE TerminalInv'
  OBVIOUS
<1>1. TerminalTypes
  BY DEF TerminalInv
<1>2. MoreMarks(Dirty(marks), marks)
  BY <1>1, MoreMarksTrivial
<1>3. CASE ToggleOverlay
  <2>1. /\ UNCHANGED <<echoVars, seqVars>> /\ (reconnecting => reconnecting')
        /\ reconnecting' \in BOOLEAN /\ overlay' \in BOOLEAN
        /\ Paint(Dirty(marks)) /\ Excuse({})
    BY <1>1, <1>3 DEF ToggleOverlay, TerminalTypes
  <2> QED BY <1>2, <2>1, LocalPaint
<1>4. CASE TickBanner
  <2>1. /\ UNCHANGED <<echoVars, seqVars>> /\ (reconnecting => reconnecting')
        /\ reconnecting' \in BOOLEAN /\ overlay' \in BOOLEAN
        /\ Paint(Dirty(marks)) /\ Excuse({})
    BY <1>1, <1>4 DEF TickBanner, TerminalTypes
  <2> QED BY <1>2, <2>1, LocalPaint
<1>5. CASE TickTelemetry
  <2>1. PICK m \in Telemetry(marks) : Paint(m)
    BY <1>5 DEF TickTelemetry
  <2>2. MoreMarks(m, marks)
    <3>1. marks \in MarkSets /\ marks.clear = FALSE
      BY <1>1 DEF TerminalTypes
    <3> QED BY <3>1, TelemetryMarks DEF MoreMarks
  <2>3. /\ UNCHANGED <<echoVars, seqVars>> /\ (reconnecting => reconnecting')
        /\ reconnecting' \in BOOLEAN /\ overlay' \in BOOLEAN
        /\ Excuse({})
    BY <1>1, <1>5 DEF TickTelemetry, TerminalTypes
  <2> QED BY <2>1, <2>2, <2>3, LocalPaint
<1> QED BY <1>3, <1>4, <1>5

-----------------------------------------------------------------------------
\* set_reconnecting(false) marks the row of the banner.
LEMMA ReceivedMarks ==
    ASSUME TerminalTypes, NEW m \in Telemetry(MarksReceived)
    PROVE  /\ MoreMarks(m, marks)
           /\ reconnecting => m.dirty /\ frame.rows - 1 \in m.rows
<1>1. marks \in MarkSets /\ marks.clear = FALSE /\ frame.rows - 1 \in Int
  BY DEF TerminalTypes
<1>2. MoreMarks(MarksReceived, marks)
      /\ (reconnecting => MarksReceived.dirty /\ frame.rows - 1 \in MarksReceived.rows)
  <2>1. CASE reconnecting
    <3>1. MarksReceived = [marks EXCEPT !.dirty = TRUE, !.rows = @ \cup {frame.rows - 1}]
      BY <2>1 DEF MarksReceived, BannerOff
    <3> QED BY <1>1, <3>1 DEF MoreMarks, MarkSets
  <2>2. CASE ~reconnecting
    BY <1>1, <2>2 DEF MarksReceived, MoreMarks
  <2> QED BY <2>1, <2>2
<1>3. MarksReceived \in MarkSets
  BY <1>2 DEF MoreMarks
<1>4. /\ m \in MarkSets /\ m.clear = MarksReceived.clear
      /\ (MarksReceived.dirty => m.dirty) /\ m.rows = MarksReceived.rows
  BY <1>3, TelemetryMarks
<1> QED BY <1>2, <1>4 DEF MoreMarks

LEMMA OnlyAcknowledgeStep ==
    ASSUME TerminalInv, NEW ack, OnlyAcknowledge(ack), MoreMarks(marks', marks),
           reconnecting => reconnecting' \/ (marks'.dirty /\ frame.rows - 1 \in marks'.rows),
           reconnecting' \in BOOLEAN, overlay' \in BOOLEAN,
           inputSeq' \in Nat, frameSeq' \in Nat, ackSeq' \in Nat
    PROVE  TerminalInv'
<1>1. TerminalTypes
  BY DEF TerminalInv
<1>2. frame' = Acknowledged(ack).frame /\ unconfirmed' = Acknowledged(ack).queue
  BY DEF OnlyAcknowledge, SetEcho
<1>3. /\ frame' \in FramesOf(frame.cols, frame.rows)
      /\ unconfirmed' \in Seq(EntriesOf(frame.cols, frame.rows))
      /\ Survivors(unconfirmed, ack) = <<>> => unconfirmed' = <<>>
  BY <1>1, <1>2, AcknowledgedParts DEF EchoesOf
<1>4. UndoRestores'
  BY <1>3 DEF OnlyAcknowledge, UndoRestores
<1>5. BannerInLastRow' /\ FramesReachConsole'
  <2>1. console' = console /\ Excuse(Differ(frame, frame'))
    BY DEF OnlyAcknowledge
  <2> QED BY <1>3, <2>1, SameSizeMarks
<1>6. TerminalTypes'
  <2>1. console' \in Consoles /\ echoOn' \in BOOLEAN /\ doubled' \in BOOLEAN
    BY <1>1 DEF OnlyAcknowledge, TerminalTypes
  <2>2. marks' \in MarkSets /\ marks'.clear = FALSE
    BY DEF MoreMarks
  <2> QED BY <1>1, <1>3, <2>1, <2>2, SameSizeTypes
<1> QED BY <1>4, <1>5, <1>6 DEF TerminalInv

LEMMA NewerPacketTypes ==
    ASSUME TerminalTypes, NEW seq \in 1..MaxFrame, NEW ack \in ackSeq..inputSeq,
           NewerPacket(seq, ack)
    PROVE  /\ inputSeq' \in Nat /\ frameSeq' \in Nat /\ ackSeq' \in Nat
           /\ reconnecting' = FALSE /\ overlay' \in BOOLEAN
BY TerminalAssumption DEF TerminalTypes, NewerPacket

LEMMA FeedKeepAliveStep ==
    ASSUME TerminalInv, NEW seq \in 1..MaxFrame, NEW ack \in ackSeq..inputSeq,
           FeedKeepAlive(seq, ack)
    PROVE  TerminalInv'
<1>1. TerminalTypes
  BY DEF TerminalInv
<1>2. /\ inputSeq' \in Nat /\ frameSeq' \in Nat /\ ackSeq' \in Nat
      /\ reconnecting' \in BOOLEAN /\ overlay' \in BOOLEAN
  BY <1>1, NewerPacketTypes DEF FeedKeepAlive
<1>3. /\ MoreMarks(marks', marks)
      /\ reconnecting => marks'.dirty /\ frame.rows - 1 \in marks'.rows
  BY <1>1, ReceivedMarks DEF FeedKeepAlive
<1>4. OnlyAcknowledge(ack)
  BY DEF FeedKeepAlive
<1> QED BY <1>2, <1>3, <1>4, OnlyAcknowledgeStep

LEMMA FeedStaleStep ==
    ASSUME TerminalInv, NEW ack, FeedStale(ack) PROVE TerminalInv'
<1>1. TerminalTypes /\ marks \in MarkSets /\ marks.clear = FALSE
  BY DEF TerminalInv, TerminalTypes
<1>2. /\ inputSeq' \in Nat /\ frameSeq' \in Nat /\ ackSeq' \in Nat
      /\ reconnecting' \in BOOLEAN /\ overlay' \in BOOLEAN /\ reconnecting' = reconnecting
  BY <1>1 DEF FeedStale, seqVars, TerminalTypes
<1>3. MoreMarks(marks', marks)
  BY <1>1, TelemetryMarks DEF FeedStale, MoreMarks
<1>4. OnlyAcknowledge(ack)
  BY DEF FeedStale
<1> QED BY <1>2, <1>3, <1>4, OnlyAcknowledgeStep

-----------------------------------------------------------------------------
\* update_from_grid_state: a row is marked if a cell of it changes; after a
\* change of size all are, or the screen is blank.
Resized(f, g) == f.cols # g.cols \/ f.rows # g.rows

MarksCover(after, m, f, g) ==
    /\ after \in MarkSets /\ (after.clear <=> Resized(f, g))
    /\ m.dirty => after.dirty
    /\ ~Resized(f, g) => m.rows \subseteq after.rows
    /\ \A p \in Pos(g.cols, g.rows) :
          \/ after.dirty /\ p[1] \in after.rows
          \/ g.cells[p] = IF Resized(f, g) THEN Blank ELSE f.cells[p]

LEMMA MarksAfterCover ==
    ASSUME NEW m \in MarkSets, m.clear = FALSE, NEW g \in ServerScreens,
           NEW c \in Nat, NEW r \in Nat, NEW f \in FramesOf(c, r)
    PROVE  MarksCover(MarksAfter(m, f, g), m, f, g)
<1> DEFINE after == MarksAfter(m, f, g)
           resized == Resized(f, g)
           from == IF resized THEN BlankGrid(g.cols, g.rows, f.cursor) ELSE f
           changed == ChangedRows(from, g)
<1>1. f.cols = c /\ f.rows = r /\ g.rows \in Nat /\ DOMAIN g.cells = Pos(g.cols, g.rows)
  <2>1. f.cols = c /\ f.rows = r
    BY FrameParts
  <2>2. g.rows \in Nat /\ DOMAIN g.cells = Pos(g.cols, g.rows)
    BY ScreenParts
  <2> QED BY <2>1, <2>2
<1>2. after = [dirty |-> m.dirty \/ changed # {} \/ f.cursor # g.cursor,
               rows  |-> IF resized THEN 0..(g.rows - 1) ELSE m.rows \cup changed,
               clear |-> m.clear \/ resized]
  BY DEF MarksAfter, Resized
<1>3. changed \subseteq Int /\ m.rows \subseteq Int /\ m.dirty \in BOOLEAN
  BY <1>1 DEF ChangedRows, MarkSets
<1>4. \A p \in Pos(g.cols, g.rows) :
         from.cells[p] = IF resized THEN Blank ELSE f.cells[p]
  BY DEF BlankGrid
<1>5. \A p \in Pos(g.cols, g.rows) : p[1] \in 0..(g.rows - 1)
  BY DEF Pos
<1>6. \A p \in Pos(g.cols, g.rows) : from.cells[p] # g.cells[p] => p[1] \in changed
  BY <1>1, <1>5 DEF ChangedRows
<1> HIDE DEF after, resized, from, changed
<1>7. after \in MarkSets
  <2>1. (IF resized THEN 0..(g.rows - 1) ELSE m.rows \cup changed) \in SUBSET Int
    <3>1. 0..(g.rows - 1) \subseteq Int
      OBVIOUS
    <3>2. m.rows \cup changed \subseteq Int
      BY <1>3
    <3> QED BY <3>1, <3>2
  <2>2. /\ (m.dirty \/ changed # {} \/ f.cursor # g.cursor) \in BOOLEAN
        /\ (m.clear \/ resized) \in BOOLEAN
    OBVIOUS
  <2> QED BY <1>2, <2>1, <2>2 DEF MarkSets
<1>8. /\ after.clear <=> resized
      /\ m.dirty => after.dirty
      /\ changed # {} => after.dirty
      /\ after.rows = IF resized THEN 0..(g.rows - 1) ELSE m.rows \cup changed
  <2>1. /\ after.clear = (m.clear \/ resized)
        /\ after.dirty = (m.dirty \/ changed # {} \/ f.cursor # g.cursor)
        /\ after.rows = IF resized THEN 0..(g.rows - 1) ELSE m.rows \cup changed
    BY <1>2
  <2> QED BY <2>1
<1>9. ASSUME NEW p \in Pos(g.cols, g.rows), from.cells[p] # g.cells[p]
      PROVE  after.dirty /\ p[1] \in after.rows
  BY <1>5, <1>6, <1>8, <1>9
<1>10. \A p \in Pos(g.cols, g.rows) :
                     \/ after.dirty /\ p[1] \in after.rows
                     \/ g.cells[p] = IF resized THEN Blank ELSE f.cells[p]
  BY <1>4, <1>9
<1> QED BY <1>7, <1>8, <1>10 DEF MarksCover, after, resized

\* Whatever predictions are left, undoing them gives the frame back.
LEMMA ReconcileScreen ==
    ASSUME NEW g \in ServerScreens, NEW c2, NEW r2, NEW q \in Seq(EntriesOf(c2, r2)), NEW ack
    PROVE  /\ Reconcile([frame |-> FrameOf(g), queue |-> q], ack) \in EchoesOf(g.cols, g.rows)
           /\ Undone(Reconcile([frame |-> FrameOf(g), queue |-> q], ack)) = FrameOf(g)
<1> DEFINE f == FrameOf(g)
           e == Reconcile([frame |-> f, queue |-> q], ack)
           c == g.cols
           r == g.rows
<1>1. f \in FramesOf(c, r) /\ c \in Nat /\ r \in Nat
  BY ScreenParts
<1>2. e = Reconcile([frame |-> f, queue |-> q], ack)
  OBVIOUS
<1> HIDE DEF f, e, c, r
<1>3. e \in EchoesOf(c, r) /\ Undone(e) = f
  BY <1>1, <1>2, ReconcileUndone
<1> QED BY <1>3 DEF f, e, c, r

LEMMA FeedFrameStep ==
    ASSUME TerminalInv, NEW g \in ServerScreens, NEW seq \in 1..MaxFrame,
           NEW ack \in ackSeq..inputSeq, NEW recommended \in BOOLEAN,
           FeedFrame(g, seq, ack, recommended)
    PROVE  TerminalInv'
<1> DEFINE gc == g.cols
           gr == g.rows
           acked == Acknowledged(ack)
           onTop == Reconcile([frame |-> FrameOf(g), queue |-> acked.queue], seq)
           resized == frame.cols # gc \/ frame.rows # gr
           touched == Differ(frame, acked.frame) \cup Differ(onTop.frame, g)
<1>1. TerminalTypes
  BY DEF TerminalInv
<1>2. /\ gc \in Nat /\ gr \in Nat /\ FrameOf(g) \in FramesOf(gc, gr)
      /\ FrameOf(g).cells = g.cells /\ Pos(gc, gr) \subseteq Positions
      /\ DOMAIN g.cells = Pos(gc, gr)
  BY ScreenParts
<1>3. /\ acked.frame \in FramesOf(frame.cols, frame.rows)
      /\ acked.queue \in Seq(EntriesOf(frame.cols, frame.rows))
  BY <1>1, AcknowledgedParts DEF EchoesOf
<1> HIDE DEF acked
<1>4. onTop \in EchoesOf(gc, gr) /\ Undone(onTop) = FrameOf(g)
  <2>1. PICK q, n, cols, rows : /\ q = acked.queue /\ n = seq
                                /\ cols = frame.cols /\ rows = frame.rows
    OBVIOUS
  <2>2. q \in Seq(EntriesOf(cols, rows))
    BY <1>3, <2>1
  <2>3. /\ Reconcile([frame |-> FrameOf(g), queue |-> q], n) \in EchoesOf(gc, gr)
        /\ Undone(Reconcile([frame |-> FrameOf(g), queue |-> q], n)) = FrameOf(g)
    BY <2>2, ReconcileScreen
  <2> QED BY <2>1, <2>3
<1> HIDE DEF onTop
<1>5. /\ NewerPacket(seq, ack) /\ echoOn' = recommended
      /\ base' = FrameOf(g) /\ doubled' = FALSE
      /\ IF recommended THEN SetEcho(onTop)
                        ELSE SetEcho([frame |-> Undone(onTop), queue |-> <<>>])
      /\ \E m \in Telemetry(MarksReceived) : Paint(MarksAfter(m, acked.frame, g))
      /\ Excuse(touched)
  BY DEF FeedFrame, onTop, acked
<1>6. /\ frame' \in FramesOf(gc, gr) /\ unconfirmed' \in Seq(EntriesOf(gc, gr))
      /\ frame' = onTop.frame \/ frame' = FrameOf(g)
      /\ UndoRestores'
  <2>1. CASE recommended
    <3>1. frame' = onTop.frame /\ unconfirmed' = onTop.queue
      BY <1>5, <2>1 DEF SetEcho
    <3>2. Echo' = onTop
      BY <1>4, <3>1 DEF Echo, EchoesOf
    <3>3. Undone(Echo)' = FrameOf(g)
      BY <1>4, <3>2 DEF Undone
    <3> QED BY <1>4, <1>5, <3>1, <3>3 DEF UndoRestores, EchoesOf
  <2>2. CASE ~recommended
    <3>1. frame' = FrameOf(g) /\ unconfirmed' = <<>>
      BY <1>4, <1>5, <2>2 DEF SetEcho
    <3> QED BY <1>2, <3>1 DEF UndoRestores
  <2> QED BY <2>1, <2>2
<1>7. PICK m0 \in Telemetry(MarksReceived) : Paint(MarksAfter(m0, acked.frame, g))
  BY <1>5
<1> DEFINE m == MarksAfter(m0, acked.frame, g)
<1>8. /\ m0 \in MarkSets /\ m0.clear = FALSE /\ (marks.dirty => m0.dirty)
      /\ marks.rows \subseteq m0.rows
      /\ reconnecting => m0.dirty /\ frame.rows - 1 \in m0.rows
  BY <1>1, ReceivedMarks DEF MoreMarks
<1>9. /\ m \in MarkSets /\ (m.clear <=> resized)
      /\ m0.dirty => m.dirty
      /\ ~resized => m0.rows \subseteq m.rows
      /\ \A p \in Pos(gc, gr) :
            \/ m.dirty /\ p[1] \in m.rows
            \/ g.cells[p] = IF resized THEN Blank ELSE acked.frame.cells[p]
  <2>1. frame.cols \in Nat /\ frame.rows \in Nat
    BY <1>1 DEF TerminalTypes
  <2>2. PICK f, cols, rows : f = acked.frame /\ cols = frame.cols /\ rows = frame.rows
    OBVIOUS
  <2>3. f \in FramesOf(cols, rows) /\ cols \in Nat /\ rows \in Nat
    BY <1>3, <2>1, <2>2
  <2>4. m0 \in MarkSets /\ m0.clear = FALSE
    BY <1>8
  <2>5. MarksCover(MarksAfter(m0, f, g), m0, f, g)
    BY <2>3, <2>4, MarksAfterCover
  <2>6. MarksCover(m, m0, f, g) /\ (Resized(f, g) <=> resized)
    <3>1. f.cols = cols /\ f.rows = rows
      BY <2>3, FrameParts
    <3> QED BY <2>2, <2>5, <3>1 DEF Resized
  <2> HIDE DEF m, resized
  <2> QED BY <2>2, <2>6 DEF MarksCover
<1>10. Paint(m)
  BY <1>7
<1> HIDE DEF m
<1>11. console \in Consoles /\ frame \in FramesOf(frame.cols, frame.rows)
  BY <1>1 DEF TerminalTypes
<1>12. Before(m) = IF resized THEN Cleared ELSE console
  BY <1>9 DEF Before
<1>13. ASSUME NEW p \in Positions, p \in Paintable(gc, gr), p \notin excused \cup touched
       PROVE  \/ Before(m)[p] \in {"banner", "overlay", frame'.cells[p]}
              \/ m.dirty /\ p[1] \in m.rows
  <2>1. p \in Pos(gc, gr)
    BY <1>13 DEF Paintable
  <2>2. frame'.cells[p] = g.cells[p]
    <3>1. DOMAIN onTop.frame.cells = Pos(gc, gr)
      BY <1>4, FrameParts DEF EchoesOf
    <3>2. onTop.frame.cells[p] = g.cells[p]
      BY <1>2, <1>13, <2>1, <3>1 DEF Differ
    <3> QED BY <1>2, <1>6, <3>2
  <2>3. CASE resized
    <3>1. Before(m)[p] = Blank
      BY <1>12, <2>3, ClearedType
    <3> QED BY <1>9, <2>1, <2>2, <2>3, <3>1
  <2>4. CASE ~resized
    <3>1. DOMAIN frame.cells = Pos(gc, gr) /\ DOMAIN acked.frame.cells = Pos(gc, gr)
      BY <1>3, <1>11, <2>4, FrameParts
    <3>2. acked.frame.cells[p] = frame.cells[p]
      BY <1>13, <2>1, <3>1 DEF Differ
    <3>3. \/ console[p] \in {"banner", "overlay", frame.cells[p]}
          \/ marks.dirty /\ p[1] \in marks.rows
      BY <1>1, <1>13, <2>4, ShownBefore DEF TerminalInv
    <3>4. \/ m.dirty /\ p[1] \in m.rows
          \/ g.cells[p] = acked.frame.cells[p]
      BY <1>9, <2>1, <2>4
    <3> QED BY <1>8, <1>9, <1>12, <2>2, <2>4, <3>2, <3>3, <3>4
  <2> QED BY <2>3, <2>4
<1>14. ASSUME NEW p \in Positions, Before(m)[p] = "banner"
       PROVE  /\ p \in Paintable(gc, gr) /\ p[1] = gr - 1
              /\ reconnecting' \/ (m.dirty /\ p[1] \in m.rows)
  <2>1. CASE resized
    <3>1. Before(m)[p] = Blank
      BY <1>12, <2>1, ClearedType
    <3> QED BY <1>14, <3>1, TerminalAssumption, GridAssumption
  <2>2. CASE ~resized
    <3>1. console[p] = "banner"
      BY <1>12, <1>14, <2>2
    <3>2. /\ p \in Paintable(gc, gr) /\ p[1] = gr - 1
          /\ reconnecting \/ (marks.dirty /\ p[1] \in marks.rows)
      BY <2>2, <3>1 DEF TerminalInv, BannerInLastRow
    <3> QED BY <1>8, <1>9, <2>2, <3>2
  <2> QED BY <2>1, <2>2
<1>15. /\ console' \in Consoles /\ marks' \in MarkSets /\ marks'.clear = FALSE
  BY <1>2, <1>6, <1>9, <1>10, <1>11, PaintTypes
<1> HIDE DEF gc, gr, touched
<1>16. BannerInLastRow'
  BY <1>2, <1>6, <1>9, <1>10, <1>11, <1>14, PaintBanner
<1>17. FramesReachConsole'
  BY <1>2, <1>5, <1>6, <1>9, <1>10, <1>11, <1>13, PaintReaches
<1>18. TerminalTypes'
  <2>1. frame'.cols = gc /\ frame'.rows = gr
    BY <1>6, FrameParts
  <2>2. /\ inputSeq' \in Nat /\ frameSeq' \in Nat /\ ackSeq' \in Nat
        /\ reconnecting' \in BOOLEAN /\ overlay' \in BOOLEAN
        /\ echoOn' \in BOOLEAN /\ doubled' \in BOOLEAN
    BY <1>1, <1>5, NewerPacketTypes
  <2> QED BY <1>2, <1>6, <1>15, <2>1, <2>2 DEF TerminalTypes
<1> QED BY <1>6, <1>16, <1>17, <1>18 DEF TerminalInv

-----------------------------------------------------------------------------
LEMMA TerminalInvStep == TerminalInv /\ [TerminalNext]_vars => TerminalInv'
<1> SUFFICES ASSUME TerminalInv, [TerminalNext]_vars PROVE TerminalInv'
  OBVIOUS
<1>1. ASSUME NEW buf \in Buffers, FeedStdin(buf) PROVE TerminalInv'
  BY <1>1, FeedStdinStep
<1>2. CASE OnWinch
  BY <1>2, OnWinchStep
<1>3. CASE OnResume
  BY <1>3, OnResumeStep
<1>4. CASE ToggleOverlay \/ TickBanner \/ TickTelemetry
  BY <1>4, LocalStep
<1>5. ASSUME NEW seq \in 1..MaxFrame, NEW ack \in ackSeq..inputSeq, NEW g \in ServerScreens,
             NEW recommended \in BOOLEAN, FeedFrame(g, seq, ack, recommended)
      PROVE  TerminalInv'
  BY <1>5, FeedFrameStep
<1>6. ASSUME NEW seq \in 1..MaxFrame, NEW ack \in ackSeq..inputSeq, FeedKeepAlive(seq, ack)
      PROVE  TerminalInv'
  BY <1>6, FeedKeepAliveStep
<1>7. ASSUME NEW ack \in 0..ackSeq, FeedStale(ack) PROVE TerminalInv'
  BY <1>7, FeedStaleStep
<1>8. CASE UNCHANGED vars
  <2>1. /\ UNCHANGED <<frame, unconfirmed, echoOn, marks, reconnecting, overlay, inputSeq>>
        /\ UNCHANGED <<frameSeq, ackSeq, console, base, doubled, excused>>
    BY <1>8 DEF vars, echoVars, paintVars, seqVars
  <2>2. TerminalTypes'
    BY <2>1 DEF TerminalInv, TerminalTypes
  <2>3. BannerInLastRow'
    BY <2>1 DEF TerminalInv, BannerInLastRow
  <2>4. UndoRestores'
    BY <2>1 DEF TerminalInv, UndoRestores, Echo
  <2>5. FramesReachConsole'
    BY <2>1 DEF TerminalInv, FramesReachConsole, Forgotten
  <2> QED BY <2>2, <2>3, <2>4, <2>5 DEF TerminalInv
<1> QED BY <1>1, <1>2, <1>3, <1>4, <1>5, <1>6, <1>7, <1>8 DEF TerminalNext

(***************************************************************************)
(* Type correctness: the copy always has the size of a screen the server    *)
(* may send, every remembered cell lies in it, and no clear is pending      *)
(* between two events.                                                      *)
(***************************************************************************)
THEOREM TerminalTypesHold == TerminalSpec => []TerminalTypes
<1>1. TerminalInv => TerminalTypes
  BY DEF TerminalInv
<1> QED BY <1>1, TerminalInvInit, TerminalInvStep, PTL DEF TerminalSpec

(***************************************************************************)
(* abort gives back exactly the screen that the predictions were put on     *)
(* (echo.rs): for every screen, every sequence of typed buffers and every   *)
(* interleaving with frames and acknowledgements.                           *)
(***************************************************************************)
THEOREM AbortRestores == TerminalSpec => []UndoRestores
<1>1. TerminalInv => UndoRestores
  BY DEF TerminalInv
<1> QED BY <1>1, TerminalInvInit, TerminalInvStep, PTL DEF TerminalSpec

(***************************************************************************)
(* The banner of set_reconnecting does not survive the packet that ends the *)
(* silence, unless its row is due to be painted.                            *)
(***************************************************************************)
THEOREM BannerIsErased == TerminalSpec => []BannerErased
<1>1. TerminalInv => BannerErased
  BY DEF TerminalInv, BannerInLastRow, BannerErased
<1> QED BY <1>1, TerminalInvInit, TerminalInvStep, PTL DEF TerminalSpec

(***************************************************************************)
(* Every cell that a frame changes is painted or marked, whatever comes in  *)
(* between (update_from_grid_state, paint).                                 *)
(***************************************************************************)
THEOREM FramesArePainted == TerminalSpec => []FramesReachConsole
<1>1. TerminalInv => FramesReachConsole
  BY DEF TerminalInv
<1> QED BY <1>1, TerminalInvInit, TerminalInvStep, PTL DEF TerminalSpec

=============================================================================

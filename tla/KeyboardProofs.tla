--------------------------- MODULE KeyboardProofs ---------------------------
(***************************************************************************)
(* Proofs about the keys: none is lost between the two readers of the       *)
(* terminal, and only escape sequences are kept from the server, for        *)
(* however many keys and however they are cut into buffers.                 *)
(***************************************************************************)
EXTENDS Keyboard, Integers, FiniteSetTheorems, SequenceTheorems, WellFoundedInduction, TLAPS

(***************************************************************************)
(* Induction over the naturals, for a set instead of a predicate.           *)
(***************************************************************************)
LEMMA SetInduction ==
    ASSUME NEW S, 0 \in S, \A n \in Nat : n \in S => n + 1 \in S
    PROVE  \A n \in Nat : n \in S
<1> DEFINE T == {n \in Nat : n \notin S}
           R == {ss \in Nat \X Nat : ss[1] < ss[2]}
<1> SUFFICES ASSUME T # {} PROVE FALSE
  OBVIOUS
<1>1. IsWellFoundedOn(R, Nat)
  BY NatLessThanWellFounded, Zenon DEF OpToRel
<1>2. T \subseteq Nat
  OBVIOUS
<1> HIDE DEF T, R
<1>3. PICK x \in T : \A y \in T : ~(<<y, x>> \in R)
  BY <1>1, <1>2, WFMin, Zenon
<1>4. x \in Nat /\ x \notin S /\ x # 0
  BY <1>3 DEF T
<1>5. x - 1 \in Nat /\ (x - 1) + 1 = x /\ x - 1 < x
  BY <1>4
<1>6. x - 1 \notin S
  BY <1>4, <1>5
<1>7. x - 1 \in T
  BY <1>5, <1>6 DEF T
<1>8. <<x - 1, x>> \in R
  BY <1>4, <1>5 DEF R
<1> QED BY <1>3, <1>7, <1>8

(***************************************************************************)
(* A function defined by recursion on its argument exists, for steps (a     *)
(* function G of index and value) that stay in a set V.                     *)
(***************************************************************************)
Steps(f, n, v0, G) == f[0] = v0 /\ \A i \in 1..n : f[i] = G[<<i, f[i-1]>>]

\* A recursion of n steps has a solution that stays in V.
LEMMA RecursionExists ==
    ASSUME NEW n \in Nat, NEW V, NEW v0 \in V, NEW G \in [(1..n) \X V -> V]
    PROVE  \E f \in [0..n -> V] : Steps(f, n, v0, G)
<1> DEFINE Ok(k) == \E f \in [0..k -> V] : Steps(f, k, v0, G)
           S == {k \in Nat : k <= n => Ok(k)}
<1>1. Ok(0)
  <2> DEFINE f == [i \in 0..0 |-> v0]
  <2>1. f \in [0..0 -> V] /\ f[0] = v0
    OBVIOUS
  <2> HIDE DEF f
  <2> QED BY <2>1 DEF Steps
<1>2. ASSUME NEW k \in Nat, Ok(k), k + 1 <= n PROVE Ok(k + 1)
  <2>1. PICK f \in [0..k -> V] : Steps(f, k, v0, G)
    BY <1>2
  <2>2. k + 1 \in 1..n /\ f[k] \in V
    BY <1>2
  <2>3. G[<<k + 1, f[k]>>] \in V
    BY <2>2
  <2> DEFINE h == [i \in 0..(k + 1) |-> IF i = k + 1 THEN G[<<k + 1, f[k]>>] ELSE f[i]]
  <2>4. h \in [0..(k + 1) -> V]
    BY <2>3
  <2>5. h[k + 1] = G[<<k + 1, f[k]>>] /\ \A i \in 0..k : h[i] = f[i]
    OBVIOUS
  <2> HIDE DEF h
  <2>6. Steps(h, k + 1, v0, G)
    <3>1. h[0] = v0
      BY <2>1, <2>5 DEF Steps
    <3>2. ASSUME NEW i \in 1..(k + 1) PROVE h[i] = G[<<i, h[i-1]>>]
      <4>1. CASE i = k + 1
        BY <2>5, <4>1
      <4>2. CASE i # k + 1
        <5>1. i \in 1..k /\ i \in 0..k /\ i - 1 \in 0..k
          BY <4>2
        <5>2. f[i] = G[<<i, f[i-1]>>]
          BY <2>1, <5>1 DEF Steps
        <5> QED BY <2>5, <5>1, <5>2
      <4> QED BY <4>1, <4>2
    <3> QED BY <3>1, <3>2 DEF Steps
  <2> QED BY <2>4, <2>6
<1> HIDE DEF Ok
<1>3. 0 \in S
  BY <1>1
<1>4. \A k \in Nat : k \in S => k + 1 \in S
  BY <1>2
<1> HIDE DEF S
<1>5. n \in S
  BY <1>3, <1>4, SetInduction
<1>6. Ok(n)
  BY <1>5 DEF S
<1> QED BY <1>6 DEF Ok

-----------------------------------------------------------------------------
(***************************************************************************)
(* FlattenSeq, as the values after each element.                            *)
(***************************************************************************)
FlatRun(run, S, s) ==
    /\ run \in [0..Len(s) -> Seq(S)] /\ run[0] = <<>>
    /\ \A i \in 1..Len(s) : run[i] = run[i-1] \o s[i]
    /\ FlattenSeq(s) = run[Len(s)]

\* FlattenSeq is the last of its partial concatenations.
LEMMA FlatRunExists ==
    ASSUME NEW S, NEW s \in Seq(Seq(S))
    PROVE  \E run : FlatRun(run, S, s)
<1> DEFINE n == Len(s)
           V == Seq(S)
           G == [iv \in (1..n) \X V |-> iv[2] \o s[iv[1]]]
<1>1. n \in Nat /\ \A i \in 1..n : s[i] \in V
  OBVIOUS
<1> HIDE DEF n
<1>2. <<>> \in V
  OBVIOUS
<1>3. G \in [(1..n) \X V -> V]
  BY <1>1
<1>4. \A i \in 1..n : \A v \in V : G[<<i, v>>] = v \o s[i]
  OBVIOUS
<1> HIDE DEF G, V
<1>5. PICK f \in [0..n -> V] : Steps(f, n, <<>>, G)
  BY <1>1, <1>2, <1>3, RecursionExists
<1>6. \A i \in 1..n : f[i] = f[i-1] \o s[i]
  <2> TAKE i \in 1..n
  <2>1. f[i-1] \in V
    BY <1>1
  <2>2. f[i] = G[<<i, f[i-1]>>]
    BY <1>5 DEF Steps
  <2> QED BY <1>4, <2>1, <2>2
<1>7. FlattenSeq(s) = f[n]
  <2>1. CASE n = 0
    <3>1. s = <<>>
      BY <2>1 DEF n
    <3>2. FlattenSeq(s) = <<>>
      BY <3>1 DEF FlattenSeq
    <3> QED BY <1>5, <2>1, <3>2 DEF Steps
  <2>2. CASE n # 0
    <3> DEFINE Def(h) == h = [i \in 1..n |-> IF i = 1 THEN s[i] ELSE h[i-1] \o s[i]]
               h0 == [i \in 1..n |-> f[i]]
               hh == CHOOSE h : Def(h)
    <3>1. Def(h0)
      <4>1. ASSUME NEW i \in 1..n PROVE h0[i] = IF i = 1 THEN s[i] ELSE h0[i-1] \o s[i]
        <5>1. CASE i = 1
          <6>1. f[1] = <<>> \o s[1]
            <7>1. 1 \in 1..n /\ 1 - 1 = 0
              BY <5>1
            <7>2. f[1] = f[1-1] \o s[1] /\ f[0] = <<>>
              BY <1>5, <1>6, <7>1 DEF Steps
            <7> QED BY <7>1, <7>2
          <6>2. s[1] \in Seq(S)
            BY <1>1, <5>1 DEF V
          <6> QED BY <5>1, <6>1, <6>2
        <5>2. CASE i # 1
          <6>1. i - 1 \in 1..n
            BY <1>1, <5>2
          <6> QED BY <1>6, <5>2, <6>1
        <5> QED BY <5>1, <5>2
      <4> QED BY <4>1
    <3>2. Def(hh)
      <4> HIDE DEF Def
      <4> QED BY <3>1
    <3>3. FlattenSeq(s) = hh[n]
      BY <2>2 DEF FlattenSeq, n
    <3> HIDE DEF hh
    <3>4. \A i \in 1..n : hh[i] = IF i = 1 THEN s[i] ELSE hh[i-1] \o s[i]
      BY <3>2
    <3> DEFINE T == {k \in Nat : k \in 1..n => hh[k] = f[k]}
    <3>5. 0 \in T
      OBVIOUS
    <3>6. ASSUME NEW k \in Nat, k \in T PROVE k + 1 \in T
      <4>1. CASE k + 1 \in 1..n /\ k = 0
        <5>1. 1 \in 1..n /\ 1 - 1 = 0
          BY <4>1
        <5>2. hh[1] = s[1] /\ s[1] \in Seq(S)
          BY <1>1, <3>4, <5>1 DEF V
        <5>3. f[1] = f[1-1] \o s[1] /\ f[0] = <<>>
          BY <1>5, <1>6, <5>1 DEF Steps
        <5>4. f[1] = s[1]
          <6>1. f[1] = <<>> \o s[1]
            BY <5>1, <5>3
          <6> QED BY <5>2, <6>1
        <5> QED BY <4>1, <5>2, <5>4
      <4>2. CASE k + 1 \in 1..n /\ k # 0
        <5>1. k \in 1..n /\ (k + 1) - 1 = k /\ k + 1 # 1
          BY <1>1, <4>2
        <5>2. hh[k + 1] = hh[k] \o s[k + 1] /\ f[k + 1] = f[k] \o s[k + 1]
          BY <1>6, <3>4, <4>2, <5>1
        <5>3. hh[k] = f[k]
          BY <3>6, <5>1
        <5>4. hh[k + 1] = f[k + 1]
          BY <5>2, <5>3
        <5> QED BY <5>4
      <4> QED BY <4>1, <4>2
    <3> HIDE DEF T
    <3>7. n \in T
      BY <1>1, <3>5, <3>6, SetInduction
    <3> QED BY <1>1, <2>2, <3>3, <3>7 DEF T
  <2> QED BY <2>1, <2>2
<1>8. FlatRun(f, S, s)
  BY <1>5, <1>6, <1>7 DEF FlatRun, Steps, n, V
<1> QED BY <1>8

\* What FlattenSeq returns, and what one more buffer adds to it.
LEMMA FlattenType ==
    ASSUME NEW S, NEW s \in Seq(Seq(S)) PROVE FlattenSeq(s) \in Seq(S)
<1>1. PICK run : FlatRun(run, S, s)
  BY FlatRunExists
<1>2. Len(s) \in 0..Len(s)
  OBVIOUS
<1> QED BY <1>1, <1>2 DEF FlatRun

LEMMA FlattenAppend ==
    ASSUME NEW S, NEW s \in Seq(Seq(S)), NEW b \in Seq(S)
    PROVE  FlattenSeq(Append(s, b)) = FlattenSeq(s) \o b
<1> DEFINE n == Len(s)
           u == Append(s, b)
<1>1. n \in Nat /\ u \in Seq(Seq(S)) /\ Len(u) = n + 1 /\ u[n + 1] = b
  OBVIOUS
<1>2. \A i \in 1..n : u[i] = s[i]
  OBVIOUS
<1> HIDE DEF u, n
<1>3. PICK f : FlatRun(f, S, s)
  BY FlatRunExists
<1>4. PICK h : FlatRun(h, S, u)
  BY <1>1, FlatRunExists
<1> DEFINE T == {k \in Nat : k <= n => h[k] = f[k]}
<1>5. 0 \in T
  BY <1>3, <1>4 DEF FlatRun
<1>6. ASSUME NEW k \in Nat, k \in T PROVE k + 1 \in T
  <2>1. CASE k + 1 <= n
    <3>1. k + 1 \in 1..n /\ k + 1 \in 1..(n + 1) /\ (k + 1) - 1 = k /\ h[k] = f[k]
      BY <1>1, <1>6, <2>1
    <3>2. h[k + 1] = h[k] \o u[k + 1] /\ f[k + 1] = f[k] \o s[k + 1]
      BY <1>1, <1>3, <1>4, <3>1 DEF FlatRun, n
    <3>3. h[k + 1] = f[k + 1]
      BY <1>2, <3>1, <3>2
    <3> QED BY <3>3
  <2> QED BY <2>1
<1> HIDE DEF T
<1>7. n \in T
  BY <1>1, <1>5, <1>6, SetInduction
<1>8. h[n] = f[n]
  BY <1>1, <1>7 DEF T
<1>9. h[n + 1] = h[n] \o u[n + 1]
  <2>1. n + 1 \in 1..(n + 1) /\ (n + 1) - 1 = n
    BY <1>1
  <2> QED BY <1>1, <1>4, <2>1 DEF FlatRun
<1>10. FlattenSeq(u) = h[n + 1] /\ FlattenSeq(s) = f[n]
  BY <1>1, <1>3, <1>4 DEF FlatRun, n
<1> QED BY <1>1, <1>8, <1>9, <1>10 DEF u

-----------------------------------------------------------------------------
(***************************************************************************)
(* Pick, as the values after each position.                                 *)
(***************************************************************************)
PickRun(run, S, t, keep, n) ==
    /\ run \in [0..n -> Seq(S)] /\ run[0] = <<>>
    /\ \A i \in 1..n : run[i] = IF i \in keep THEN Append(run[i-1], t[i]) ELSE run[i-1]
    /\ Pick(t, keep, n) = run[n]

\* Pick is the last of its values after each position.
LEMMA PickRunExists ==
    ASSUME NEW S, NEW t \in Seq(S), NEW keep, NEW n \in 0..Len(t)
    PROVE  \E run : PickRun(run, S, t, keep, n)
<1> DEFINE V == Seq(S)
           G == [iv \in (1..n) \X V |-> IF iv[1] \in keep THEN Append(iv[2], t[iv[1]]) ELSE iv[2]]
           Def(p) == p = [i \in 0..n |-> IF i = 0 THEN <<>>
                           ELSE IF i \in keep THEN Append(p[i-1], t[i]) ELSE p[i-1]]
           pp == CHOOSE p : Def(p)
<1>1. n \in Nat /\ \A i \in 1..n : t[i] \in S
  OBVIOUS
<1>2. <<>> \in V
  OBVIOUS
<1>3. G \in [(1..n) \X V -> V]
  <2>1. ASSUME NEW i \in 1..n, NEW v \in V PROVE Append(v, t[i]) \in V
    BY <1>1
  <2> HIDE DEF V
  <2> QED BY <2>1
<1>4. \A i \in 1..n : \A v \in V :
         G[<<i, v>>] = IF i \in keep THEN Append(v, t[i]) ELSE v
  <2> HIDE DEF V
  <2> QED OBVIOUS
<1> HIDE DEF G, V
<1>5. PICK f \in [0..n -> V] : Steps(f, n, <<>>, G)
  BY <1>1, <1>2, <1>3, RecursionExists
<1>6. \A i \in 1..n : f[i] = IF i \in keep THEN Append(f[i-1], t[i]) ELSE f[i-1]
  <2> TAKE i \in 1..n
  <2>1. f[i-1] \in V
    BY <1>1
  <2>2. f[i] = G[<<i, f[i-1]>>]
    BY <1>5 DEF Steps
  <2> QED BY <1>4, <2>1, <2>2
<1>7. Def(f)
  <2>1. ASSUME NEW i \in 0..n
        PROVE  f[i] = IF i = 0 THEN <<>>
                      ELSE IF i \in keep THEN Append(f[i-1], t[i]) ELSE f[i-1]
    <3>1. CASE i = 0
      BY <1>5, <3>1 DEF Steps
    <3>2. CASE i # 0
      <4>1. i \in 1..n
        BY <1>1, <3>2
      <4> QED BY <1>6, <3>2, <4>1
    <3> QED BY <3>1, <3>2
  <2> QED BY <2>1
<1>8. Def(pp)
  <2> HIDE DEF Def
  <2> QED BY <1>7
<1>9. Pick(t, keep, n) = pp[n]
  BY DEF Pick
<1> HIDE DEF pp
<1>10. \A i \in 0..n : pp[i] = IF i = 0 THEN <<>>
                      ELSE IF i \in keep THEN Append(pp[i-1], t[i]) ELSE pp[i-1]
  BY <1>8
<1> DEFINE T == {k \in Nat : k <= n => pp[k] = f[k]}
<1>11. 0 \in T
  <2>1. pp[0] = <<>>
    <3> HIDE DEF Def, T
    <3>1. 0 \in 0..n
      BY <1>1
    <3>2. pp[0] = IF 0 = 0 THEN <<>>
                  ELSE IF 0 \in keep THEN Append(pp[0-1], t[0]) ELSE pp[0-1]
      BY <1>10, <3>1, Zenon
    <3> QED BY <3>2
  <2>2. pp[0] = f[0]
    BY <1>5, <2>1 DEF Steps
  <2> QED BY <2>2
<1>12. ASSUME NEW k \in Nat, k \in T PROVE k + 1 \in T
  <2>1. CASE k + 1 <= n
    <3>1. k + 1 \in 1..n /\ k + 1 \in 0..n /\ (k + 1) - 1 = k /\ k + 1 # 0 /\ pp[k] = f[k]
      BY <1>1, <1>12, <2>1
    <3>2. pp[k + 1] = IF k + 1 \in keep THEN Append(pp[k], t[k + 1]) ELSE pp[k]
      BY <1>10, <3>1
    <3>3. f[k + 1] = IF k + 1 \in keep THEN Append(f[k], t[k + 1]) ELSE f[k]
      BY <1>6, <3>1
    <3>4. pp[k + 1] = f[k + 1]
      BY <3>1, <3>2, <3>3
    <3> QED BY <3>4
  <2> QED BY <2>1
<1> HIDE DEF T
<1>13. n \in T
  BY <1>1, <1>11, <1>12, SetInduction
<1>14. pp[n] = f[n]
  BY <1>1, <1>13 DEF T
<1>15. PickRun(f, S, t, keep, n)
  BY <1>5, <1>6, <1>9, <1>14 DEF PickRun, Steps, V
<1> QED BY <1>15

\* Two runs over inputs that agree, of any length, agree.
LEMMA PickRunsAgree ==
    ASSUME NEW S, NEW t, NEW u, NEW keep, NEW keep2, NEW n \in Nat, NEW m \in Nat, n <= m,
           NEW f, PickRun(f, S, t, keep, n), NEW h, PickRun(h, S, u, keep2, m),
           \A i \in 1..n : t[i] = u[i] /\ (i \in keep <=> i \in keep2)
    PROVE  h[n] = f[n]
<1> DEFINE T == {k \in Nat : k <= n => h[k] = f[k]}
<1>1. 0 \in T
  BY DEF PickRun
<1>2. ASSUME NEW k \in Nat, k \in T PROVE k + 1 \in T
  <2>1. CASE k + 1 <= n
    <3>1. k + 1 \in 1..n /\ k + 1 \in 1..m /\ (k + 1) - 1 = k /\ h[k] = f[k]
      BY <1>2, <2>1
    <3>2. h[k + 1] = IF k + 1 \in keep2 THEN Append(h[k], u[k + 1]) ELSE h[k]
      BY <3>1 DEF PickRun
    <3>3. f[k + 1] = IF k + 1 \in keep THEN Append(f[k], t[k + 1]) ELSE f[k]
      BY <3>1 DEF PickRun
    <3>4. h[k + 1] = f[k + 1]
      BY <3>1, <3>2, <3>3
    <3> QED BY <3>4
  <2> QED BY <2>1
<1> HIDE DEF T
<1>3. n \in T
  BY <1>1, <1>2, SetInduction
<1> QED BY <1>3 DEF T

LEMMA PickNone ==
    ASSUME NEW S, NEW t \in Seq(S), NEW keep PROVE Pick(t, keep, 0) = <<>>
<1>1. 0 \in 0..Len(t)
  OBVIOUS
<1>2. PICK f : PickRun(f, S, t, keep, 0)
  BY <1>1, PickRunExists
<1> QED BY <1>2 DEF PickRun

LEMMA PickType ==
    ASSUME NEW S, NEW t \in Seq(S), NEW keep, NEW n \in 0..Len(t)
    PROVE  Pick(t, keep, n) \in Seq(S)
<1>1. PICK f : PickRun(f, S, t, keep, n)
  BY PickRunExists
<1>2. n \in 0..n
  OBVIOUS
<1> QED BY <1>1, <1>2 DEF PickRun

\* Only the positions that are looked at matter.
LEMMA PickSame ==
    ASSUME NEW S, NEW t \in Seq(S), NEW u \in Seq(S), NEW keep, NEW keep2,
           NEW n \in Nat, n <= Len(t), n <= Len(u),
           \A i \in 1..n : t[i] = u[i] /\ (i \in keep <=> i \in keep2)
    PROVE  Pick(t, keep, n) = Pick(u, keep2, n)
<1>1. n \in 0..Len(t) /\ n \in 0..Len(u) /\ n <= n
  OBVIOUS
<1>2. PICK f : PickRun(f, S, t, keep, n)
  BY <1>1, PickRunExists
<1>3. PICK h : PickRun(h, S, u, keep2, n)
  BY <1>1, PickRunExists
<1>4. h[n] = f[n]
  BY <1>1, <1>2, <1>3, PickRunsAgree
<1> QED BY <1>2, <1>3, <1>4 DEF PickRun

\* One position more.
LEMMA PickNext ==
    ASSUME NEW S, NEW t \in Seq(S), NEW keep, NEW n \in Nat, n + 1 <= Len(t)
    PROVE  Pick(t, keep, n + 1) =
               IF n + 1 \in keep THEN Append(Pick(t, keep, n), t[n + 1]) ELSE Pick(t, keep, n)
<1>1. n \in 0..Len(t) /\ n + 1 \in 0..Len(t) /\ n + 1 \in Nat /\ n <= n + 1
  OBVIOUS
<1>2. PICK f : PickRun(f, S, t, keep, n)
  BY <1>1, PickRunExists
<1>3. PICK h : PickRun(h, S, t, keep, n + 1)
  BY <1>1, PickRunExists
<1>4. h[n] = f[n]
  BY <1>1, <1>2, <1>3, PickRunsAgree
<1>5. n + 1 \in 1..(n + 1) /\ (n + 1) - 1 = n
  OBVIOUS
<1>6. h[n + 1] = IF n + 1 \in keep THEN Append(h[n], t[n + 1]) ELSE h[n]
  BY <1>3, <1>5 DEF PickRun
<1> QED BY <1>2, <1>3, <1>4, <1>6 DEF PickRun

-----------------------------------------------------------------------------
(***************************************************************************)
(* Special tildes, one byte at a time.                                      *)
(***************************************************************************)
AtLineStart(t) ==
    \/ Len(t) = 0
    \/ t[Len(t)] = "nl"
    \/ t[Len(t)] = "^Z" /\ Len(t) - 1 \in Special(t)

LEMMA SpecialIn ==
    ASSUME NEW t \in Seq(Byte), NEW i \in Special(t) PROVE i \in 1..Len(t) /\ t[i] = "~"
BY DEF Special

\* Whether a tilde is special depends on what came before it only.
LEMMA SpecialPrefix ==
    ASSUME NEW t \in Seq(Byte), NEW u \in Seq(Byte), NEW n \in Nat, n <= Len(t), n <= Len(u),
           \A i \in 1..n : t[i] = u[i], NEW i \in 1..n
    PROVE  i \in Special(t) <=> i \in Special(u)
<1>1. i \in 1..Len(t) /\ i \in 1..Len(u) /\ t[i] = u[i]
  OBVIOUS
<1>2. \A j \in 1..i : /\ t[j] = u[j] /\ (j # 1 => t[j-1] = u[j-1])
                      /\ \A k \in j..(i-1) : t[k] = u[k] /\ t[k+1] = u[k+1]
  OBVIOUS
<1>3. ASSUME i \in Special(t) PROVE i \in Special(u)
  <2>1. PICK j \in 1..i : /\ t[j] = "~" /\ (j = 1 \/ t[j-1] = "nl")
                          /\ \A k \in j..(i-1) : {t[k], t[k+1]} = {"~", "^Z"}
    BY <1>3 DEF Special
  <2>2. /\ u[j] = "~" /\ (j = 1 \/ u[j-1] = "nl")
        /\ \A k \in j..(i-1) : {u[k], u[k+1]} = {"~", "^Z"}
    BY <1>2, <2>1
  <2>3. u[i] = "~"
    BY <1>1, <1>3 DEF Special
  <2> QED BY <1>1, <2>2, <2>3 DEF Special
<1>4. ASSUME i \in Special(u) PROVE i \in Special(t)
  <2>1. PICK j \in 1..i : /\ u[j] = "~" /\ (j = 1 \/ u[j-1] = "nl")
                          /\ \A k \in j..(i-1) : {u[k], u[k+1]} = {"~", "^Z"}
    BY <1>4 DEF Special
  <2>2. /\ t[j] = "~" /\ (j = 1 \/ t[j-1] = "nl")
        /\ \A k \in j..(i-1) : {t[k], t[k+1]} = {"~", "^Z"}
    BY <1>2, <2>1
  <2>3. t[i] = "~"
    BY <1>1, <1>4 DEF Special
  <2> QED BY <1>1, <2>2, <2>3 DEF Special
<1> QED BY <1>3, <1>4

\* u is t and the byte b.
ByteAdded(t, b, u) ==
    /\ u \in Seq(Byte) /\ Len(u) = Len(t) + 1 /\ u[Len(t) + 1] = b
    /\ \A i \in 1..Len(t) : t[i] = u[i]

LEMMA AppendAdds ==
    ASSUME NEW t \in Seq(Byte), NEW b \in Byte PROVE ByteAdded(t, b, Append(t, b))
BY DEF ByteAdded

\* Whether a byte that is added is a special tilde depends on the byte
\* before it and on whether that one was special.
LEMMA SpecialNext ==
    ASSUME NEW t \in Seq(Byte), NEW b \in Byte, NEW u, ByteAdded(t, b, u)
    PROVE  /\ \A i \in 1..Len(t) : i \in Special(u) <=> i \in Special(t)
           /\ Len(t) + 1 \in Special(u) <=> b = "~" /\ AtLineStart(t)
<1> DEFINE n == Len(t)
<1>1. n \in Nat /\ u \in Seq(Byte) /\ Len(u) = n + 1 /\ u[n + 1] = b /\ n <= Len(u)
      /\ \A i \in 1..n : t[i] = u[i]
  BY DEF ByteAdded
<1>0. n = Len(t)
  OBVIOUS
<1> HIDE DEF n
<1>2. \A i \in 1..n : i \in Special(u) <=> i \in Special(t)
  BY <1>0, <1>1, SpecialPrefix
<1>3. ASSUME n + 1 \in Special(u) PROVE b = "~" /\ AtLineStart(t)
  <2>1. PICK j \in 1..(n + 1) : /\ u[j] = "~" /\ (j = 1 \/ u[j-1] = "nl")
                                /\ \A k \in j..((n + 1) - 1) : {u[k], u[k+1]} = {"~", "^Z"}
    BY <1>3 DEF Special
  <2>2. b = "~"
    BY <1>1, <1>3 DEF Special
  <2>3. CASE j = n + 1
    BY <1>1, <2>1, <2>3 DEF AtLineStart, n
  <2>4. CASE j # n + 1
    <3>1. n \in j..n /\ (n + 1) - 1 = n /\ n \in 1..n /\ j \in 1..n
      BY <1>1, <2>4
    <3>2. u[n] = "^Z"
      BY <1>1, <2>1, <2>2, <3>1
    <3>3. j # n
      BY <2>1, <3>2
    <3>4. n - 1 \in j..n /\ n - 1 \in 1..n /\ (n - 1) + 1 = n /\ j \in 1..(n - 1)
      BY <1>1, <3>1, <3>3
    <3>5. u[n - 1] = "~"
      BY <2>1, <3>1, <3>2, <3>4
    <3>6. \A k \in j..((n - 1) - 1) : k \in j..n
      BY <1>1
    <3>7. n - 1 \in Special(u)
      <4>1. n - 1 \in 1..Len(u)
        BY <1>1, <3>4
      <4>2. \A k \in j..((n - 1) - 1) : {u[k], u[k+1]} = {"~", "^Z"}
        BY <2>1, <3>1, <3>6
      <4> QED BY <2>1, <3>4, <3>5, <4>1, <4>2 DEF Special
    <3> QED BY <1>1, <1>2, <2>2, <3>1, <3>2, <3>4, <3>7 DEF AtLineStart, n
  <2> QED BY <2>3, <2>4
<1>4. ASSUME b = "~", AtLineStart(t) PROVE n + 1 \in Special(u)
  <2>1. n + 1 \in 1..Len(u) /\ u[n + 1] = "~" /\ n + 1 \in 1..(n + 1)
    BY <1>1, <1>4
  <2>2. CASE n = 0 \/ t[n] = "nl"
    <3>1. n + 1 = 1 \/ u[(n + 1) - 1] = "nl"
      BY <1>1, <2>2
    <3>2. \A k \in (n + 1)..((n + 1) - 1) : FALSE
      BY <1>1
    <3> QED BY <2>1, <3>1, <3>2 DEF Special
  <2>3. CASE t[n] = "^Z" /\ n - 1 \in Special(t) /\ n # 0
    <3>1. n - 1 \in 1..n /\ n \in 1..n /\ (n - 1) + 1 = n
      BY <1>0, <1>1, <2>3, SpecialIn
    <3>2. n - 1 \in Special(u) /\ u[n] = "^Z"
      BY <1>1, <1>2, <2>3, <3>1
    <3>3. PICK j \in 1..(n - 1) : /\ u[j] = "~" /\ (j = 1 \/ u[j-1] = "nl")
                                  /\ \A k \in j..((n - 1) - 1) : {u[k], u[k+1]} = {"~", "^Z"}
      BY <3>2 DEF Special
    <3>4. u[n - 1] = "~"
      BY <3>2 DEF Special
    <3>5. j \in 1..(n + 1)
      BY <1>1, <3>1
    <3>6. ASSUME NEW k \in j..((n + 1) - 1) PROVE {u[k], u[k+1]} = {"~", "^Z"}
      <4>1. CASE k = n
        BY <2>1, <3>2, <4>1
      <4>2. CASE k = n - 1
        BY <3>1, <3>2, <3>4, <4>2
      <4>3. CASE k # n /\ k # n - 1
        <5>1. k \in j..((n - 1) - 1)
          BY <1>1, <4>3
        <5> QED BY <3>3, <5>1
      <4> QED BY <4>1, <4>2, <4>3
    <3> QED BY <2>1, <3>3, <3>5, <3>6 DEF Special
  <2> QED BY <1>4, <2>2, <2>3 DEF AtLineStart, n
<1> QED BY <1>2, <1>3, <1>4 DEF n

-----------------------------------------------------------------------------
(***************************************************************************)
(* What is withheld and what is sent, one byte at a time.                   *)
(***************************************************************************)
LEMMA WithheldAt ==
    ASSUME NEW t \in Seq(Byte), NEW i \in 1..Len(t)
    PROVE  i \in Withheld(t) <=>
             \/ i \in Special(t) /\ (i = Len(t) \/ t[i+1] \in Command \cup {"~"})
             \/ i # 1 /\ i - 1 \in Special(t) /\ t[i] \in Command
<1>1. i # 1 <=> i \in 2..Len(t)
  OBVIOUS
<1> QED BY <1>1 DEF Withheld

\* A byte that is added may withhold itself and decide on a special tilde
\* before it; what is before those two does not change.
LEMMA WithheldNext ==
    ASSUME NEW t \in Seq(Byte), NEW b \in Byte, NEW n, n = Len(t),
           NEW u, ByteAdded(t, b, u)
    PROVE  /\ \A i \in 1..n : i # n \/ n \notin Special(t) =>
                  (i \in Withheld(u) <=> i \in Withheld(t))
           /\ n \in Special(t) =>
                  n \in Withheld(t) /\ (n \in Withheld(u) <=> b \in Command \cup {"~"})
           /\ n + 1 \in Withheld(u) <=>
                  \/ b = "~" /\ AtLineStart(t)
                  \/ n \in Special(t) /\ b \in Command
<1>1. n \in Nat /\ u \in Seq(Byte) /\ Len(u) = n + 1 /\ u[n + 1] = b
      /\ \A i \in 1..n : t[i] = u[i]
  BY DEF ByteAdded
<1>2. /\ \A i \in 1..n : i \in Special(u) <=> i \in Special(t)
      /\ n + 1 \in Special(u) <=> b = "~" /\ AtLineStart(t)
  BY SpecialNext
<1>3. ASSUME NEW i \in 1..n, i # n \/ n \notin Special(t)
      PROVE  i \in Withheld(u) <=> i \in Withheld(t)
  <2>1. i \in 1..Len(t) /\ i \in 1..Len(u) /\ i # Len(u) /\ i # 0
    BY <1>1
  <2>2. i # 1 => i - 1 \in 1..n
    BY <1>1
  <2>3. i # n => i + 1 \in 1..n
    BY <1>1
  <2>4. i \in Withheld(t) <=>
             \/ i \in Special(t) /\ (i = n \/ t[i+1] \in Command \cup {"~"})
             \/ i # 1 /\ i - 1 \in Special(t) /\ t[i] \in Command
    BY <2>1, WithheldAt
  <2>5. i \in Withheld(u) <=>
             \/ i \in Special(u) /\ u[i+1] \in Command \cup {"~"}
             \/ i # 1 /\ i - 1 \in Special(u) /\ u[i] \in Command
    BY <1>1, <2>1, WithheldAt
  <2>6. i # n => u[i+1] = t[i+1]
    BY <1>1, <2>3
  <2>7. i \in Special(u) <=> i \in Special(t)
    BY <1>2
  <2>8. i # 1 => (i - 1 \in Special(u) <=> i - 1 \in Special(t))
    BY <1>2, <2>2
  <2> QED BY <1>1, <1>3, <2>4, <2>5, <2>6, <2>7, <2>8
<1>4. ASSUME n \in Special(t)
      PROVE  n \in Withheld(t) /\ (n \in Withheld(u) <=> b \in Command \cup {"~"})
  <2>1. n \in 1..n /\ t[n] = "~" /\ u[n] = "~" /\ n \in 1..Len(u) /\ n # Len(u)
    BY <1>1, <1>4, SpecialIn
  <2>2. "~" \notin Command
    BY DEF Command
  <2>3. n \in Special(u)
    BY <1>2, <1>4, <2>1
  <2>4. n \in Withheld(t)
    BY <1>4, <2>1, WithheldAt
  <2> QED BY <1>1, <2>1, <2>2, <2>3, <2>4, WithheldAt
<1>5. n + 1 \in Withheld(u) <=> (b = "~" /\ AtLineStart(t)) \/ (n \in Special(t) /\ b \in Command)
  <2>1. n + 1 \in 1..Len(u) /\ n + 1 = Len(u) /\ (n + 1) - 1 = n
    BY <1>1
  <2>2. n \in Special(u) /\ n + 1 # 1 <=> n \in Special(t)
    <3>1. n \in Special(t) => n \in 1..n
      BY SpecialIn
    <3>2. n + 1 # 1 => n \in 1..n
      BY <1>1
    <3> QED BY <1>1, <1>2, <3>1, <3>2
  <2>3. n + 1 \in Withheld(u) <=>
             \/ n + 1 \in Special(u)
             \/ n + 1 # 1 /\ n \in Special(u) /\ b \in Command
    BY <1>1, <2>1, WithheldAt
  <2> QED BY <1>2, <2>2, <2>3
<1> QED BY <1>3, <1>4, <1>5

Kept(t) == (1..Len(t)) \ Withheld(t)
SentOf(t) == Pick(t, Kept(t), Len(t))

LEMMA SentType == ASSUME NEW t \in Seq(Byte) PROVE SentOf(t) \in Seq(Byte)
<1>1. Len(t) \in 0..Len(t)
  OBVIOUS
<1> QED BY <1>1, PickType DEF SentOf

\* What the reference sends after one byte more, in terms of what it sent.
LEMMA SentNext ==
    ASSUME NEW t \in Seq(Byte), NEW b \in Byte, NEW n, n = Len(t),
           NEW u, ByteAdded(t, b, u)
    PROVE  /\ n \notin Special(t) =>
                SentOf(u) = IF b = "~" /\ AtLineStart(t) THEN SentOf(t) ELSE Append(SentOf(t), b)
           /\ n \in Special(t) =>
                SentOf(u) = IF b \in Command THEN SentOf(t)
                            ELSE IF b = "~" THEN Append(SentOf(t), "~")
                            ELSE Append(Append(SentOf(t), "~"), b)
<1>1. n \in Nat /\ u \in Seq(Byte) /\ Len(u) = n + 1 /\ u[n + 1] = b
      /\ \A i \in 1..n : t[i] = u[i]
  BY DEF ByteAdded
<1>2. /\ \A i \in 1..n : i # n \/ n \notin Special(t) =>
                  (i \in Withheld(u) <=> i \in Withheld(t))
      /\ n \in Special(t) =>
                  n \in Withheld(t) /\ (n \in Withheld(u) <=> b \in Command \cup {"~"})
      /\ n + 1 \in Withheld(u) <=>
                  \/ b = "~" /\ AtLineStart(t)
                  \/ n \in Special(t) /\ b \in Command
  BY WithheldNext
<1> DEFINE K == Kept(t)
           L == Kept(u)
<1>3. \A i \in 1..n : /\ i \in K <=> i \notin Withheld(t)
                      /\ i \in L <=> i \notin Withheld(u)
  BY <1>1 DEF Kept
<1>4. n + 1 \in L <=> n + 1 \notin Withheld(u)
  BY <1>1 DEF Kept
<1>6. SentOf(t) = Pick(t, K, n) /\ SentOf(u) = Pick(u, L, n + 1)
  BY <1>1 DEF SentOf
<1> HIDE DEF K, L
<1>5. SentOf(u) = IF n + 1 \in L THEN Append(Pick(u, L, n), b) ELSE Pick(u, L, n)
  <2>1. n + 1 <= Len(u)
    BY <1>1
  <2>2. Pick(u, L, n + 1) = IF n + 1 \in L THEN Append(Pick(u, L, n), u[n + 1]) ELSE Pick(u, L, n)
    BY <1>1, <2>1, PickNext
  <2> QED BY <1>1, <1>6, <2>2
<1>7. CASE n \notin Special(t)
  <2>1. \A i \in 1..n : t[i] = u[i] /\ (i \in K <=> i \in L)
    BY <1>1, <1>2, <1>3, <1>7
  <2>2. n <= Len(t) /\ n <= Len(u)
    BY <1>1
  <2>3. Pick(t, K, n) = Pick(u, L, n)
    BY <1>1, <2>1, <2>2, PickSame
  <2> QED BY <1>2, <1>4, <1>5, <1>6, <1>7, <2>3
<1>8. CASE n \in Special(t)
  <2>1. n \in 1..n /\ t[n] = "~" /\ u[n] = "~"
    BY <1>1, <1>8, SpecialIn
  <2> DEFINE m == n - 1
  <2>2. m \in Nat /\ m + 1 = n /\ m <= Len(t) /\ m <= Len(u) /\ m + 1 <= Len(t) /\ m + 1 <= Len(u)
    BY <1>1, <2>1
  <2>3. \A i \in 1..m : i \in 1..n /\ i # n
    BY <1>1
  <2> HIDE DEF m
  <2>4. \A i \in 1..m : t[i] = u[i] /\ (i \in K <=> i \in L)
    BY <1>1, <1>2, <1>3, <2>3
  <2>5. Pick(t, K, m) = Pick(u, L, m)
    BY <1>1, <2>2, <2>4, PickSame
  <2>6. Pick(t, K, n) = Pick(t, K, m)
    <3>1. m + 1 \notin K
      BY <1>2, <1>3, <1>8, <2>1, <2>2
    <3>2. Pick(t, K, m + 1) = Pick(t, K, m)
      BY <2>2, <3>1, PickNext
    <3> QED BY <2>2, <3>2
  <2>7. Pick(u, L, n) =
          IF n \in L THEN Append(Pick(u, L, m), "~") ELSE Pick(u, L, m)
    <3>1. Pick(u, L, m + 1) =
            IF m + 1 \in L THEN Append(Pick(u, L, m), u[m + 1]) ELSE Pick(u, L, m)
      <4>1. u \in Seq(Byte) /\ m \in Nat /\ m + 1 <= Len(u)
        BY <1>1, <2>2
      <4> QED BY <4>1, PickNext
    <3> QED BY <2>1, <2>2, <3>1
  <2>8. n \in L <=> b \notin Command \cup {"~"}
    BY <1>2, <1>3, <1>8, <2>1
  <2>9. ~AtLineStart(t)
    <3>1. t[n] # "nl" /\ t[n] # "^Z" /\ n # 0
      BY <2>1
    <3> QED BY <3>1 DEF AtLineStart
  <2>10. n + 1 \in L <=> b \notin Command
    BY <1>2, <1>4, <1>8, <2>9
  <2> QED BY <1>5, <1>6, <1>8, <2>5, <2>6, <2>7, <2>8, <2>10 DEF Command
<1> QED BY <1>7, <1>8

-----------------------------------------------------------------------------
(***************************************************************************)
(* The state machine after the bytes t: it has let pass what the reference  *)
(* sends, and its state says where in a line t ends.                        *)
(***************************************************************************)
States == {"newline", "midline", "waiting"}

Interpreted(t, st, out) ==
    /\ st \in States
    /\ out = SentOf(t)
    /\ st = "waiting" <=> Len(t) \in Special(t)
    /\ st = "newline" <=> AtLineStart(t)

\* handle_byte follows the reference.
LEMMA HandleByteStep ==
    ASSUME NEW t \in Seq(Byte), NEW b \in Byte, NEW st, NEW out, Interpreted(t, st, out)
    PROVE  /\ Interpreted(Append(t, b), HandleByte(st, b).state, out \o HandleByte(st, b).send)
           /\ HandleByte(st, b).send \in Seq(Byte)
           /\ \/ HandleByte(st, b).run = <<>>
              \/ HandleByte(st, b).run = <<b>> /\ b \in Command /\ Len(t) \in Special(t)
<1> DEFINE n == Len(t)
           r == HandleByte(st, b)
<1>0. PICK u : u = Append(t, b)
  OBVIOUS
<1>15. ByteAdded(t, b, u)
  BY <1>0, AppendAdds
<1>1. n \in Nat /\ u \in Seq(Byte) /\ Len(u) = n + 1 /\ u[n + 1] = b /\ (n + 1) - 1 = n
  BY <1>15 DEF ByteAdded
<1>2. out \in Seq(Byte) /\ out = SentOf(t) /\ st \in States
  BY SentType DEF Interpreted
<1>3. /\ n \notin Special(t) =>
                SentOf(u) = IF b = "~" /\ AtLineStart(t) THEN SentOf(t) ELSE Append(SentOf(t), b)
      /\ n \in Special(t) =>
                SentOf(u) = IF b \in Command THEN SentOf(t)
                            ELSE IF b = "~" THEN Append(SentOf(t), "~")
                            ELSE Append(Append(SentOf(t), "~"), b)
  BY <1>15, SentNext
<1>4. /\ st = "waiting" <=> n \in Special(t)
      /\ st = "newline" <=> AtLineStart(t)
  BY DEF Interpreted
<1>5. n + 1 \in Special(u) <=> b = "~" /\ AtLineStart(t)
  BY <1>15, SpecialNext
<1>6. n \in Special(u) <=> n \in Special(t)
  <2>1. n \in Special(t) => n \in 1..n
    BY SpecialIn
  <2>2. n \in Special(u) /\ n # 0 => n \in 1..n
    BY <1>1
  <2>3. n \in Special(u) => n # 0
    BY <1>1, SpecialIn
  <2> QED BY <2>1, <2>2, <2>3, <1>15, SpecialNext
<1>7. AtLineStart(u) <=> b = "nl" \/ (b = "^Z" /\ n \in Special(t))
  BY <1>1, <1>6 DEF AtLineStart
<1>8. out \o <<>> = out /\ out \o <<b>> = Append(out, b)
      /\ out \o <<"~">> = Append(out, "~") /\ out \o <<"~", b>> = Append(Append(out, "~"), b)
  BY <1>2
<1> HIDE DEF n
<1> SUFFICES /\ Interpreted(u, r.state, out \o r.send) /\ r.send \in Seq(Byte)
             /\ r.run = <<>> \/ (r.run = <<b>> /\ b \in Command /\ n \in Special(t))
  BY <1>0 DEF n
<1>9. "~" \in Byte /\ "~" \notin Command /\ "^Z" \in Command /\ "nl" \notin Command
  BY DEF Byte, Command
<1>10. CASE st = "newline" /\ b = "~"
  <2>1. r.state = "waiting" /\ r.send = <<>> /\ r.run = <<>>
    BY <1>10 DEF HandleByte
  <2>2. /\ out \o r.send = SentOf(u) /\ r.state \in States
        /\ r.state = "waiting" <=> n + 1 \in Special(u)
        /\ r.state = "newline" <=> AtLineStart(u)
    BY <1>2, <1>3, <1>4, <1>5, <1>7, <1>8, <1>10, <2>1 DEF States
  <2>3. r.send \in Seq(Byte)
    BY <1>9, <2>1
  <2>4. Interpreted(u, r.state, out \o r.send)
    BY <1>1, <2>2 DEF Interpreted
  <2> QED BY <1>4, <1>10, <2>1, <2>3, <2>4
<1>11. CASE st \in {"newline", "midline"} /\ ~(st = "newline" /\ b = "~")
  <2>1. r.state = Normal(b) /\ r.send = <<b>> /\ r.run = <<>>
    BY <1>11 DEF HandleByte
  <2>2. /\ out \o r.send = SentOf(u) /\ r.state \in States
        /\ r.state = "waiting" <=> n + 1 \in Special(u)
        /\ r.state = "newline" <=> AtLineStart(u)
    BY <1>2, <1>3, <1>4, <1>5, <1>7, <1>8, <1>11, <2>1 DEF States, Normal
  <2>3. r.send \in Seq(Byte)
    BY <1>9, <2>1
  <2>4. Interpreted(u, r.state, out \o r.send)
    BY <1>1, <2>2 DEF Interpreted
  <2> QED BY <1>4, <1>11, <2>1, <2>3, <2>4
<1>12. CASE st = "waiting" /\ b \in Command
  <2>1. r.state = (IF b = "^Z" THEN "newline" ELSE "midline") /\ r.send = <<>> /\ r.run = <<b>>
    BY <1>9, <1>12 DEF HandleByte
  <2>2. /\ out \o r.send = SentOf(u) /\ r.state \in States
        /\ r.state = "waiting" <=> n + 1 \in Special(u)
        /\ r.state = "newline" <=> AtLineStart(u)
    BY <1>2, <1>3, <1>4, <1>5, <1>7, <1>8, <1>9, <1>12, <2>1 DEF States
  <2>3. r.send \in Seq(Byte)
    BY <1>9, <2>1
  <2>4. Interpreted(u, r.state, out \o r.send)
    BY <1>1, <2>2 DEF Interpreted
  <2> QED BY <1>4, <1>12, <2>1, <2>3, <2>4
<1>13. CASE st = "waiting" /\ b = "~"
  <2>1. r.state = "midline" /\ r.send = <<"~">> /\ r.run = <<>>
    BY <1>9, <1>13 DEF HandleByte
  <2>2. /\ out \o r.send = SentOf(u) /\ r.state \in States
        /\ r.state = "waiting" <=> n + 1 \in Special(u)
        /\ r.state = "newline" <=> AtLineStart(u)
    BY <1>2, <1>3, <1>4, <1>5, <1>7, <1>8, <1>9, <1>13, <2>1 DEF States
  <2>3. r.send \in Seq(Byte)
    BY <1>9, <2>1
  <2>4. Interpreted(u, r.state, out \o r.send)
    BY <1>1, <2>2 DEF Interpreted
  <2> QED BY <1>4, <1>13, <2>1, <2>3, <2>4
<1>14. CASE st = "waiting" /\ b \notin Command \cup {"~"}
  <2>1. r.state = Normal(b) /\ r.send = <<"~", b>> /\ r.run = <<>>
    BY <1>14 DEF HandleByte, Aborted
  <2>2. /\ out \o r.send = SentOf(u) /\ r.state \in States
        /\ r.state = "waiting" <=> n + 1 \in Special(u)
        /\ r.state = "newline" <=> AtLineStart(u)
    BY <1>2, <1>3, <1>4, <1>5, <1>7, <1>8, <1>9, <1>14, <2>1 DEF States, Normal
  <2>3. r.send \in Seq(Byte)
    BY <1>9, <2>1
  <2>4. Interpreted(u, r.state, out \o r.send)
    BY <1>1, <2>2 DEF Interpreted
  <2> QED BY <1>4, <1>14, <2>1, <2>3, <2>4
<1> QED BY <1>2, <1>10, <1>11, <1>12, <1>13, <1>14 DEF States

-----------------------------------------------------------------------------
(***************************************************************************)
(* The loop of feed_stdin, as the values after each byte.                   *)
(***************************************************************************)
Accs == [state : States, send : Seq(Byte), run : Seq(Command)]

NextAcc(acc, b) ==
    IF "." \in Range(acc.run) THEN acc
    ELSE [state |-> HandleByte(acc.state, b).state,
          send |-> acc.send \o HandleByte(acc.state, b).send,
          run |-> acc.run \o HandleByte(acc.state, b).run]

LEMMA HandleByteType ==
    ASSUME NEW st \in States, NEW b \in Byte
    PROVE  /\ HandleByte(st, b).state \in States
           /\ HandleByte(st, b).send \in Seq(Byte)
           /\ HandleByte(st, b).run \in Seq(Command)
<1> DEFINE r == HandleByte(st, b)
<1>1. "~" \in Byte /\ "~" \notin Command
  BY DEF Byte, Command
<1>2. <<>> \in Seq(Byte) /\ <<>> \in Seq(Command) /\ <<b>> \in Seq(Byte)
      /\ <<"~">> \in Seq(Byte) /\ <<"~", b>> \in Seq(Byte)
  BY <1>1
<1>3. Normal(b) \in States
  BY DEF Normal, States
<1>4. CASE st = "newline" /\ b = "~"
  <2>1. r.state = "waiting" /\ r.send = <<>> /\ r.run = <<>>
    BY <1>4 DEF HandleByte
  <2> QED BY <1>2, <2>1 DEF States
<1>5. CASE st \in {"newline", "midline"} /\ ~(st = "newline" /\ b = "~")
  <2>1. r.state = Normal(b) /\ r.send = <<b>> /\ r.run = <<>>
    BY <1>5 DEF HandleByte
  <2> QED BY <1>2, <1>3, <2>1
<1>6. CASE st = "waiting" /\ b \in Command
  <2>1. r.state = (IF b = "^Z" THEN "newline" ELSE "midline") /\ r.send = <<>> /\ r.run = <<b>>
    BY <1>1, <1>6 DEF HandleByte
  <2>2. <<b>> \in Seq(Command)
    BY <1>6
  <2> QED BY <1>2, <2>1, <2>2 DEF States
<1>7. CASE st = "waiting" /\ b = "~"
  <2>1. r.state = "midline" /\ r.send = <<"~">> /\ r.run = <<>>
    BY <1>1, <1>7 DEF HandleByte
  <2> QED BY <1>2, <2>1 DEF States
<1>8. CASE st = "waiting" /\ b \notin Command \cup {"~"}
  <2>1. r.state = Normal(b) /\ r.send = <<"~", b>> /\ r.run = <<>>
    BY <1>8 DEF HandleByte, Aborted
  <2> QED BY <1>2, <1>3, <2>1
<1> QED BY <1>4, <1>5, <1>6, <1>7, <1>8 DEF States

\* The loop of feed_stdin keeps its types.
LEMMA NextAccType ==
    ASSUME NEW acc \in Accs, NEW b \in Byte PROVE NextAcc(acc, b) \in Accs
<1>1. acc.state \in States /\ acc.send \in Seq(Byte) /\ acc.run \in Seq(Command)
  BY DEF Accs
<1>2. /\ HandleByte(acc.state, b).state \in States
      /\ HandleByte(acc.state, b).send \in Seq(Byte)
      /\ HandleByte(acc.state, b).run \in Seq(Command)
  BY <1>1, HandleByteType
<1>3. /\ acc.send \o HandleByte(acc.state, b).send \in Seq(Byte)
      /\ acc.run \o HandleByte(acc.state, b).run \in Seq(Command)
  BY <1>1, <1>2
<1> QED BY <1>2, <1>3 DEF NextAcc, Accs

StartAcc(st) == [state |-> st, send |-> <<>>, run |-> <<>>]

LoopRun(run, st, buf) ==
    /\ run \in [0..Len(buf) -> Accs] /\ run[0] = StartAcc(st)
    /\ \A k \in 1..Len(buf) : run[k] = NextAcc(run[k-1], buf[k])

\* Interpret is the last value of the loop.
LEMMA LoopRunExists ==
    ASSUME escState \in States, NEW buf \in Seq(Byte)
    PROVE  \E run : LoopRun(run, escState, buf) /\ Interpret(buf) = run[Len(buf)]
<1> DEFINE n == Len(buf)
           G == [iv \in (1..n) \X Accs |-> NextAcc(iv[2], buf[iv[1]])]
           Def(p) == p = [k \in 0..n |-> IF k = 0 THEN StartAcc(escState) ELSE NextAcc(p[k-1], buf[k])]
           pp == CHOOSE p : Def(p)
<1>1. n \in Nat /\ \A i \in 1..n : buf[i] \in Byte
  OBVIOUS
<1>2. StartAcc(escState) \in Accs
  BY DEF StartAcc, Accs
<1>3. G \in [(1..n) \X Accs -> Accs]
  BY <1>1, NextAccType
<1>4. \A i \in 1..n : \A v \in Accs : G[<<i, v>>] = NextAcc(v, buf[i])
  OBVIOUS
<1> HIDE DEF G
<1>5. PICK f \in [0..n -> Accs] : Steps(f, n, StartAcc(escState), G)
  BY <1>1, <1>2, <1>3, RecursionExists
<1>6. \A i \in 1..n : f[i] = NextAcc(f[i-1], buf[i])
  <2> TAKE i \in 1..n
  <2>1. f[i-1] \in Accs
    BY <1>1
  <2>2. f[i] = G[<<i, f[i-1]>>]
    BY <1>5 DEF Steps
  <2> QED BY <1>4, <2>1, <2>2
<1>7. Def(f)
  <2>1. ASSUME NEW i \in 0..n
        PROVE  f[i] = IF i = 0 THEN StartAcc(escState) ELSE NextAcc(f[i-1], buf[i])
    <3>1. CASE i = 0
      BY <1>5, <3>1 DEF Steps
    <3>2. CASE i # 0
      <4>1. i \in 1..n
        BY <1>1, <3>2
      <4> QED BY <1>6, <3>2, <4>1
    <3> QED BY <3>1, <3>2
  <2> QED BY <2>1
<1>8. Def(pp)
  <2> HIDE DEF Def
  <2> QED BY <1>7
<1>9. Interpret(buf) = pp[n]
  BY DEF Interpret, NextAcc, StartAcc
<1> HIDE DEF pp
<1>10. \A i \in 0..n : pp[i] = IF i = 0 THEN StartAcc(escState) ELSE NextAcc(pp[i-1], buf[i])
  BY <1>8
<1> DEFINE T == {k \in Nat : k <= n => pp[k] = f[k]}
<1>11. 0 \in T
  <2>1. pp[0] = StartAcc(escState)
    BY <1>1, <1>10
  <2>2. pp[0] = f[0]
    BY <1>5, <2>1 DEF Steps
  <2> QED BY <2>2
<1>12. ASSUME NEW k \in Nat, k \in T PROVE k + 1 \in T
  <2>1. CASE k + 1 <= n
    <3>1. k + 1 \in 1..n /\ k + 1 \in 0..n /\ (k + 1) - 1 = k /\ k + 1 # 0 /\ pp[k] = f[k]
      BY <1>1, <1>12, <2>1
    <3>2. pp[k + 1] = NextAcc(pp[k], buf[k + 1])
      BY <1>10, <3>1
    <3>3. f[k + 1] = NextAcc(f[k], buf[k + 1])
      BY <1>6, <3>1
    <3>4. pp[k + 1] = f[k + 1]
      BY <3>1, <3>2, <3>3
    <3> QED BY <3>4
  <2> QED BY <2>1
<1> HIDE DEF T
<1>13. n \in T
  BY <1>1, <1>11, <1>12, SetInduction
<1>14. pp[n] = f[n]
  BY <1>1, <1>13 DEF T
<1>15. LoopRun(f, escState, buf)
  BY <1>5, <1>6 DEF LoopRun, Steps
<1> QED BY <1>9, <1>14, <1>15

-----------------------------------------------------------------------------
\* t with the first k bytes of buf.
Upto(t, buf, k) == t \o SubSeq(buf, 1, k)

LEMMA UptoParts ==
    ASSUME NEW t \in Seq(Byte), NEW buf \in Seq(Byte)
    PROVE  /\ Upto(t, buf, 0) = t /\ Upto(t, buf, Len(buf)) = t \o buf
           /\ \A k \in 0..Len(buf) : Upto(t, buf, k) \in Seq(Byte)
           /\ \A k \in Nat : k + 1 <= Len(buf) =>
                 Upto(t, buf, k + 1) = Append(Upto(t, buf, k), buf[k + 1])
<1>1. Upto(t, buf, 0) = t
  <2>1. SubSeq(buf, 1, 0) = <<>>
    OBVIOUS
  <2> QED BY <2>1 DEF Upto
<1>2. Upto(t, buf, Len(buf)) = t \o buf
  <2>1. SubSeq(buf, 1, Len(buf)) = buf
    OBVIOUS
  <2> QED BY <2>1 DEF Upto
<1>3. \A k \in 0..Len(buf) : Upto(t, buf, k) \in Seq(Byte)
  <2> TAKE k \in 0..Len(buf)
  <2>1. SubSeq(buf, 1, k) \in Seq(Byte)
    OBVIOUS
  <2> QED BY <2>1 DEF Upto
<1>4. ASSUME NEW k \in Nat, k + 1 <= Len(buf)
      PROVE  Upto(t, buf, k + 1) = Append(Upto(t, buf, k), buf[k + 1])
  <2> DEFINE p == SubSeq(buf, 1, k)
             q == SubSeq(buf, 1, k + 1)
             b == buf[k + 1]
  <2>1. p \in Seq(Byte) /\ Len(p) = k /\ \A i \in 1..k : p[i] = buf[i]
    BY <1>4
  <2>2. q \in Seq(Byte) /\ Len(q) = k + 1 /\ \A i \in 1..(k + 1) : q[i] = buf[i]
    BY <1>4
  <2>3. b \in Byte /\ q[k + 1] = b
    BY <1>4
  <2> HIDE DEF p, q, b
  <2>4. q = Append(p, b)
    <3>1. ASSUME NEW i \in 1..(k + 1) PROVE q[i] = Append(p, b)[i]
      BY <2>1, <2>2, <2>3
    <3>2. Append(p, b) \in Seq(Byte) /\ Len(Append(p, b)) = k + 1
      BY <2>1, <2>3
    <3> QED BY <2>2, <3>1, <3>2, SeqEqual
  <2>5. t \o Append(p, b) = Append(t \o p, b)
    BY <2>1, <2>3
  <2> QED BY <2>4, <2>5 DEF Upto, p, q, b
<1> QED BY <1>1, <1>2, <1>3, <1>4

\* What holds after each byte, before and after a Disconnect.
LoopInv(t, acc, out) ==
    IF "." \in Range(acc.run)
    THEN /\ Len(acc.run) > 0 /\ Last(acc.run) = "."
         /\ \E i \in Special(t) : i < Len(t) /\ t[i+1] = "."
    ELSE Interpreted(t, acc.state, out \o acc.send)

LEMMA BytesAssociative ==
    ASSUME NEW x \in Seq(Byte), NEW y \in Seq(Byte), NEW z \in Seq(Byte)
    PROVE  (x \o y) \o z = x \o (y \o z)
BY ConcatAssociative

\* One round of the loop keeps the loop invariant, and so do all of them.
LEMMA LoopStep ==
    ASSUME NEW t \in Seq(Byte), NEW b \in Byte, NEW acc \in Accs, NEW out \in Seq(Byte),
           LoopInv(t, acc, out)
    PROVE  LoopInv(Append(t, b), NextAcc(acc, b), out)
<1>1. PICK u : u = Append(t, b)
  OBVIOUS
<1>2. ByteAdded(t, b, u)
  BY <1>1, AppendAdds
<1>3. /\ u \in Seq(Byte) /\ Len(u) = Len(t) + 1 /\ u[Len(t) + 1] = b
      /\ \A i \in 1..Len(t) : t[i] = u[i]
  BY <1>2 DEF ByteAdded
<1>4. acc.state \in States /\ acc.send \in Seq(Byte) /\ acc.run \in Seq(Command)
  BY DEF Accs
<1>5. CASE "." \in Range(acc.run)
  <2>1. NextAcc(acc, b) = acc
    BY <1>5 DEF NextAcc
  <2>2. PICK i \in Special(t) : i < Len(t) /\ t[i+1] = "."
    BY <1>5 DEF LoopInv
  <2>3. i \in 1..Len(t)
    BY SpecialIn
  <2>4. i \in Special(u)
    BY <1>2, <2>3, SpecialNext
  <2>5. i < Len(u) /\ u[i+1] = "."
    <3>1. i + 1 \in 1..Len(t)
      BY <2>2, <2>3
    <3> QED BY <1>3, <2>2, <2>3, <3>1
  <2> QED BY <1>1, <1>5, <2>1, <2>4, <2>5 DEF LoopInv
<1>6. CASE "." \notin Range(acc.run)
  <2> DEFINE r == HandleByte(acc.state, b)
             new == NextAcc(acc, b)
             o == out \o acc.send
  <2>1. Interpreted(t, acc.state, o)
    BY <1>6 DEF LoopInv
  <2> HIDE DEF o
  <2>2. /\ Interpreted(u, r.state, o \o r.send)
        /\ r.send \in Seq(Byte)
        /\ \/ r.run = <<>>
           \/ r.run = <<b>> /\ b \in Command /\ Len(t) \in Special(t)
    BY <1>1, <2>1, HandleByteStep
  <2>3. new.state = r.state /\ new.send = acc.send \o r.send /\ new.run = acc.run \o r.run
    BY <1>6 DEF NextAcc
  <2> HIDE DEF r, new
  <2>4. o \o r.send = out \o new.send
    <3>1. (out \o acc.send) \o r.send = out \o (acc.send \o r.send)
      <4>1. acc.send \in Seq(Byte) /\ r.send \in Seq(Byte)
        BY <1>4, <2>2
      <4> QED BY <4>1, BytesAssociative
    <3> QED BY <2>3, <3>1 DEF o
  <2>5. CASE r.run = <<>>
    <3>1. new.run = acc.run
      BY <1>4, <2>3, <2>5
    <3> QED BY <1>1, <1>6, <2>2, <2>3, <2>4, <3>1 DEF LoopInv, new
  <2>6. CASE r.run = <<b>> /\ b \in Command /\ Len(t) \in Special(t)
    <3>1. new.run = Append(acc.run, b)
      BY <1>4, <2>3, <2>6
    <3>2. "." \in Range(new.run) <=> b = "."
      <4>1. /\ DOMAIN new.run = 1..(Len(acc.run) + 1) /\ DOMAIN acc.run = 1..Len(acc.run)
            /\ new.run[Len(acc.run) + 1] = b
            /\ \A i \in 1..Len(acc.run) : new.run[i] = acc.run[i]
        BY <1>4, <2>6, <3>1
      <4>2. Len(acc.run) \in Nat
        BY <1>4
      <4>3. \A i \in 1..(Len(acc.run) + 1) : i \in 1..Len(acc.run) \/ i = Len(acc.run) + 1
        BY <4>2
      <4>4. Len(acc.run) + 1 \in 1..(Len(acc.run) + 1)
        BY <4>2
      <4> QED BY <1>6, <4>1, <4>3, <4>4 DEF Range
    <3>3. CASE b = "."
      <4>1. Len(new.run) > 0 /\ Last(new.run) = "."
        BY <1>4, <2>6, <3>1, <3>3 DEF Last
      <4>2. Len(t) \in 1..Len(t)
        BY <2>6, SpecialIn
      <4>3. Len(t) \in Special(u) /\ Len(t) < Len(u) /\ u[Len(t) + 1] = "."
        BY <1>2, <1>3, <2>6, <3>3, <4>2, SpecialNext
      <4> QED BY <1>1, <3>2, <3>3, <4>1, <4>3 DEF LoopInv, new
    <3>4. CASE b # "."
      BY <1>1, <1>6, <2>2, <2>3, <2>4, <3>2, <3>4 DEF LoopInv, new
    <3> QED BY <3>3, <3>4
  <2> QED BY <2>2, <2>5, <2>6
<1> QED BY <1>5, <1>6

LEMMA LoopHolds ==
    ASSUME NEW t \in Seq(Byte), NEW buf \in Seq(Byte), NEW st \in States, NEW out \in Seq(Byte),
           Interpreted(t, st, out), NEW run, LoopRun(run, st, buf)
    PROVE  LoopInv(t \o buf, run[Len(buf)], out)
<1> DEFINE n == Len(buf)
           T == {k \in Nat : k <= n => LoopInv(Upto(t, buf, k), run[k], out)}
<1>1. n \in Nat
  OBVIOUS
<1>2. 0 \in T
  <2>1. run[0] = StartAcc(st)
    BY DEF LoopRun
  <2>2. "." \notin Range(run[0].run) /\ run[0].state = st /\ run[0].send = <<>>
    BY <2>1 DEF StartAcc, Range
  <2>3. out \o <<>> = out
    OBVIOUS
  <2>4. LoopInv(t, run[0], out)
    BY <2>2, <2>3 DEF LoopInv
  <2>5. Upto(t, buf, 0) = t
    BY UptoParts
  <2> QED BY <2>4, <2>5
<1>3. ASSUME NEW k \in Nat, k \in T PROVE k + 1 \in T
  <2>1. CASE k + 1 <= n
    <3>1. k + 1 \in 1..n /\ k \in 0..n /\ (k + 1) - 1 = k /\ k <= n
      BY <1>1, <2>1
    <3>2. LoopInv(Upto(t, buf, k), run[k], out)
      BY <1>3, <3>1
    <3>3. run[k + 1] = NextAcc(run[k], buf[k + 1]) /\ run[k] \in Accs /\ buf[k + 1] \in Byte
      <4>1. run[k + 1] = NextAcc(run[(k + 1) - 1], buf[k + 1])
        BY <3>1 DEF LoopRun
      <4>2. run[k] \in Accs
        BY <3>1 DEF LoopRun
      <4>3. buf[k + 1] \in Byte
        BY <3>1
      <4> QED BY <3>1, <4>1, <4>2, <4>3
    <3>4. Upto(t, buf, k) \in Seq(Byte)
      BY <3>1, UptoParts
    <3>5. LoopInv(Append(Upto(t, buf, k), buf[k + 1]), run[k + 1], out)
      BY <3>2, <3>3, <3>4, LoopStep
    <3>6. Upto(t, buf, k + 1) = Append(Upto(t, buf, k), buf[k + 1])
      BY <2>1, UptoParts
    <3>7. LoopInv(Upto(t, buf, k + 1), run[k + 1], out)
      BY <3>5, <3>6
    <3> QED BY <3>7
  <2> QED BY <2>1
<1> HIDE DEF T
<1>4. n \in T
  BY <1>1, <1>2, <1>3, SetInduction
<1>5. LoopInv(Upto(t, buf, n), run[n], out)
  BY <1>1, <1>4 DEF T
<1>6. Upto(t, buf, n) = t \o buf
  BY UptoParts
<1> QED BY <1>5, <1>6

-----------------------------------------------------------------------------
(***************************************************************************)
(* The inductive invariant of the escapes: OnlyEscapesWithheld, and what    *)
(* the state newline means.                                                 *)
(***************************************************************************)
EscapeTypes ==
    /\ escState \in States /\ stream \in Seq(Byte) /\ commands \in Seq(Command)
    /\ left \in BOOLEAN /\ buffers \in Seq(Seq(Byte))

LeftInv ==
    /\ stream = SentOf(FlattenSeq(Front(buffers)))
    /\ Last(commands) = "."
    /\ \E i \in Special(Typed) : i < Len(Typed) /\ Typed[i+1] = "."

EscapeInv ==
    /\ EscapeTypes
    /\ ~left => Interpreted(Typed, escState, stream)
    /\ left => LeftInv

LEMMA EscapeInvSays == EscapeInv => OnlyEscapesWithheld
<1> SUFFICES ASSUME EscapeInv PROVE OnlyEscapesWithheld
  OBVIOUS
<1>1. CASE left
  BY <1>1 DEF EscapeInv, LeftInv, OnlyEscapesWithheld, SentOf, Kept
<1>2. CASE ~left
  BY <1>2 DEF EscapeInv, Interpreted, OnlyEscapesWithheld, SentOf, Kept
<1> QED BY <1>1, <1>2

\* The three facts on the invariant: at the start, when nothing is fed, and
\* for a buffer that is fed.
LEMMA EscapeInvInit == EscapeInit => EscapeInv
<1> SUFFICES ASSUME EscapeInit PROVE EscapeInv
  OBVIOUS
<1>1. escState = "newline" /\ stream = <<>> /\ commands = <<>> /\ left = FALSE /\ buffers = <<>>
  BY DEF EscapeInit
<1>2. EscapeTypes
  <2>1. /\ escState \in States /\ left \in BOOLEAN
    BY <1>1 DEF States
  <2>2. stream \in Seq(Byte)
    <3>1. \A S : <<>> \in Seq(S)
      OBVIOUS
    <3> QED BY <1>1, <3>1
  <2>3. commands \in Seq(Command)
    <3>1. \A S : <<>> \in Seq(S)
      OBVIOUS
    <3> QED BY <1>1, <3>1
  <2>4. buffers \in Seq(Seq(Byte))
    <3>1. \A S : <<>> \in Seq(S)
      OBVIOUS
    <3> QED BY <1>1, <3>1
  <2> QED BY <2>1, <2>2, <2>3, <2>4 DEF EscapeTypes
<1>3. Typed = <<>>
  BY <1>1 DEF Typed, FlattenSeq
<1>4. <<>> \in Seq(Byte) /\ Len(<<>>) = 0
  OBVIOUS
<1>5. SentOf(<<>>) = <<>>
  BY <1>4, PickNone DEF SentOf
<1>6. 0 \notin Special(<<>>)
  BY DEF Special
<1>7. Interpreted(Typed, escState, stream)
  BY <1>1, <1>3, <1>4, <1>5, <1>6 DEF Interpreted, AtLineStart, States
<1> QED BY <1>1, <1>2, <1>7 DEF EscapeInv

LEMMA EscapeInvKept == EscapeInv /\ UNCHANGED escapeVars => EscapeInv'
<1> SUFFICES ASSUME EscapeInv, UNCHANGED escapeVars PROVE EscapeInv'
  OBVIOUS
<1>1. /\ escState' = escState /\ stream' = stream /\ commands' = commands /\ left' = left
      /\ buffers' = buffers
  BY DEF escapeVars
<1>2. Typed' = Typed
  BY <1>1 DEF Typed
<1> QED BY <1>1, <1>2 DEF EscapeInv, EscapeTypes, LeftInv

\* feed_stdin follows the reference, whatever the buffer is.
LEMMA FeedBufferStep ==
    ASSUME EscapeInv, NEW buf \in Seq(Byte), FeedBuffer(buf) PROVE EscapeInv'
<1>1. /\ escState \in States /\ stream \in Seq(Byte) /\ commands \in Seq(Command)
      /\ buffers \in Seq(Seq(Byte)) /\ Interpreted(Typed, escState, stream)
  BY DEF EscapeInv, EscapeTypes, FeedBuffer
<1>2. PICK run : LoopRun(run, escState, buf) /\ Interpret(buf) = run[Len(buf)]
  BY <1>1, LoopRunExists
<1>3. PICK t, st, out : t = Typed /\ st = escState /\ out = stream
  OBVIOUS
<1>4. t \in Seq(Byte)
  BY <1>1, <1>3, FlattenType DEF Typed
<1>5. PICK res : res = run[Len(buf)]
  OBVIOUS
<1>6. res \in Accs
  <2>1. Len(buf) \in 0..Len(buf)
    OBVIOUS
  <2> QED BY <1>2, <1>5, <2>1 DEF LoopRun
<1>7. res.state \in States /\ res.send \in Seq(Byte) /\ res.run \in Seq(Command)
  BY <1>6 DEF Accs
<1>8. LoopInv(t \o buf, res, out)
  <2>1. st \in States /\ out \in Seq(Byte) /\ Interpreted(t, st, out) /\ LoopRun(run, st, buf)
    BY <1>1, <1>2, <1>3
  <2> QED BY <1>4, <1>5, <2>1, LoopHolds
<1>9. /\ buffers' = Append(buffers, buf) /\ escState' = res.state
      /\ commands' = commands \o res.run /\ left' = ("." \in Range(res.run))
      /\ stream' = IF left' THEN stream ELSE stream \o res.send
  BY <1>2, <1>5 DEF FeedBuffer
<1>10. Typed' = t \o buf
  BY <1>1, <1>3, <1>9, FlattenAppend DEF Typed
<1>11. EscapeTypes'
  <2>1. buffers' \in Seq(Seq(Byte)) /\ commands' \in Seq(Command)
    BY <1>1, <1>7, <1>9
  <2>2. stream' \in Seq(Byte)
    BY <1>1, <1>7, <1>9
  <2> QED BY <1>7, <1>9, <2>1, <2>2 DEF EscapeTypes
<1>12. CASE "." \in Range(res.run)
  <2>1. left' /\ stream' = stream
    BY <1>9, <1>12
  <2>2. Front(buffers') = buffers
    BY <1>1, <1>9 DEF Front
  <2>3. stream' = SentOf(FlattenSeq(Front(buffers')))
    BY <1>1, <2>1, <2>2 DEF Interpreted, Typed
  <2>4. Last(commands') = "."
    <3>1. Len(res.run) > 0 /\ res.run[Len(res.run)] = "."
      BY <1>8, <1>12 DEF LoopInv, Last
    <3>2. Len(commands \o res.run) = Len(commands) + Len(res.run)
      BY <1>1, <1>7
    <3>3. (commands \o res.run)[Len(commands) + Len(res.run)] = res.run[Len(res.run)]
      BY <1>1, <1>7, <3>1
    <3> QED BY <1>9, <3>1, <3>2, <3>3 DEF Last
  <2>5. \E i \in Special(Typed') : i < Len(Typed') /\ Typed'[i+1] = "."
    BY <1>8, <1>10, <1>12 DEF LoopInv
  <2>6. LeftInv'
    BY <2>3, <2>4, <2>5 DEF LeftInv
  <2> QED BY <1>11, <2>1, <2>6 DEF EscapeInv
<1>13. CASE "." \notin Range(res.run)
  <2>1. ~left' /\ stream' = stream \o res.send
    BY <1>9, <1>13
  <2>2. Interpreted(t \o buf, res.state, out \o res.send)
    BY <1>8, <1>13 DEF LoopInv
  <2>3. Interpreted(Typed', escState', stream')
    BY <1>3, <1>9, <1>10, <2>1, <2>2
  <2>4. Interpreted(Typed, escState, stream)'
    BY <2>3 DEF Interpreted
  <2> QED BY <1>11, <2>1, <2>4 DEF EscapeInv
<1> QED BY <1>12, <1>13

-----------------------------------------------------------------------------
(***************************************************************************)
(* Keys that one reader, or the other, is given in one read.                *)
(***************************************************************************)
Agree(keep, keep2, m) == \A i \in 1..m : i \in keep <=> i \in keep2
Copied(f, t, keep2, m, n) == \A i \in 1..n : f[i] = t[m + i] /\ m + i \in keep2
Skipped(keep2, m, n) == \A i \in 1..n : m + i \notin keep2

\* n positions more that are all kept, or all left out.
LEMMA PickBlock ==
    ASSUME NEW t \in Seq(Byte), NEW keep, NEW keep2, NEW m \in Nat, NEW n \in Nat,
           m + n <= Len(t), NEW f \in Seq(Byte), n <= Len(f),
           Copied(f, t, keep2, m, n), Agree(keep, keep2, m)
    PROVE  Pick(t, keep2, m + n) = Pick(t, keep, m) \o SubSeq(f, 1, n)
<1> DEFINE p == Pick(t, keep, m)
           T == {k \in Nat : k <= n => Pick(t, keep2, m + k) = Upto(p, f, k)}
<1>1. m \in 0..Len(t) /\ m <= Len(t)
  OBVIOUS
<1>2. p \in Seq(Byte)
  BY <1>1, PickType
<1>3. Pick(t, keep2, m) = p
  BY <1>1, PickSame DEF Agree
<1> HIDE DEF p
<1>4. 0 \in T
  <2>1. Upto(p, f, 0) = p
    BY <1>2, UptoParts
  <2>2. m + 0 = m
    OBVIOUS
  <2> QED BY <1>3, <2>1, <2>2
<1>5. ASSUME NEW k \in Nat, k \in T PROVE k + 1 \in T
  <2>1. CASE k + 1 <= n
    <3>1. k + 1 \in 1..n /\ k <= n /\ m + (k + 1) = (m + k) + 1 /\ m + k \in Nat
          /\ (m + k) + 1 <= Len(t) /\ k + 1 <= Len(f)
      BY <2>1
    <3>2. Pick(t, keep2, m + k) = Upto(p, f, k)
      BY <1>5, <3>1
    <3>3. f[k + 1] = t[(m + k) + 1] /\ (m + k) + 1 \in keep2
      BY <3>1 DEF Copied
    <3>4. Pick(t, keep2, (m + k) + 1) = Append(Pick(t, keep2, m + k), t[(m + k) + 1])
      BY <3>1, <3>3, PickNext
    <3>5. Upto(p, f, k + 1) = Append(Upto(p, f, k), f[k + 1])
      BY <1>2, <3>1, UptoParts
    <3>6. Pick(t, keep2, m + (k + 1)) = Upto(p, f, k + 1)
      BY <3>1, <3>2, <3>3, <3>4, <3>5
    <3> QED BY <3>6
  <2> QED BY <2>1
<1> HIDE DEF T
<1>6. n \in T
  BY <1>4, <1>5, SetInduction
<1>7. Pick(t, keep2, m + n) = Upto(p, f, n)
  BY <1>6 DEF T
<1> QED BY <1>7 DEF Upto, p

LEMMA PickSkip ==
    ASSUME NEW t \in Seq(Byte), NEW keep, NEW keep2, NEW m \in Nat, NEW n \in Nat,
           m + n <= Len(t), Skipped(keep2, m, n), Agree(keep, keep2, m)
    PROVE  Pick(t, keep2, m + n) = Pick(t, keep, m)
<1> DEFINE T == {k \in Nat : k <= n => Pick(t, keep2, m + k) = Pick(t, keep, m)}
<1>1. m <= Len(t)
  OBVIOUS
<1>2. Pick(t, keep2, m) = Pick(t, keep, m)
  BY <1>1, PickSame DEF Agree
<1>3. 0 \in T
  <2>1. m + 0 = m
    OBVIOUS
  <2> QED BY <1>2, <2>1
<1>4. ASSUME NEW k \in Nat, k \in T PROVE k + 1 \in T
  <2>1. CASE k + 1 <= n
    <3>1. k + 1 \in 1..n /\ k <= n /\ m + (k + 1) = (m + k) + 1 /\ m + k \in Nat
          /\ (m + k) + 1 <= Len(t)
      BY <2>1
    <3>2. Pick(t, keep2, m + k) = Pick(t, keep, m)
      BY <1>4, <3>1
    <3>3. (m + k) + 1 \notin keep2
      BY <3>1 DEF Skipped
    <3>4. Pick(t, keep2, (m + k) + 1) = Pick(t, keep2, m + k)
      BY <3>1, <3>3, PickNext
    <3>5. Pick(t, keep2, m + (k + 1)) = Pick(t, keep, m)
      BY <3>1, <3>2, <3>4
    <3> QED BY <3>5
  <2> QED BY <2>1
<1> HIDE DEF T
<1>5. n \in T
  BY <1>3, <1>4, SetInduction
<1> QED BY <1>5 DEF T

Who == {"reader", "help"}
TakenIn(taken, t, who) == Pick(t, {i \in DOMAIN taken : taken[i] = who}, Len(taken))

Given(new, taken, n, who) == new = taken \o [i \in 1..n |-> who]
NextKeys(f, t, m, n) == \A i \in 1..n : f[i] = t[m + i]

\* n keys more for who, the first n of f: nothing else changes hands.
LEMMA TakenNext ==
    ASSUME NEW t \in Seq(Byte), NEW taken \in Seq(Who), NEW who \in Who, NEW n \in Nat,
           NEW f \in Seq(Byte), n <= Len(f), Len(taken) + n <= Len(t),
           NextKeys(f, t, Len(taken), n), NEW new, Given(new, taken, n, who)
    PROVE  /\ new \in Seq(Who) /\ Len(new) = Len(taken) + n
           /\ TakenIn(new, t, who) = TakenIn(taken, t, who) \o SubSeq(f, 1, n)
           /\ \A x \in Who \ {who} : TakenIn(new, t, x) = TakenIn(taken, t, x)
<1> DEFINE more == [i \in 1..n |-> who]
           Mine(s, x) == {i \in DOMAIN s : s[i] = x}
<1>1. more \in Seq(Who) /\ Len(more) = n /\ \A i \in 1..n : more[i] = who
  OBVIOUS
<1>2. PICK m \in Nat : m = Len(taken)
  OBVIOUS
<1>3. m + n <= Len(t) /\ \A i \in 1..n : f[i] = t[m + i]
  BY <1>2 DEF NextKeys
<1> HIDE DEF more
<1>4. new \in Seq(Who) /\ Len(new) = m + n /\ new = taken \o more
  BY <1>1, <1>2 DEF more, Given
<1>5. /\ \A i \in 1..m : new[i] = taken[i]
      /\ \A i \in 1..n : new[m + i] = who
  BY <1>1, <1>2, <1>4
<1>6. DOMAIN new = 1..(m + n) /\ DOMAIN taken = 1..m
  BY <1>2, <1>4
<1>7. \A x : \A i \in 1..m : i \in Mine(taken, x) <=> i \in Mine(new, x)
  BY <1>5, <1>6
<1>8. \A x : \A i \in 1..n : m + i \in Mine(new, x) <=> x = who
  <2> TAKE x
  <2> TAKE i \in 1..n
  <2>1. m + i \in DOMAIN new
    BY <1>6
  <2>2. new[m + i] = who
    BY <1>5
  <2> QED BY <2>1, <2>2
<1>9. \A x : /\ TakenIn(new, t, x) = Pick(t, Mine(new, x), m + n)
             /\ TakenIn(taken, t, x) = Pick(t, Mine(taken, x), m)
  BY <1>2, <1>4 DEF TakenIn
<1> HIDE DEF Mine
<1>10. Pick(t, Mine(new, who), m + n) = Pick(t, Mine(taken, who), m) \o SubSeq(f, 1, n)
  <2>1. PICK keep, keep2 : keep = Mine(taken, who) /\ keep2 = Mine(new, who)
    OBVIOUS
  <2>2. Copied(f, t, keep2, m, n)
    BY <1>3, <1>8, <2>1 DEF Copied
  <2>3. Agree(keep, keep2, m)
    BY <1>7, <2>1 DEF Agree
  <2>4. m + n <= Len(t)
    BY <1>3
  <2>5. Pick(t, keep2, m + n) = Pick(t, keep, m) \o SubSeq(f, 1, n)
    BY <2>2, <2>3, <2>4, PickBlock
  <2> QED BY <2>1, <2>5
<1>11. ASSUME NEW x \in Who \ {who}
       PROVE  Pick(t, Mine(new, x), m + n) = Pick(t, Mine(taken, x), m)
  <2>1. PICK keep, keep2 : keep = Mine(taken, x) /\ keep2 = Mine(new, x)
    OBVIOUS
  <2>2. Skipped(keep2, m, n)
    BY <1>8, <2>1 DEF Skipped
  <2>3. Agree(keep, keep2, m)
    BY <1>7, <2>1 DEF Agree
  <2>4. m + n <= Len(t)
    BY <1>3
  <2>5. Pick(t, keep2, m + n) = Pick(t, keep, m)
    BY <2>2, <2>3, <2>4, PickSkip
  <2> QED BY <2>1, <2>5
<1> QED BY <1>2, <1>4, <1>9, <1>10, <1>11

-----------------------------------------------------------------------------
(***************************************************************************)
(* The inductive invariant of the keyboard: each key typed is with a reader,*)
(* in the library's buffer or in the kernel, in this order.                 *)
(***************************************************************************)
OnWay(m, buf, kernel, t) ==
    /\ m + Len(buf) + Len(kernel) = Len(t)
    /\ \A i \in 1..Len(buf) : buf[i] = t[m + i]
    /\ \A i \in 1..Len(kernel) : kernel[i] = t[(m + Len(buf)) + i]

KeyTypes ==
    /\ tty \in Seq(Byte) /\ stdinBuf \in Seq(Byte) /\ typed \in Seq(Byte)
    /\ takenBy \in Seq(Who) /\ event_rx \in Seq(Seq(Byte)) /\ helps \in Int

KeyboardInv ==
    /\ EscapeInv /\ KeyTypes
    /\ OnWay(Len(takenBy), stdinBuf, tty, typed)
    /\ KeysAccountedFor

LEMMA TakenType ==
    ASSUME NEW t \in Seq(Byte), NEW taken \in Seq(Who), Len(taken) <= Len(t), NEW x
    PROVE  TakenIn(taken, t, x) \in Seq(Byte)
<1>1. PICK keep : keep = {i \in DOMAIN taken : taken[i] = x}
  OBVIOUS
<1>2. PICK n : n = Len(taken) /\ n \in 0..Len(t)
  OBVIOUS
<1>3. Pick(t, keep, n) \in Seq(Byte)
  BY <1>2, PickType
<1> QED BY <1>1, <1>2, <1>3 DEF TakenIn

\* A key that is pressed changes nothing of what was read before.
LEMMA TakenPressed ==
    ASSUME NEW t \in Seq(Byte), NEW b \in Byte, NEW taken \in Seq(Who), Len(taken) <= Len(t), NEW x
    PROVE  TakenIn(taken, Append(t, b), x) = TakenIn(taken, t, x)
<1>1. PICK keep : keep = {i \in DOMAIN taken : taken[i] = x}
  OBVIOUS
<1>2. PICK u : u = Append(t, b)
  OBVIOUS
<1>3. PICK n \in Nat : n = Len(taken)
  OBVIOUS
<1>4. /\ u \in Seq(Byte) /\ n <= Len(t) /\ n <= Len(u)
      /\ \A i \in 1..n : t[i] = u[i] /\ (i \in keep <=> i \in keep)
  BY <1>2, <1>3
<1>5. Pick(t, keep, n) = Pick(u, keep, n)
  BY <1>4, PickSame
<1> QED BY <1>1, <1>2, <1>3, <1>5 DEF TakenIn

\* A key pressed is the last on its way.
LEMMA WayPressed ==
    ASSUME NEW m \in Nat, NEW buf \in Seq(Byte), NEW kernel \in Seq(Byte), NEW t \in Seq(Byte),
           NEW b \in Byte, OnWay(m, buf, kernel, t)
    PROVE  OnWay(m, buf, Append(kernel, b), Append(t, b))
<1>1. PICK u, k2 : u = Append(t, b) /\ k2 = Append(kernel, b)
  OBVIOUS
<1>2. Len(u) = Len(t) + 1 /\ u[Len(t) + 1] = b /\ \A i \in 1..Len(t) : u[i] = t[i]
  BY <1>1
<1>3. Len(k2) = Len(kernel) + 1 /\ k2[Len(kernel) + 1] = b /\ \A i \in 1..Len(kernel) : k2[i] = kernel[i]
  BY <1>1
<1>4. PICK lb \in Nat, lk \in Nat, lt \in Nat : lb = Len(buf) /\ lk = Len(kernel) /\ lt = Len(t)
  OBVIOUS
<1>5. m + lb + lk = lt
  BY <1>4 DEF OnWay
<1>6. m + Len(buf) + Len(k2) = Len(u)
  <2>1. Len(k2) = lk + 1 /\ Len(u) = lt + 1 /\ Len(buf) = lb
    BY <1>2, <1>3, <1>4
  <2>2. m + lb + (lk + 1) = lt + 1
    BY <1>5
  <2> QED BY <2>1, <2>2
<1>7. ASSUME NEW i \in 1..Len(buf) PROVE buf[i] = u[m + i]
  <2>1. m + i \in 1..Len(t)
    BY <1>4, <1>5
  <2>2. buf[i] = t[m + i]
    BY DEF OnWay
  <2> QED BY <1>2, <2>1, <2>2
<1>8. ASSUME NEW i \in 1..Len(k2) PROVE k2[i] = u[(m + Len(buf)) + i]
  <2>1. CASE i \in 1..Len(kernel)
    <3>1. (m + Len(buf)) + i \in 1..Len(t)
      BY <1>4, <1>5, <2>1
    <3>2. kernel[i] = t[(m + Len(buf)) + i]
      BY <2>1 DEF OnWay
    <3> QED BY <1>2, <1>3, <2>1, <3>1, <3>2
  <2>2. CASE i \notin 1..Len(kernel)
    <3>1. i = lk + 1 /\ (m + lb) + i = lt + 1
      <4>1. Len(k2) = lk + 1 /\ Len(kernel) = lk
        BY <1>3, <1>4
      <4>2. i \in 1..(lk + 1) /\ i \notin 1..lk
        BY <2>2, <4>1
      <4>3. i = lk + 1
        BY <4>2
      <4> QED BY <1>5, <4>3
    <3> QED BY <1>2, <1>3, <1>4, <3>1
  <2> QED BY <2>1, <2>2
<1>9. OnWay(m, buf, k2, u)
  BY <1>6, <1>7, <1>8 DEF OnWay
<1> QED BY <1>1, <1>9

\* A read finds the buffer, or else fills it from the kernel: the keys that
\* come next, in both cases.
LEMMA WayFilled ==
    ASSUME NEW m \in Nat, NEW buf \in Seq(Byte), NEW kernel \in Seq(Byte), NEW t \in Seq(Byte),
           OnWay(m, buf, kernel, t)
    PROVE  OnWay(m, IF buf # <<>> THEN buf ELSE kernel, IF buf # <<>> THEN kernel ELSE <<>>, t)
<1>1. CASE buf # <<>>
  BY <1>1
<1>2. CASE buf = <<>>
  <2>1. Len(buf) = 0
    BY <1>2
  <2>2. Len(kernel) \in Nat /\ m + 0 = m
    OBVIOUS
  <2>3. m + Len(kernel) = Len(t) /\ \A i \in 1..Len(kernel) : kernel[i] = t[m + i]
    BY <2>1, <2>2 DEF OnWay
  <2>4. OnWay(m, kernel, <<>>, t)
    <3>1. Len(<<>>) = 0
      OBVIOUS
    <3>2. m + Len(kernel) + Len(<<>>) = Len(t)
      BY <2>2, <2>3, <3>1
    <3>3. \A i \in 1..Len(<<>>) : <<>>[i] = t[(m + Len(kernel)) + i]
      BY <3>1
    <3> QED BY <2>3, <3>2, <3>3 DEF OnWay
  <2> QED BY <1>2, <2>4
<1> QED BY <1>1, <1>2

\* Taking the first n keys of the buffer.
LEMMA WayRead ==
    ASSUME NEW m \in Nat, NEW f \in Seq(Byte), NEW kernel \in Seq(Byte), NEW t \in Seq(Byte),
           OnWay(m, f, kernel, t), NEW n \in Nat, n <= Len(f)
    PROVE  OnWay(m + n, SubSeq(f, n + 1, Len(f)), kernel, t)
<1>1. PICK rest : rest = SubSeq(f, n + 1, Len(f))
  OBVIOUS
<1>2. PICK lf \in Nat : lf = Len(f)
  OBVIOUS
<1>3. Len(rest) = lf - n /\ \A i \in 1..(lf - n) : rest[i] = f[n + i]
  BY <1>1, <1>2
<1>4. (m + n) + Len(rest) = m + lf /\ lf - n \in Nat /\ n <= lf
  BY <1>2, <1>3
<1>5. ASSUME NEW i \in 1..Len(rest) PROVE rest[i] = t[(m + n) + i]
  <2>1. i \in 1..(lf - n) /\ n + i \in 1..lf /\ m + (n + i) = (m + n) + i
    BY <1>3, <1>4
  <2>2. f[n + i] = t[m + (n + i)]
    BY <1>2, <2>1 DEF OnWay
  <2> QED BY <1>3, <2>1, <2>2
<1>6. /\ m + lf + Len(kernel) = Len(t)
      /\ \A i \in 1..Len(kernel) : kernel[i] = t[(m + lf) + i]
  BY <1>2 DEF OnWay
<1>7. OnWay(m + n, rest, kernel, t)
  BY <1>4, <1>5, <1>6 DEF OnWay
<1> QED BY <1>1, <1>7

\* What a read does to the keys, whoever reads and however many he takes.
LEMMA ReadKeys ==
    ASSUME NEW m \in Nat, NEW f \in Seq(Byte), NEW kernel \in Seq(Byte), NEW t \in Seq(Byte),
           OnWay(m, f, kernel, t), NEW taken \in Seq(Who), m = Len(taken),
           NEW who \in Who, NEW n \in Nat, n <= Len(f), NEW new, Given(new, taken, n, who)
    PROVE  /\ SubSeq(f, n + 1, Len(f)) \in Seq(Byte)
           /\ new \in Seq(Who)
           /\ OnWay(Len(new), SubSeq(f, n + 1, Len(f)), kernel, t)
           /\ TakenIn(new, t, who) = TakenIn(taken, t, who) \o SubSeq(f, 1, n)
           /\ \A x \in Who \ {who} : TakenIn(new, t, x) = TakenIn(taken, t, x)
<1>1. OnWay(m + n, SubSeq(f, n + 1, Len(f)), kernel, t)
  BY WayRead
<1>2. Len(taken) + n <= Len(t) /\ NextKeys(f, t, Len(taken), n)
  <2>1. PICK lf \in Nat, lk \in Nat : lf = Len(f) /\ lk = Len(kernel)
    OBVIOUS
  <2>2. m + lf + lk = Len(t) /\ \A i \in 1..lf : f[i] = t[m + i]
    BY <2>1 DEF OnWay
  <2> QED BY <2>1, <2>2 DEF NextKeys
<1>3. /\ new \in Seq(Who) /\ Len(new) = Len(taken) + n
      /\ TakenIn(new, t, who) = TakenIn(taken, t, who) \o SubSeq(f, 1, n)
      /\ \A x \in Who \ {who} : TakenIn(new, t, x) = TakenIn(taken, t, x)
  BY <1>2, TakenNext
<1>4. SubSeq(f, n + 1, Len(f)) \in Seq(Byte)
  OBVIOUS
<1> QED BY <1>1, <1>3, <1>4

LEMMA HelpsType == ASSUME NEW cmds \in Seq(Command) PROVE Helps(cmds) \in Nat
<1>1. IsFiniteSet(1..Len(cmds))
  BY FS_Interval
<1>2. {i \in DOMAIN cmds : cmds[i] = "?"} \subseteq 1..Len(cmds)
  OBVIOUS
<1>3. IsFiniteSet({i \in DOMAIN cmds : cmds[i] = "?"})
  BY <1>1, <1>2, FS_Subset
<1> QED BY <1>3, FS_CardinalityType DEF Helps

\* Feeding the channel's first buffer moves it, and a buffer more is fed last.
LEMMA ConcatMoves ==
    ASSUME NEW S, NEW a \in Seq(S), NEW e \in Seq(S), e # <<>>
    PROVE  Append(a, Head(e)) \o Tail(e) = a \o e
OBVIOUS

LEMMA ConcatAppend ==
    ASSUME NEW S, NEW a \in Seq(S), NEW e \in Seq(S), NEW b \in S
    PROVE  a \o Append(e, b) = Append(a \o e, b)
OBVIOUS

-----------------------------------------------------------------------------
LEMMA KeyboardInvInit == KeyboardInit => KeyboardInv
<1> SUFFICES ASSUME KeyboardInit PROVE KeyboardInv
  OBVIOUS
<1>1. /\ tty = <<>> /\ stdinBuf = <<>> /\ event_rx = <<>> /\ helps = 0
      /\ typed = <<>> /\ takenBy = <<>> /\ EscapeInit
  BY DEF KeyboardInit
<1>2. EscapeInv
  BY <1>1, EscapeInvInit
<1>3. \A S : <<>> \in Seq(S)
  OBVIOUS
<1>4. KeyTypes
  BY <1>1, <1>3 DEF KeyTypes
<1>5. Len(<<>>) = 0
  OBVIOUS
<1>6. OnWay(Len(takenBy), stdinBuf, tty, typed)
  BY <1>1, <1>5 DEF OnWay
<1>7. \A x : KeysOf(x) = <<>>
  <2>1. \A keep : Pick(<<>>, keep, 0) = <<>>
    <3>1. PICK t \in Seq(Byte) : t = <<>>
      BY <1>3
    <3>2. \A keep : Pick(t, keep, 0) = <<>>
      BY PickNone
    <3> QED BY <3>1, <3>2
  <2> QED BY <1>1, <1>5, <2>1 DEF KeysOf
<1>8. FlattenSeq(buffers \o event_rx) = <<>>
  <2>1. buffers = <<>> /\ <<>> \o <<>> = <<>>
    BY <1>1 DEF EscapeInit
  <2>2. FlattenSeq(<<>>) = <<>>
    BY DEF FlattenSeq
  <2> QED BY <1>1, <2>1, <2>2
<1>9. Helps(commands) = 0
  <2>1. commands = <<>>
    BY <1>1 DEF EscapeInit
  <2>2. {i \in DOMAIN commands : commands[i] = "?"} = {}
    BY <2>1
  <2> QED BY <2>2, FS_EmptySet DEF Helps
<1>10. KeysAccountedFor
  BY <1>1, <1>5, <1>7, <1>8, <1>9 DEF KeysAccountedFor
<1> QED BY <1>2, <1>4, <1>6, <1>10 DEF KeyboardInv

\* Taken and the keys on their way, without the variables.
LEMMA KeyboardInvParts ==
    ASSUME KeyboardInv
    PROVE  /\ EscapeInv /\ KeyTypes
           /\ OnWay(Len(takenBy), stdinBuf, tty, typed)
           /\ Len(takenBy) \in Nat /\ Len(takenBy) <= Len(typed)
           /\ FlattenSeq(buffers \o event_rx) = TakenIn(takenBy, typed, "reader")
           /\ Len(TakenIn(takenBy, typed, "help")) + helps = Helps(commands)
           /\ buffers \in Seq(Seq(Byte)) /\ commands \in Seq(Command)
<1>1. EscapeInv /\ KeyTypes /\ OnWay(Len(takenBy), stdinBuf, tty, typed) /\ KeysAccountedFor
  BY DEF KeyboardInv
<1>2. Len(takenBy) \in Nat /\ Len(takenBy) <= Len(typed)
  <2>1. Len(takenBy) \in Nat /\ Len(stdinBuf) \in Nat /\ Len(tty) \in Nat /\ Len(typed) \in Nat
    BY <1>1 DEF KeyTypes
  <2>2. Len(takenBy) + Len(stdinBuf) + Len(tty) = Len(typed)
    BY <1>1 DEF OnWay
  <2> QED BY <2>1, <2>2
<1> QED BY <1>1, <1>2 DEF KeysAccountedFor, KeysOf, TakenIn, EscapeInv, EscapeTypes

\* The actions, one by one.
LEMMA PressStep ==
    ASSUME KeyboardInv, NEW b \in Byte, Press(b) PROVE KeyboardInv'
<1>1. /\ tty' = Append(tty, b) /\ typed' = Append(typed, b) /\ stdinBuf' = stdinBuf
      /\ event_rx' = event_rx /\ helps' = helps /\ takenBy' = takenBy /\ UNCHANGED escapeVars
  BY DEF Press
<1>2. buffers' = buffers /\ commands' = commands
  BY <1>1 DEF escapeVars
<1>3. EscapeInv'
  BY <1>1, KeyboardInvParts, EscapeInvKept
<1>4. KeyTypes
  BY KeyboardInvParts
<1>5. KeyTypes'
  BY <1>1, <1>4 DEF KeyTypes
<1>6. PICK m, taken, buf, kernel, t : /\ m = Len(takenBy) /\ taken = takenBy /\ buf = stdinBuf
                                      /\ kernel = tty /\ t = typed
  OBVIOUS
<1>7. /\ m \in Nat /\ m = Len(taken) /\ Len(taken) <= Len(t) /\ taken \in Seq(Who)
      /\ buf \in Seq(Byte) /\ kernel \in Seq(Byte) /\ t \in Seq(Byte) /\ OnWay(m, buf, kernel, t)
  BY <1>4, <1>6, KeyboardInvParts DEF KeyTypes
<1>8. OnWay(m, buf, Append(kernel, b), Append(t, b))
  BY <1>7, WayPressed
<1>9. \A x : TakenIn(taken, Append(t, b), x) = TakenIn(taken, t, x)
  BY <1>7, TakenPressed
<1>10. OnWay(Len(takenBy'), stdinBuf', tty', typed')
  BY <1>1, <1>6, <1>8
<1>11. \A x : TakenIn(takenBy', typed', x) = TakenIn(takenBy, typed, x)
  BY <1>1, <1>6, <1>9
<1>12. /\ FlattenSeq(buffers' \o event_rx') = TakenIn(takenBy', typed', "reader")
       /\ Len(TakenIn(takenBy', typed', "help")) + helps' = Helps(commands')
  BY <1>1, <1>2, <1>11, KeyboardInvParts
<1>13. (OnWay(Len(takenBy), stdinBuf, tty, typed))'
  BY <1>10 DEF OnWay
<1>14. /\ (FlattenSeq(buffers \o event_rx) = TakenIn(takenBy, typed, "reader"))'
       /\ (Len(TakenIn(takenBy, typed, "help")) + helps = Helps(commands))'
  BY <1>12
<1> QED BY <1>3, <1>5, <1>13, <1>14 DEF KeyboardInv, KeysAccountedFor, KeysOf, TakenIn, OnWay


\* Taking the lock, and a step that changes nothing.
LEMMA LockStep ==
    ASSUME KeyboardInv,
           UNCHANGED <<escapeVars, tty, stdinBuf, event_rx, helps, typed, takenBy>>
    PROVE  KeyboardInv'
<1>1. /\ tty' = tty /\ typed' = typed /\ stdinBuf' = stdinBuf /\ event_rx' = event_rx
      /\ helps' = helps /\ takenBy' = takenBy /\ UNCHANGED escapeVars
  OBVIOUS
<1>2. buffers' = buffers /\ commands' = commands
  BY <1>1 DEF escapeVars
<1>3. EscapeInv'
  BY <1>1, KeyboardInvParts, EscapeInvKept
<1>4. KeyTypes'
  BY <1>1, KeyboardInvParts DEF KeyTypes
<1>5. (OnWay(Len(takenBy), stdinBuf, tty, typed))'
  BY <1>1, KeyboardInvParts DEF OnWay
<1>6. /\ (FlattenSeq(buffers \o event_rx) = TakenIn(takenBy, typed, "reader"))'
      /\ (Len(TakenIn(takenBy, typed, "help")) + helps = Helps(commands))'
  BY <1>1, <1>2, KeyboardInvParts
<1> QED BY <1>3, <1>4, <1>5, <1>6 DEF KeyboardInv, KeysAccountedFor, KeysOf, TakenIn, OnWay

\* A read, before what the reader does with the keys.
LEMMA ReadStep ==
    ASSUME KeyboardInv, NEW who \in Who, NEW n \in Nat, n <= Len(Filled), Read(who, n)
    PROVE  /\ EscapeInv' /\ buffers' = buffers /\ commands' = commands /\ typed' = typed
           /\ Filled \in Seq(Byte)
           /\ tty' \in Seq(Byte) /\ stdinBuf' \in Seq(Byte) /\ takenBy' \in Seq(Who)
           /\ OnWay(Len(takenBy'), stdinBuf', tty', typed')
           /\ TakenIn(takenBy', typed', who) = TakenIn(takenBy, typed, who) \o SubSeq(Filled, 1, n)
           /\ \A x \in Who \ {who} : TakenIn(takenBy', typed', x) = TakenIn(takenBy, typed, x)
<1>1. /\ stdinBuf' = SubSeq(Filled, n + 1, Len(Filled))
      /\ tty' = (IF stdinBuf # <<>> THEN tty ELSE <<>>)
      /\ takenBy' = takenBy \o [i \in 1..n |-> who]
      /\ UNCHANGED escapeVars /\ typed' = typed
  BY DEF Read
<1>2. buffers' = buffers /\ commands' = commands
  BY <1>1 DEF escapeVars
<1>3. EscapeInv'
  BY <1>1, KeyboardInvParts, EscapeInvKept
<1>4. PICK m, taken, buf, kernel, t : /\ m = Len(takenBy) /\ taken = takenBy /\ buf = stdinBuf
                                      /\ kernel = tty /\ t = typed
  OBVIOUS
<1>5. /\ m \in Nat /\ m = Len(taken) /\ taken \in Seq(Who)
      /\ buf \in Seq(Byte) /\ kernel \in Seq(Byte) /\ t \in Seq(Byte) /\ OnWay(m, buf, kernel, t)
  BY <1>4, KeyboardInvParts DEF KeyTypes
<1>6. PICK f, k2, new : f = Filled /\ k2 = tty' /\ new = takenBy'
  OBVIOUS
<1>7. f = (IF buf # <<>> THEN buf ELSE kernel) /\ k2 = (IF buf # <<>> THEN kernel ELSE <<>>)
  BY <1>1, <1>4, <1>6 DEF Filled
<1>8. OnWay(m, IF buf # <<>> THEN buf ELSE kernel, IF buf # <<>> THEN kernel ELSE <<>>, t)
  BY <1>5, WayFilled
<1>9. OnWay(m, f, k2, t)
  BY <1>7, <1>8
<1>10. f \in Seq(Byte) /\ k2 \in Seq(Byte)
  <2>1. <<>> \in Seq(Byte)
    OBVIOUS
  <2> QED BY <1>5, <1>7, <2>1
<1>11. n <= Len(f) /\ Given(new, taken, n, who)
  BY <1>1, <1>4, <1>6 DEF Given
<1>12. /\ SubSeq(f, n + 1, Len(f)) \in Seq(Byte)
       /\ new \in Seq(Who)
       /\ OnWay(Len(new), SubSeq(f, n + 1, Len(f)), k2, t)
       /\ TakenIn(new, t, who) = TakenIn(taken, t, who) \o SubSeq(f, 1, n)
       /\ \A x \in Who \ {who} : TakenIn(new, t, x) = TakenIn(taken, t, x)
  BY <1>5, <1>9, <1>10, <1>11, ReadKeys
<1> QED BY <1>1, <1>2, <1>3, <1>4, <1>6, <1>10, <1>12

\* The background reader gets all that a read finds, and queues it.
LEMMA ReaderStep == ASSUME KeyboardInv, ReaderRead PROVE KeyboardInv'
<1>1. PICK n : n = Len(Filled)
  OBVIOUS
<1>2. Filled \in Seq(Byte)
  BY KeyboardInvParts DEF KeyTypes, Filled
<1>3. n \in Nat /\ n <= Len(Filled) /\ "reader" \in Who /\ "help" \in Who \ {"reader"}
  BY <1>1, <1>2 DEF Who
<1>4. Read("reader", n) /\ event_rx' = Append(event_rx, Filled) /\ helps' = helps
  BY <1>1 DEF ReaderRead
<1>5. /\ EscapeInv' /\ buffers' = buffers /\ commands' = commands /\ typed' = typed
      /\ tty' \in Seq(Byte) /\ stdinBuf' \in Seq(Byte) /\ takenBy' \in Seq(Who)
      /\ OnWay(Len(takenBy'), stdinBuf', tty', typed')
      /\ TakenIn(takenBy', typed', "reader")
           = TakenIn(takenBy, typed, "reader") \o SubSeq(Filled, 1, n)
      /\ TakenIn(takenBy', typed', "help") = TakenIn(takenBy, typed, "help")
  BY <1>3, <1>4, ReadStep
<1>6. PICK f, e, bs : f = Filled /\ e = event_rx /\ bs = buffers
  OBVIOUS
<1>7. f \in Seq(Byte) /\ e \in Seq(Seq(Byte)) /\ bs \in Seq(Seq(Byte)) /\ n = Len(f)
  BY <1>1, <1>2, <1>6, KeyboardInvParts DEF KeyTypes
<1>8. SubSeq(f, 1, n) = f
  BY <1>7
<1>9. FlattenSeq(bs \o Append(e, f)) = FlattenSeq(bs \o e) \o f
  <2>1. bs \o Append(e, f) = Append(bs \o e, f)
    BY <1>7, ConcatAppend
  <2>2. PICK s : s = bs \o e /\ s \in Seq(Seq(Byte))
    <3>1. \A S : \A x, y \in Seq(S) : x \o y \in Seq(S)
      OBVIOUS
    <3>2. bs \o e \in Seq(Seq(Byte))
      BY <1>7, <3>1
    <3> QED BY <3>2
  <2>3. FlattenSeq(Append(s, f)) = FlattenSeq(s) \o f
    BY <1>7, <2>2, FlattenAppend
  <2> QED BY <2>1, <2>2, <2>3
<1>10. FlattenSeq(buffers' \o event_rx') = TakenIn(takenBy', typed', "reader")
  BY <1>4, <1>5, <1>6, <1>8, <1>9, KeyboardInvParts
<1>11. KeyTypes'
  <2>1. event_rx' \in Seq(Seq(Byte)) /\ helps' \in Int /\ typed' \in Seq(Byte)
    BY <1>2, <1>4, <1>5, KeyboardInvParts DEF KeyTypes
  <2> QED BY <1>5, <2>1 DEF KeyTypes
<1>12. (OnWay(Len(takenBy), stdinBuf, tty, typed))'
  BY <1>5 DEF OnWay
<1>13. Len(TakenIn(takenBy', typed', "help")) + helps' = Helps(commands')
  BY <1>4, <1>5, KeyboardInvParts
<1>14. /\ (FlattenSeq(buffers \o event_rx) = TakenIn(takenBy, typed, "reader"))'
       /\ (Len(TakenIn(takenBy, typed, "help")) + helps = Helps(commands))'
  BY <1>10, <1>13
<1> QED BY <1>5, <1>11, <1>12, <1>14 DEF KeyboardInv, KeysAccountedFor, KeysOf, TakenIn, OnWay

\* The help text gets one key, and is closed.
LEMMA HelpStep == ASSUME KeyboardInv, HelpRead PROVE KeyboardInv'
<1>1. Filled \in Seq(Byte)
  BY KeyboardInvParts DEF KeyTypes, Filled
<1>2. Read("help", 1) /\ event_rx' = event_rx /\ helps' = helps - 1
  BY DEF HelpRead, HelpTakes
<1>3. Filled # <<>>
  BY <1>2 DEF Read
<1>4. 1 \in Nat /\ 1 <= Len(Filled) /\ "help" \in Who /\ "reader" \in Who \ {"help"}
  BY <1>1, <1>3 DEF Who
<1>5. /\ EscapeInv' /\ buffers' = buffers /\ commands' = commands /\ typed' = typed
      /\ tty' \in Seq(Byte) /\ stdinBuf' \in Seq(Byte) /\ takenBy' \in Seq(Who)
      /\ OnWay(Len(takenBy'), stdinBuf', tty', typed')
      /\ TakenIn(takenBy', typed', "help") = TakenIn(takenBy, typed, "help") \o SubSeq(Filled, 1, 1)
      /\ TakenIn(takenBy', typed', "reader") = TakenIn(takenBy, typed, "reader")
  BY <1>2, <1>4, ReadStep
<1>6. PICK f, h, k : /\ f = Filled /\ h = TakenIn(takenBy, typed, "help")
                     /\ k = TakenIn(takenBy', typed', "help")
  OBVIOUS
<1>7. h \in Seq(Byte)
  <2>1. PICK t, taken : t = typed /\ taken = takenBy
    OBVIOUS
  <2>2. t \in Seq(Byte) /\ taken \in Seq(Who) /\ Len(taken) <= Len(t)
    BY <2>1, KeyboardInvParts DEF KeyTypes
  <2>3. TakenIn(taken, t, "help") \in Seq(Byte)
    BY <2>2, TakenType
  <2> QED BY <1>6, <2>1, <2>3
<1>8. Len(k) = Len(h) + 1 /\ Len(h) \in Nat
  <2>1. k = h \o SubSeq(f, 1, 1) /\ f \in Seq(Byte) /\ 1 <= Len(f)
    BY <1>1, <1>4, <1>5, <1>6
  <2>2. Len(SubSeq(f, 1, 1)) = 1 /\ SubSeq(f, 1, 1) \in Seq(Byte)
    BY <2>1
  <2> QED BY <1>7, <2>1, <2>2
<1>9. Len(TakenIn(takenBy', typed', "help")) + helps' = Helps(commands')
  <2>1. helps \in Int /\ Len(h) + helps = Helps(commands)
    BY <1>6, KeyboardInvParts DEF KeyTypes
  <2>2. Len(k) + (helps - 1) = Helps(commands)
    BY <1>8, <2>1
  <2> QED BY <1>2, <1>5, <1>6, <2>2
<1>10. FlattenSeq(buffers' \o event_rx') = TakenIn(takenBy', typed', "reader")
  BY <1>2, <1>5, KeyboardInvParts
<1>11. KeyTypes'
  <2>1. event_rx' \in Seq(Seq(Byte)) /\ helps' \in Int /\ typed' \in Seq(Byte)
    BY <1>2, <1>5, KeyboardInvParts DEF KeyTypes
  <2> QED BY <1>5, <2>1 DEF KeyTypes
<1>12. (OnWay(Len(takenBy), stdinBuf, tty, typed))'
  BY <1>5 DEF OnWay
<1>13. /\ (FlattenSeq(buffers \o event_rx) = TakenIn(takenBy, typed, "reader"))'
       /\ (Len(TakenIn(takenBy, typed, "help")) + helps = Helps(commands))'
  BY <1>9, <1>10
<1> QED BY <1>5, <1>11, <1>12, <1>13 DEF KeyboardInv, KeysAccountedFor, KeysOf, TakenIn, OnWay

\* The event loop feeds a buffer: the keys were counted when they were read.
LEMMA FeedStep == ASSUME KeyboardInv, LoopFeed PROVE KeyboardInv'
<1>1. /\ helps = 0 /\ event_rx # <<>> /\ FeedBuffer(Head(event_rx))
      /\ event_rx' = Tail(event_rx) /\ helps' = Helps(commands') - Helps(commands)
      /\ tty' = tty /\ stdinBuf' = stdinBuf /\ typed' = typed /\ takenBy' = takenBy
  BY DEF LoopFeed
<1>2. /\ event_rx \in Seq(Seq(Byte)) /\ buffers \in Seq(Seq(Byte)) /\ commands \in Seq(Command)
      /\ EscapeInv
  BY KeyboardInvParts DEF KeyTypes
<1>3. PICK b : b = Head(event_rx)
  OBVIOUS
<1>4. b \in Seq(Byte) /\ FeedBuffer(b)
  BY <1>1, <1>2, <1>3
<1>5. EscapeInv'
  BY <1>2, <1>4, FeedBufferStep
<1>6. commands' \in Seq(Command)
  BY <1>5 DEF EscapeInv, EscapeTypes
<1>7. Helps(commands) \in Nat /\ Helps(commands') \in Nat
  <2>1. \A c \in Seq(Command) : Helps(c) \in Nat
    BY HelpsType
  <2> QED BY <1>2, <1>6, <2>1
<1>8. buffers' = Append(buffers, b)
  BY <1>4 DEF FeedBuffer
<1>9. buffers' \o event_rx' = buffers \o event_rx
  <2>1. PICK bs, e : bs = buffers /\ e = event_rx
    OBVIOUS
  <2>2. bs \in Seq(Seq(Byte)) /\ e \in Seq(Seq(Byte)) /\ e # <<>>
    BY <1>1, <1>2, <2>1
  <2>3. Append(bs, Head(e)) \o Tail(e) = bs \o e
    BY <2>2, ConcatMoves
  <2> QED BY <1>1, <1>3, <1>8, <2>1, <2>3
<1>10. FlattenSeq(buffers' \o event_rx') = TakenIn(takenBy', typed', "reader")
  BY <1>1, <1>9, KeyboardInvParts
<1>11. Len(TakenIn(takenBy', typed', "help")) + helps' = Helps(commands')
  <2>1. PICK k : k = Len(TakenIn(takenBy, typed, "help"))
    OBVIOUS
  <2>2. k \in Nat
    <3>1. PICK t, taken : t = typed /\ taken = takenBy
      OBVIOUS
    <3>2. t \in Seq(Byte) /\ taken \in Seq(Who) /\ Len(taken) <= Len(t)
      BY <3>1, KeyboardInvParts DEF KeyTypes
    <3>3. TakenIn(taken, t, "help") \in Seq(Byte)
      BY <3>2, TakenType
    <3> QED BY <2>1, <3>1, <3>3
  <2>3. k + 0 = Helps(commands)
    BY <1>1, <2>1, KeyboardInvParts
  <2>4. k + (Helps(commands') - Helps(commands)) = Helps(commands')
    BY <1>7, <2>2, <2>3
  <2> QED BY <1>1, <2>1, <2>4
<1>12. KeyTypes'
  <2>1. event_rx' \in Seq(Seq(Byte)) /\ helps' \in Int
    BY <1>1, <1>2, <1>7
  <2>2. tty' \in Seq(Byte) /\ stdinBuf' \in Seq(Byte) /\ typed' \in Seq(Byte) /\ takenBy' \in Seq(Who)
    BY <1>1, KeyboardInvParts DEF KeyTypes
  <2> QED BY <2>1, <2>2 DEF KeyTypes
<1>13. (OnWay(Len(takenBy), stdinBuf, tty, typed))'
  BY <1>1, KeyboardInvParts DEF OnWay
<1>14. /\ (FlattenSeq(buffers \o event_rx) = TakenIn(takenBy, typed, "reader"))'
       /\ (Len(TakenIn(takenBy, typed, "help")) + helps = Helps(commands))'
  BY <1>10, <1>11
<1> QED BY <1>5, <1>12, <1>13, <1>14 DEF KeyboardInv, KeysAccountedFor, KeysOf, TakenIn, OnWay

LEMMA KeyboardInvStep == KeyboardInv /\ [KeyboardNext]_vars => KeyboardInv'
<1> SUFFICES ASSUME KeyboardInv, [KeyboardNext]_vars PROVE KeyboardInv'
  OBVIOUS
<1>1. ASSUME NEW b \in Byte, Press(b) PROVE KeyboardInv'
  BY <1>1, PressStep
<1>2. ASSUME NEW who \in {"reader", "help"}, Lock(who) PROVE KeyboardInv'
  BY <1>2, LockStep DEF Lock
<1>3. CASE ReaderRead
  BY <1>3, ReaderStep
<1>4. CASE HelpRead
  BY <1>4, HelpStep
<1>5. CASE LoopFeed
  BY <1>5, FeedStep
<1>6. CASE UNCHANGED vars
  BY <1>6, LockStep DEF vars, keyVars
<1> QED BY <1>1, <1>2, <1>3, <1>4, <1>5, <1>6 DEF KeyboardNext

-----------------------------------------------------------------------------
(***************************************************************************)
(* However the terminal cuts what is typed into buffers, and whenever the   *)
(* help text steps in between, feed_stdin sends the server what it was fed  *)
(* without the escape sequences, in order, and the machine waits for a      *)
(* command exactly after a tilde that starts a line (escape.rs).            *)
(***************************************************************************)
THEOREM SentIsTyped == KeyboardSpec => []OnlyEscapesWithheld
<1>1. KeyboardInit => KeyboardInv
  BY KeyboardInvInit
<1>2. KeyboardInv /\ [KeyboardNext]_vars => KeyboardInv'
  BY KeyboardInvStep
<1>3. KeyboardInv => OnlyEscapesWithheld
  BY EscapeInvSays DEF KeyboardInv
<1> QED BY <1>1, <1>2, <1>3, PTL DEF KeyboardSpec

(***************************************************************************)
(* No key is lost or read twice between the background reader and the help  *)
(* text, whoever wins the lock of the standard input: the session is fed    *)
(* all but one key for each help text that was closed (network.rs).         *)
(***************************************************************************)
THEOREM NoKeyLost == KeyboardSpec => []KeysAccountedFor
<1>1. KeyboardInit => KeyboardInv
  BY KeyboardInvInit
<1>2. KeyboardInv /\ [KeyboardNext]_vars => KeyboardInv'
  BY KeyboardInvStep
<1>3. KeyboardInv => KeysAccountedFor
  BY DEF KeyboardInv
<1> QED BY <1>1, <1>2, <1>3, PTL DEF KeyboardSpec

=============================================================================

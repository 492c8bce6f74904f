-------------------------- MODULE FragmentsProofs ---------------------------
(***************************************************************************)
(* Proofs about Fragments, for any number of packets and of fragments per   *)
(* packet, and any bounds of cache, buffer and network.                     *)
(***************************************************************************)
EXTENDS Fragments, FiniteSetTheorems, WellFoundedInduction, TLAPS

Sent == Cardinality(DOMAIN parts)

(***************************************************************************)
(* The inductive invariant: the types, and that every fragment in the       *)
(* network belongs to a packet that was sent and has that many fragments.   *)
(***************************************************************************)
PacketsOK ==
    /\ Sent \in Nat /\ DOMAIN parts = 1..Sent
    /\ \A s \in 1..Sent : parts[s] \in Nat \ {0}

CacheOK == cache \subseteq 1..Sent /\ Cardinality(cache) <= CacheCap

EntryOK(s, got) == got # {} /\ got \subseteq Indices(s) /\ got # Indices(s)

BufferOK ==
    /\ DOMAIN frames \subseteq 1..Sent /\ Cardinality(DOMAIN frames) <= BufferCap
    /\ \A s \in DOMAIN frames : EntryOK(s, frames[s])

FragmentsOK == \A f \in toClient : f.seq \in 1..Sent /\ f.idx \in Indices(f.seq)

FragInv == PacketsOK /\ CacheOK /\ BufferOK /\ FragmentsOK /\ ackSeqNum \in 0..Sent

-----------------------------------------------------------------------------
(***************************************************************************)
(* Sets of packet numbers are finite, and their counts are numbers.         *)
(***************************************************************************)
LEMMA NumbersFinite ==
    ASSUME NEW n \in Nat, NEW S \in SUBSET (1..n)
    PROVE  IsFiniteSet(S) /\ Cardinality(S) \in Nat
<1>1. IsFiniteSet(1..n)
  BY FS_Interval
<1>2. IsFiniteSet(S)
  BY <1>1, FS_Subset
<1>. QED BY <1>2, FS_CardinalityType

(***************************************************************************)
(* Oldest finds the least of the numbers it is given.                       *)
(***************************************************************************)
LEMMA OldestIsLeast ==
    ASSUME NEW S, S \subseteq Nat, S # {}
    PROVE  Oldest(S) \in S /\ \A t \in S : Oldest(S) <= t
<1>1. \E s \in S : \A t \in S : <<t, s>> \notin OpToRel(<, Nat)
  BY NatLessThanWellFounded, WFMin
<1>2. PICK s \in S : \A t \in S : <<t, s>> \notin OpToRel(<, Nat)
  BY <1>1
<1>3. \A t, u \in Nat : t < u => <<t, u>> \in OpToRel(<, Nat)
  BY DEF OpToRel
<1>4. \A t \in S : t \in Nat /\ s \in Nat /\ ~(t < s)
  BY <1>2, <1>3
<1>5. \A t \in S : s <= t
  BY <1>4
<1>. QED BY <1>5 DEF Oldest

(***************************************************************************)
(* Making room by dropping the oldest keeps a set within its bound when one *)
(* number is added.                                                         *)
(***************************************************************************)
LEMMA KeptIsBounded ==
    ASSUME NEW n \in Nat, NEW S \in SUBSET (1..n), NEW x \in 1..n, Cardinality(S) <= BufferCap
    PROVE  /\ KeptAfter(S \cup {x}) \subseteq S \cup {x}
           /\ Cardinality(KeptAfter(S \cup {x})) <= BufferCap
<1> DEFINE T == S \cup {x}
<1>1. IsFiniteSet(S) /\ Cardinality(S) \in Nat /\ IsFiniteSet(T) /\ T # {} /\ T \subseteq Nat
  <2>1. IsFiniteSet(S) /\ Cardinality(S) \in Nat
    BY NumbersFinite
  <2>2. IsFiniteSet(T)
    BY <2>1, FS_AddElement
  <2>. QED BY <2>1, <2>2
<1>2. Cardinality(T) \in Nat /\ Cardinality(T) <= Cardinality(S) + 1
  BY <1>1, FS_AddElement
<1>3. Oldest(T) \in T
  BY <1>1, OldestIsLeast
<1>4. Cardinality(T \ {Oldest(T)}) = Cardinality(T) - 1
  BY <1>1, <1>3, FS_RemoveElement
<1> HIDE DEF T
<1>5. KeptAfter(T) \subseteq T /\ Cardinality(KeptAfter(T)) <= BufferCap
  BY <1>1, <1>2, <1>4, FragmentsAssumption DEF KeptAfter
<1>. QED BY <1>5 DEF T

(***************************************************************************)
(* A packet whose fragments are all there is complete.                      *)
(***************************************************************************)
LEMMA AllMeansComplete ==
    ASSUME PacketsOK, NEW f, f.seq \in 1..Sent, Received(f) = Indices(f.seq)
    PROVE  IsComplete(f)
<1>1. parts[f.seq] \in Nat \ {0}
  BY DEF PacketsOK
<1>2. Cardinality(0..(parts[f.seq] - 1)) = parts[f.seq]
  BY <1>1, FS_Interval
<1>. QED BY <1>2 DEF IsComplete, Indices

-----------------------------------------------------------------------------
(***************************************************************************)
(* The initial state.                                                       *)
(***************************************************************************)
LEMMA FragInit == FragmentsInit => FragInv
<1> SUFFICES ASSUME FragmentsInit PROVE FragInv
  OBVIOUS
<1>1. DOMAIN parts = {} /\ DOMAIN frames = {} /\ Sent = 0
  BY FS_EmptySet DEF FragmentsInit, Sent
<1>2. Cardinality({}) = 0
  BY FS_EmptySet
<1>. QED BY <1>1, <1>2, FragmentsAssumption
         DEF FragmentsInit, FragInv, PacketsOK, CacheOK, BufferOK, FragmentsOK

(***************************************************************************)
(* Sealing a packet: the numbers stay without gap, and nothing that is said *)
(* of older packets changes.                                                *)
(***************************************************************************)
LEMMA SealKeepsInv ==
    ASSUME FragInv, NEW count \in PartCounts, SealAndSend(count)
    PROVE  FragInv'
<1> USE DEF FragInv
<1> DEFINE seq == Sent + 1
           kept == IF Cardinality(cache) >= CacheCap THEN cache \ {Oldest(cache)} ELSE cache
<1>1. /\ parts' = [s \in 1..seq |-> IF s = seq THEN count ELSE parts[s]]
      /\ cache' = IF count > 1 THEN kept \cup {seq} ELSE cache
      /\ toClient' = toClient \cup {Fragment(seq, i) : i \in 0..(count - 1)}
      /\ frames' = frames /\ ackSeqNum' = ackSeqNum
  BY DEF SealAndSend, Sent
<1>2. Sent \in Nat /\ count \in Nat \ {0}
  BY FragmentsAssumption DEF PacketsOK
<1>3. DOMAIN parts' = 1..seq /\ Sent' = seq
  <2>1. DOMAIN parts' = 1..seq
    BY <1>1
  <2>2. Cardinality(1..seq) = seq
    BY <1>2, FS_Interval
  <2>. QED BY <2>1, <2>2 DEF Sent
<1>4. \A s \in 1..Sent : s \in 1..seq /\ parts'[s] = parts[s]
  BY <1>1, <1>2
<1>5. parts'[seq] = count
  BY <1>1, <1>2
<1>6. PacketsOK'
  BY <1>2, <1>3, <1>4, <1>5 DEF PacketsOK
<1>7. \A s \in 1..Sent : Indices(s)' = Indices(s)
  BY <1>4 DEF Indices
<1>8. BufferOK'
  BY <1>1, <1>2, <1>3, <1>7 DEF BufferOK, EntryOK
<1>9. FragmentsOK'
  <2> SUFFICES ASSUME NEW f \in toClient' PROVE f.seq \in 1..seq /\ f.idx \in Indices(f.seq)'
    BY <1>3 DEF FragmentsOK
  <2>1. CASE f \in toClient
    BY <1>2, <1>7, <2>1 DEF FragmentsOK
  <2>2. CASE f \in {Fragment(seq, i) : i \in 0..(count - 1)}
    BY <1>2, <1>5, <2>2 DEF Fragment, Indices
  <2>. QED BY <1>1, <2>1, <2>2
<1>10. CacheOK'
  <2>1. IsFiniteSet(cache) /\ Cardinality(cache) \in Nat /\ cache \subseteq Nat
    <3>1. Sent \in Nat /\ cache \in SUBSET (1..Sent)
      BY <1>2 DEF CacheOK
    <3>2. IsFiniteSet(cache) /\ Cardinality(cache) \in Nat
      BY <3>1, NumbersFinite
    <3>. QED BY <3>1, <3>2
  <2>2. kept \subseteq cache /\ IsFiniteSet(kept) /\ Cardinality(kept) + 1 <= CacheCap
    <3>1. CASE Cardinality(cache) >= CacheCap
      <4>1. cache # {}
        BY <2>1, <3>1, FS_EmptySet, FragmentsAssumption
      <4>2. Oldest(cache) \in cache
        BY <2>1, <4>1, OldestIsLeast
      <4>3. IsFiniteSet(cache \ {Oldest(cache)})
            /\ Cardinality(cache \ {Oldest(cache)}) = Cardinality(cache) - 1
        BY <2>1, <4>2, FS_RemoveElement
      <4>. QED BY <2>1, <3>1, <4>3, FragmentsAssumption DEF CacheOK
    <3>2. CASE ~(Cardinality(cache) >= CacheCap)
      BY <2>1, <3>2, FragmentsAssumption
    <3>. QED BY <3>1, <3>2
  <2> HIDE DEF kept
  <2>3. Cardinality(kept \cup {seq}) <= CacheCap
    <3>1. Cardinality(kept) \in Nat
      BY <2>2, FS_CardinalityType
    <3>2. PICK k : k = kept
      OBVIOUS
    <3>3. IsFiniteSet(k) /\ Cardinality(k) \in Nat /\ Cardinality(k) + 1 <= CacheCap
      BY <2>2, <3>1, <3>2
    <3>4. \/ Cardinality(k \cup {seq}) = Cardinality(k)
          \/ Cardinality(k \cup {seq}) = Cardinality(k) + 1
      BY <3>3, FS_AddElement
    <3>5. CacheCap \in Nat
      BY FragmentsAssumption
    <3>. QED BY <3>2, <3>3, <3>4, <3>5
  <2>. QED BY <1>1, <1>2, <1>3, <2>2, <2>3 DEF CacheOK
<1>11. ackSeqNum' \in 0..Sent'
  BY <1>1, <1>2, <1>3
<1>. QED BY <1>6, <1>8, <1>9, <1>10, <1>11

(***************************************************************************)
(* The buffer after a fragment that does not complete its packet.           *)
(***************************************************************************)
Buffered(f) == DOMAIN frames \cup {f.seq}

(***************************************************************************)
(* Such a fragment leaves an entry that is neither empty nor complete, and  *)
(* the buffer within its bound.                                             *)
(***************************************************************************)
LEMMA PartialKeepsInv ==
    ASSUME FragInv, NEW f \in toClient, InsertPartial(f)
    PROVE  /\ FragInv'
           /\ DOMAIN frames' = KeptAfter(Buffered(f))
<1> USE DEF FragInv
<1>1. f.seq \in 1..Sent /\ f.idx \in Indices(f.seq) /\ Sent \in Nat
  BY DEF FragmentsOK, PacketsOK
<1>2. EntryOK(f.seq, Received(f))
  <2>1. Received(f) # {} /\ Received(f) \subseteq Indices(f.seq)
    BY <1>1 DEF Received, BufferOK, EntryOK
  <2>2. Received(f) # Indices(f.seq)
    BY <1>1, AllMeansComplete DEF InsertPartial
  <2>. QED BY <2>1, <2>2 DEF EntryOK
<1> DEFINE K == KeptAfter(Buffered(f))
<1>3. K \subseteq Buffered(f) /\ Cardinality(K) <= BufferCap
  BY <1>1, KeptIsBounded DEF Buffered, BufferOK
<1>4. /\ DOMAIN frames' = K
      /\ \A s \in K : frames'[s] = IF s = f.seq THEN Received(f) ELSE frames[s]
  <2> HIDE DEF K
  <2>1. frames' = [s \in K |-> [t \in Buffered(f) |-> IF t = f.seq THEN Received(f) ELSE frames[t]][s]]
    BY DEF InsertPartial, Restrict, Buffered, K
  <2>. QED BY <1>3, <2>1
<1>5. UNCHANGED <<parts, cache, ackSeqNum>> /\ toClient' \subseteq toClient
  BY DEF InsertPartial, Remaining
<1>6. Sent' = Sent /\ \A s : Indices(s)' = Indices(s)
  BY <1>5 DEF Sent, Indices
<1>7. BufferOK'
  BY <1>1, <1>2, <1>3, <1>4, <1>6 DEF BufferOK, EntryOK, Buffered
<1>. QED BY <1>4, <1>5, <1>6, <1>7 DEF PacketsOK, CacheOK, FragmentsOK

(***************************************************************************)
(* The other steps take fragments or entries away, or change nothing that   *)
(* the invariant speaks of.                                                 *)
(***************************************************************************)
LEMMA LastKeepsInv ==
    ASSUME FragInv, NEW f \in toClient, InsertLast(f)
    PROVE  FragInv'
<1> USE DEF FragInv
<1>1. f.seq \in 1..Sent /\ Sent \in Nat
  BY DEF FragmentsOK, PacketsOK
<1>2. UNCHANGED <<parts, cache>> /\ toClient' \subseteq toClient
  BY DEF InsertLast, Remaining
<1>3. Sent' = Sent /\ \A s : Indices(s)' = Indices(s)
  BY <1>2 DEF Sent, Indices
<1>4. DOMAIN frames' \subseteq DOMAIN frames /\ \A s \in DOMAIN frames' : frames'[s] = frames[s]
  BY DEF InsertLast, Restrict, NotSuperseded
<1>5. Cardinality(DOMAIN frames') <= BufferCap
  <2>1. IsFiniteSet(DOMAIN frames) /\ Cardinality(DOMAIN frames) \in Nat
    BY <1>1, NumbersFinite DEF BufferOK
  <2>2. IsFiniteSet(DOMAIN frames') /\ Cardinality(DOMAIN frames') <= Cardinality(DOMAIN frames)
    BY <1>4, <2>1, FS_Subset
  <2>3. Cardinality(DOMAIN frames') \in Nat
    BY <2>2, FS_CardinalityType
  <2>. QED BY <2>1, <2>2, <2>3, FragmentsAssumption DEF BufferOK
<1>6. BufferOK'
  BY <1>3, <1>4, <1>5 DEF BufferOK, EntryOK
<1>7. ackSeqNum' \in 0..Sent
  BY <1>1 DEF InsertLast, HandOver
<1>. QED BY <1>2, <1>3, <1>6, <1>7 DEF PacketsOK, CacheOK, FragmentsOK

(***************************************************************************)
(* Every step keeps the invariant.                                          *)
(***************************************************************************)
LEMMA FragStep == FragInv /\ [FragmentsNext]_vars => FragInv'
<1> SUFFICES ASSUME FragInv, [FragmentsNext]_vars PROVE FragInv'
  OBVIOUS
<1>1. ASSUME UNCHANGED <<parts, cache, frames>>, toClient' \subseteq toClient, ackSeqNum' \in 0..Sent
      PROVE  FragInv'
  <2>1. Sent' = Sent /\ \A s : Indices(s)' = Indices(s)
    BY <1>1 DEF Sent, Indices
  <2>. QED BY <1>1, <2>1 DEF FragInv, PacketsOK, CacheOK, BufferOK, EntryOK, FragmentsOK
<1>2. ASSUME NEW count \in PartCounts, SealAndSend(count) PROVE FragInv'
  BY <1>2, SealKeepsInv
<1>3. ASSUME NEW nack \in toServer, ResendFragments(nack) PROVE FragInv'
  <2>1. UNCHANGED <<parts, cache, frames, ackSeqNum>>
    BY <1>3 DEF ResendFragments, fragVars
  <2>2. Sent' = Sent /\ \A s : Indices(s)' = Indices(s)
    BY <2>1 DEF Sent, Indices
  <2>3. FragmentsOK'
    <3> SUFFICES ASSUME NEW f \in toClient' PROVE f.seq \in 1..Sent /\ f.idx \in Indices(f.seq)
      BY <2>2 DEF FragmentsOK
    <3>1. CASE f \in toClient
      BY <3>1 DEF FragInv, FragmentsOK
    <3>2. CASE nack.seq \in cache /\ f \in {Fragment(nack.seq, i) : i \in Missing(nack)}
      <4>1. PICK i \in Missing(nack) : f = Fragment(nack.seq, i)
        BY <3>2
      <4>2. f.seq = nack.seq /\ f.idx = i
        BY <4>1 DEF Fragment
      <4>. QED BY <3>2, <4>1, <4>2 DEF Missing, FragInv, CacheOK
    <3>. QED BY <1>3, <3>1, <3>2 DEF ResendFragments
  <2>. QED BY <2>1, <2>2, <2>3 DEF FragInv, PacketsOK, CacheOK, BufferOK, EntryOK
<1>4. ASSUME NEW f \in toClient, InsertWhole(f) PROVE FragInv'
  <2>1. f.seq \in 1..Sent /\ Sent \in Nat
    BY DEF FragInv, FragmentsOK, PacketsOK
  <2>2. ackSeqNum' \in 0..Sent
    BY <1>4, <2>1 DEF InsertWhole, HandOver, FragInv
  <2>. QED BY <1>1, <1>4, <2>2 DEF InsertWhole, Remaining
<1>5. ASSUME NEW f \in toClient, InsertLast(f) \/ InsertPartial(f) PROVE FragInv'
  BY <1>5, LastKeepsInv, PartialKeepsInv
<1>6. ASSUME NEW due \in SUBSET DOMAIN frames, NackCheck(due) PROVE FragInv'
  BY <1>1, <1>6 DEF NackCheck, fragVars, FragInv
<1>7. CASE (LoseToServer \/ LoseToClient) /\ UNCHANGED fragVars
  BY <1>1, <1>7 DEF LoseToServer, LoseToClient, fragVars, FragInv
<1>8. CASE UNCHANGED vars
  BY <1>1, <1>8 DEF vars, netVars, fragVars, FragInv
<1>. QED BY <1>2, <1>3, <1>4, <1>5, <1>6, <1>7, <1>8 DEF FragmentsNext

(***************************************************************************)
(* The invariant holds always.                                              *)
(***************************************************************************)
LEMMA FragInvHolds == FragmentsSpec => []FragInv
BY FragInit, FragStep, PTL DEF FragmentsSpec

(***************************************************************************)
(* Types, and the bounds of the server's fragment cache and of the client's *)
(* FragmentBuffer.                                                          *)
(***************************************************************************)
THEOREM FragmentBounds == FragmentsSpec => []FragmentsTypeOK
<1>1. FragInv => FragmentsTypeOK
  BY DEF FragInv, PacketsOK, CacheOK, BufferOK, EntryOK, FragmentsTypeOK, Sent
<1>. QED BY <1>1, FragInvHolds, PTL

-----------------------------------------------------------------------------
(***************************************************************************)
(* A step that drops an entry completes a packet at least as new, or makes  *)
(* room in a full buffer.                                                   *)
(***************************************************************************)
LEMMA DropStep ==
    ASSUME FragInv, [FragmentsNext]_vars, NEW s \in DOMAIN frames \ DOMAIN frames'
    PROVE  EntryMayGo(s)
<1>1. s \in 1..Sent /\ Sent \in Nat
  BY DEF FragInv, BufferOK, PacketsOK
<1>2. ~UNCHANGED frames
  OBVIOUS
<1>3. PICK f \in toClient : InsertLast(f) \/ InsertPartial(f)
  BY <1>2 DEF FragmentsNext, SealAndSend, ResendFragments, InsertWhole, NackCheck, fragVars, vars
<1>4. f.seq \in 1..Sent
  BY DEF FragInv, FragmentsOK
<1>5. CASE InsertLast(f)
  <2>1. DOMAIN frames' = {t \in DOMAIN frames : t > f.seq}
    BY <1>5 DEF InsertLast, Restrict, NotSuperseded
  <2>2. s <= f.seq
    BY <1>1, <1>4, <2>1
  <2>3. f.seq <= ackSeqNum' /\ ackSeqNum' \in Nat
    BY <1>1, <1>4, <1>5 DEF InsertLast, HandOver, FragInv
  <2>. QED BY <1>1, <1>4, <2>2, <2>3 DEF EntryMayGo
<1>6. CASE InsertPartial(f)
  <2> DEFINE D == DOMAIN frames
             T == Buffered(f)
  <2>1. DOMAIN frames' = KeptAfter(T)
    BY <1>6, PartialKeepsInv
  <2>2. IsFiniteSet(D) /\ Cardinality(D) \in Nat /\ Cardinality(D) <= BufferCap
    <3>1. D \in SUBSET (1..Sent)
      BY DEF FragInv, BufferOK
    <3>. QED BY <1>1, <3>1, NumbersFinite DEF FragInv, BufferOK
  <2>3. T = D \cup {f.seq} /\ T \subseteq Nat /\ T # {} /\ s \in T
    BY <1>1, <1>4 DEF Buffered, FragInv, BufferOK
  <2>4. Cardinality(T) = IF f.seq \in D THEN Cardinality(D) ELSE Cardinality(D) + 1
    <3>1. PICK k : k = D
      OBVIOUS
    <3>2. IsFiniteSet(k)
      BY <2>2, <3>1
    <3>3. Cardinality(k \cup {f.seq}) = IF f.seq \in k THEN Cardinality(k) ELSE Cardinality(k) + 1
      BY <3>2, FS_AddElement
    <3>. QED BY <2>3, <3>1, <3>3
  <2>5. Oldest(T) \in T /\ \A t \in T : Oldest(T) <= t
    BY <2>3, OldestIsLeast
  <2> HIDE DEF D, T
  <2>6. Cardinality(T) > BufferCap /\ KeptAfter(T) = T \ {Oldest(T)} /\ s = Oldest(T)
    BY <2>1, <2>3 DEF KeptAfter
  <2>7. f.seq \notin D /\ Cardinality(D) = BufferCap
    BY <2>2, <2>4, <2>6, FragmentsAssumption
  <2>8. f.seq \in DOMAIN frames'
    BY <2>1, <2>3, <2>6, <2>7 DEF D
  <2>9. \A t \in DOMAIN frames' : s < t
    BY <2>1, <2>3, <2>5, <2>6
  <2>. QED BY <2>7, <2>8, <2>9 DEF EntryMayGo, D
<1>. QED BY <1>3, <1>5, <1>6

(***************************************************************************)
(* insert drops fragments that are still of use only as the oldest of a     *)
(* full buffer, for any bounds.                                             *)
(***************************************************************************)
THEOREM UsefulFragmentsKept == FragmentsSpec => UsefulPartialsKept
<1>1. FragInv /\ [FragmentsNext]_vars
          => [\A s \in DOMAIN frames \ DOMAIN frames' : EntryMayGo(s)]_vars
  BY DropStep
<1>. QED BY <1>1, FragInvHolds, PTL DEF FragmentsSpec, UsefulPartialsKept

=============================================================================

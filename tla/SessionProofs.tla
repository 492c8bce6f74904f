--------------------------- MODULE SessionProofs ----------------------------
(***************************************************************************)
(* Proofs about the reliable stream of Session, for every value of its      *)
(* constants: any number of packets, any start number, any network.         *)
(***************************************************************************)
EXTENDS Session, FiniteSetTheorems, SequenceTheorems, TLAPS

(***************************************************************************)
(* The inductive invariant.  PacketsInv: every copy of a reliable packet,   *)
(* wherever it is, still carries the input of its number.  WindowInv: what  *)
(* is buffered is above the window, and no acknowledgement on its way to    *)
(* the client is beyond what has been applied.                              *)
(***************************************************************************)
ReliableOK(p) ==
    /\ p.type = "Reliable" /\ p.seq \in 1..cSeqNum /\ p.ack \in Nat
    /\ p.payload = typed[p.seq]

PacketsInv ==
    /\ cSeqNum \in Nat /\ typed \in Seq(Input) /\ Len(typed) = cSeqNum
    /\ \A p \in unacked : ReliableOK(p)
    /\ \A m \in toServer :
          \/ ReliableOK(m)
          \/ m.type = "Ack" /\ m.ack \in Nat
          \/ m.type = "Handshake" /\ m.seq \in Nat
    /\ sSeqNum \in Nat /\ cAckSeqNum \in Nat
    /\ \A m \in toClient : m.type # "NoJob" /\ m.seq \in Nat /\ m.ack \in Nat
    /\ job # NoJob => job.type = "Frame" /\ job.seq \in Nat /\ job.ack \in Nat
    /\ farewell.type = "Shutdown" =>
          /\ farewell = [type |-> "Shutdown", seq |-> farewell.seq, left |-> farewell.left]
          /\ farewell.seq \in Nat /\ farewell.left \in Nat

WindowInv ==
    /\ expectedClientSeq \in Nat \ {0} /\ sAckSeqNum = expectedClientSeq - 1
    /\ processed \in Seq(Input)
    /\ DOMAIN outOfOrder \subseteq (expectedClientSeq + 1)..cSeqNum
    /\ \A s \in DOMAIN outOfOrder : outOfOrder[s] = typed[s]
    /\ wasReset \in BOOLEAN
    /\ InOrderExactlyOnce
    /\ ~wasReset =>
          /\ \A m \in toClient : m.ack <= sAckSeqNum
          /\ job # NoJob => job.ack <= sAckSeqNum
    /\ PrunedWasProcessed

StreamInv == PacketsInv /\ WindowInv

\* check_sync moves the server's number forward and either leaves the diff job
\* alone or starts one whose frame carries the acknowledgement it was given.
LEMMA CheckSyncJob ==
    ASSUME NEW seq \in Nat, NEW ack \in Nat, NEW clientAck, NEW hist, NEW isDirty, NEW grid,
           CheckSync(seq, ack, clientAck, hist, isDirty, grid)
    PROVE  /\ sSeqNum' \in Nat /\ sSeqNum' >= seq
           /\ \/ job' = job
              \/ /\ job = NoJob /\ job' # NoJob /\ job'.type = "Frame"
                 /\ job'.seq = seq + 1 /\ sSeqNum' = seq + 1 /\ job'.ack = ack
BY DEF CheckSync, QueueFrame, Frame, NoJob

LEMMA StreamInit == Init => StreamInv
<1> SUFFICES ASSUME Init PROVE StreamInv
  OBVIOUS
<1>1. PICK size \in Sizes :
        /\ cSeqNum = 1 /\ typed = <<Resize(size)>>
        /\ unacked = {Reliable(1, 0, Resize(size))}
        /\ toServer = {Reliable(1, 0, Resize(size))} \cup {Handshake(h) : h \in LateHandshakes}
        /\ toClient = {} /\ cAckSeqNum = 0
  BY DEF Init, ClientInit
<1>2. Resize(size) \in Input /\ typed \in Seq(Input) /\ Len(typed) = 1
  BY <1>1 DEF Input
<1>3. ReliableOK(Reliable(1, 0, Resize(size)))
  BY <1>1 DEF ReliableOK, Reliable
<1>4. PacketsInv
  BY <1>1, <1>2, <1>3, SessionAssumption, ServerAssumption
  DEF PacketsInv, Handshake, Running, Init, ServerInit
<1>5. UnackedSeqs = {1}
  BY <1>1 DEF UnackedSeqs, Reliable
<1>6. InOrderExactlyOnce /\ PrunedWasProcessed
  BY <1>1, <1>5, ServerAssumption DEF InOrderExactlyOnce, InOrder, PrunedWasProcessed, Init, ServerInit
<1>7. WindowInv
  <2>1. /\ expectedClientSeq \in Nat \ {0} /\ sAckSeqNum = expectedClientSeq - 1
        /\ processed = <<>> /\ wasReset = FALSE /\ job = NoJob
        /\ outOfOrder = EmptyBuffer
    BY ServerAssumption DEF Init, ServerInit
  <2>2. DOMAIN outOfOrder = {}
    BY <2>1 DEF EmptyBuffer
  <2>3. processed \in Seq(Input)
    BY <2>1
  <2> QED BY <1>1, <1>6, <2>1, <2>2, <2>3 DEF WindowInv
<1> QED BY <1>4, <1>7 DEF StreamInv

-----------------------------------------------------------------------------
(***************************************************************************)
(* Server steps that leave the window alone: what they may send carries an  *)
(* acknowledgement that is not beyond the window.                           *)
(***************************************************************************)
LEMMA StreamQuiet ==
    ASSUME StreamInv,
           UNCHANGED <<streamVars, clientVars, wasReset>>,
           toServer' \subseteq toServer,
           sSeqNum' \in Nat,
           \A m \in toClient' : \/ m \in toClient
                                \/ job # NoJob /\ m = job
                                \/ m.type = "Shutdown" /\ m.seq \in Nat /\ m.ack = 0,
           \/ job' = job \/ job' = NoJob
           \/ job'.type = "Frame" /\ job'.seq \in Nat /\ job'.ack = sAckSeqNum,
           \/ farewell' = farewell
           \/ farewell'.type # "Shutdown"
           \/ \E n, k \in Nat : farewell' = [type |-> "Shutdown", seq |-> n, left |-> k]
    PROVE  StreamInv'
<1>1. sAckSeqNum \in Nat
  BY DEF StreamInv, WindowInv
<1>2. PacketsInv'
  BY <1>1 DEF StreamInv, PacketsInv, ReliableOK, clientVars
<1>3. WindowInv'
  <2>1. InOrderExactlyOnce'
    BY DEF StreamInv, WindowInv, InOrderExactlyOnce, InOrder, streamVars, clientVars
  <2>2. PrunedWasProcessed'
    BY DEF StreamInv, WindowInv, PrunedWasProcessed, UnackedSeqs, streamVars, clientVars
  <2>3. ~wasReset' => /\ \A m \in toClient' : m.ack <= sAckSeqNum'
                      /\ job' # NoJob => job'.ack <= sAckSeqNum'
    BY <1>1 DEF StreamInv, WindowInv, streamVars
  <2> QED BY <2>1, <2>2, <2>3 DEF StreamInv, WindowInv, streamVars, clientVars
<1> QED BY <1>2, <1>3 DEF StreamInv

LEMMA StreamCheckSyncQuiet ==
    ASSUME StreamInv,
           UNCHANGED <<streamVars, clientVars, wasReset, farewell>>,
           toServer' \subseteq toServer, toClient' = toClient,
           NEW clientAck, NEW hist, NEW isDirty, NEW grid,
           CheckSync(sSeqNum, sAckSeqNum, clientAck, hist, isDirty, grid)
    PROVE  StreamInv'
<1>1. sSeqNum \in Nat /\ sAckSeqNum \in Nat
  BY DEF StreamInv, WindowInv, PacketsInv
<1>2. /\ sSeqNum' \in Nat
      /\ \/ job' = job
         \/ job'.type = "Frame" /\ job'.seq \in Nat /\ job'.ack = sAckSeqNum
  BY <1>1, CheckSyncJob
<1> QED BY <1>2, StreamQuiet

\* A late handshake: from here on nothing is claimed about the order of input,
\* but the window is again consistent with what is buffered.
LEMMA StreamHandshake ==
    ASSUME StreamInv, NEW m \in toServer, FeedHandshake(m), UNCHANGED clientVars
    PROVE  StreamInv'
<1>1. m.seq \in Nat /\ sSeqNum \in Nat
  BY DEF StreamInv, PacketsInv, FeedHandshake, ReliableOK
<1>2. /\ sSeqNum' \in Nat
      /\ \/ job' = job
         \/ job'.type = "Frame" /\ job'.seq \in Nat /\ job'.ack = m.seq
  <2>1. CheckSync(sSeqNum + 1, m.seq, 0, EmptyHistory, TRUE, term)
    BY Zenon DEF FeedHandshake
  <2>. sSeqNum + 1 \in Nat
    BY <1>1
  <2>2. /\ sSeqNum' \in Nat
        /\ \/ job' = job
           \/ job'.type = "Frame" /\ job'.seq = sSeqNum + 1 + 1 /\ job'.ack = m.seq
    BY <1>1, <2>1, CheckSyncJob, Zenon
  <2> QED BY <1>1, <2>2
<1>3. PacketsInv'
  BY <1>1, <1>2 DEF StreamInv, PacketsInv, ReliableOK, clientVars, FeedHandshake,
     Control, Remaining
<1>4. WindowInv'
  BY <1>1 DEF StreamInv, WindowInv, FeedHandshake, EmptyBuffer, InOrderExactlyOnce,
     PrunedWasProcessed
<1> QED BY <1>3, <1>4 DEF StreamInv

LEMMA StreamOutOfOrder ==
    ASSUME StreamInv, NEW m \in toServer, FeedOutOfOrder(m), UNCHANGED clientVars
    PROVE  StreamInv'
<1>1. ReliableOK(m) /\ m.seq > expectedClientSeq
  BY DEF StreamInv, PacketsInv, FeedOutOfOrder
<1>2. PacketsInv'
  BY DEF StreamInv, PacketsInv, ReliableOK, clientVars, FeedOutOfOrder, Remaining, syncVars
<1>3. /\ DOMAIN outOfOrder' \subseteq (expectedClientSeq' + 1)..cSeqNum'
      /\ \A s \in DOMAIN outOfOrder' : outOfOrder'[s] = typed'[s]
  BY <1>1 DEF StreamInv, PacketsInv, WindowInv, ReliableOK, clientVars, FeedOutOfOrder
<1>4. InOrderExactlyOnce' /\ PrunedWasProcessed'
  BY DEF StreamInv, WindowInv, InOrderExactlyOnce, InOrder, PrunedWasProcessed,
     UnackedSeqs, clientVars, FeedOutOfOrder
<1>5. WindowInv'
  BY <1>3, <1>4 DEF StreamInv, WindowInv, FeedOutOfOrder, syncVars
<1> QED BY <1>2, <1>5 DEF StreamInv

(***************************************************************************)
(* The sweep: the packet the window waits for and the buffered ones behind  *)
(* it are exactly the next inputs of the client.                            *)
(***************************************************************************)
LEMMA StreamInOrder ==
    ASSUME StreamInv, NEW m \in toServer, NEW next \in Nat, FeedInOrder(m, next),
           UNCHANGED clientVars
    PROVE  StreamInv'
<1> DEFINE batch == [i \in 1..(next - m.seq) |->
                       IF i = 1 THEN m.payload ELSE outOfOrder[m.seq + i - 1]]
           alive == Cardinality({i \in DOMAIN batch : batch[i].kind = "KeepAlive"})
<1>1. /\ ReliableOK(m) /\ m.seq = expectedClientSeq /\ next > m.seq
      /\ next \notin DOMAIN outOfOrder
      /\ ((m.seq + 1)..(next - 1)) \subseteq DOMAIN outOfOrder
  BY DEF StreamInv, PacketsInv, FeedInOrder, IsExpected, FirstGap
<1>2. m.seq \in Nat \ {0} /\ m.seq \in 1..cSeqNum /\ cSeqNum \in Nat /\ next - 1 <= cSeqNum
  <2>1. m.seq \in Nat \ {0} /\ m.seq \in 1..cSeqNum /\ cSeqNum \in Nat
    BY <1>1 DEF StreamInv, PacketsInv, ReliableOK
  <2>2. CASE next - 1 = m.seq
    BY <2>1, <2>2
  <2>3. CASE next - 1 # m.seq
    <3>1. next - 1 \in (m.seq + 1)..(next - 1)
      BY <1>1, <2>1, <2>3
    <3> QED BY <1>1, <2>1, <3>1 DEF StreamInv, WindowInv
  <2> QED BY <2>1, <2>2, <2>3
<1>3. \A i \in 1..(next - m.seq) : batch[i] = typed[m.seq + i - 1]
  BY <1>1, <1>2 DEF StreamInv, WindowInv, ReliableOK
<1>4. batch \in Seq(Input) /\ Len(batch) = next - m.seq
  <2>1. \A i \in 1..(next - m.seq) : batch[i] \in Input
    <3>1. typed \in Seq(Input) /\ Len(typed) = cSeqNum
      BY DEF StreamInv, PacketsInv
    <3>2. \A i \in 1..(next - m.seq) : m.seq + i - 1 \in 1..cSeqNum
      BY <1>1, <1>2
    <3> HIDE DEF batch
    <3> QED BY <1>3, <3>1, <3>2
  <2>2. next - m.seq \in Nat
    BY <1>1, <1>2
  <2> HIDE DEF batch
  <2>3. batch \in [1..(next - m.seq) -> Input]
    BY <2>1 DEF batch
  <2> QED BY <2>2, <2>3
<1>5. alive \in Nat
  <2>1. IsFiniteSet(1..(next - m.seq))
    BY <1>1, <1>2, FS_Interval
  <2>2. {i \in DOMAIN batch : batch[i].kind = "KeepAlive"} \in SUBSET (1..(next - m.seq))
    OBVIOUS
  <2> HIDE DEF batch
  <2> QED BY <2>1, <2>2, FS_Subset, FS_CardinalityType
<1>6. /\ processed' = processed \o batch /\ expectedClientSeq' = next
      /\ sAckSeqNum' = next - 1 /\ UNCHANGED <<farewell, wasReset>>
      /\ outOfOrder' = Restrict(outOfOrder, DOMAIN outOfOrder \ (m.seq..(next - 1)))
      /\ toServer' \subseteq toServer
      /\ toClient' = toClient \cup Replies(sSeqNum, alive, next - 1)
      /\ CheckSync(sSeqNum + alive, next - 1, m.ack, sHistory,
                   dirty \/ (\E i \in DOMAIN batch : batch[i].kind = "Resize"), term')
  BY DEF FeedInOrder, Remaining
<1> HIDE DEF batch, alive
<1>7. /\ sSeqNum' \in Nat
      /\ \/ job' = job
         \/ job' # NoJob /\ job'.type = "Frame" /\ job'.seq \in Nat /\ job'.ack = next - 1
  <2>1. sSeqNum + alive \in Nat /\ next - 1 \in Nat
    BY <1>1, <1>2, <1>5 DEF StreamInv, PacketsInv
  <2> QED BY <1>6, <2>1, CheckSyncJob
<1>8. PacketsInv'
  <2>1. \A r \in Replies(sSeqNum, alive, next - 1) :
           r.type # "NoJob" /\ r.seq \in Nat /\ r.ack = next - 1 /\ r.ack \in Nat
    BY <1>1, <1>2, <1>5 DEF Replies, Control, StreamInv, PacketsInv
  <2> QED BY <1>1, <1>2, <1>6, <1>7, <2>1
          DEF StreamInv, PacketsInv, ReliableOK, clientVars
<1>9. InOrderExactlyOnce'
  <2> SUFFICES ASSUME ~wasReset' PROVE InOrder'
    BY DEF InOrderExactlyOnce
  <2>1. /\ Len(processed) = expectedClientSeq - 1 - StartSeq
        /\ \A i \in 1..Len(processed) :
              StartSeq + i <= Len(typed) /\ processed[i] = typed[StartSeq + i]
        /\ processed \in Seq(Input) /\ Len(processed) \in Nat
    BY <1>6 DEF StreamInv, WindowInv, InOrderExactlyOnce, InOrder
  <2>2. Len(processed') = next - 1 - StartSeq
    <3>1. Len(processed \o batch) = Len(processed) + Len(batch)
      <4>1. PICK a, b : a = processed /\ b = batch
        OBVIOUS
      <4>2. a \in Seq(Input) /\ b \in Seq(Input)
        BY <1>4, <2>1, <4>1
      <4>3. Len(a \o b) = Len(a) + Len(b)
        BY <4>2
      <4> QED BY <4>1, <4>3
    <3>2. Len(processed') = Len(processed) + (next - m.seq)
      BY <1>4, <1>6, <3>1
    <3> QED BY <1>1, <1>2, <2>1, <3>2, ServerAssumption
  <2>3. ASSUME NEW i \in 1..Len(processed')
        PROVE  StartSeq + i <= Len(typed) /\ processed'[i] = typed[StartSeq + i]
    <3>1. CASE i <= Len(processed)
      BY <1>4, <1>6, <2>1, <2>2, <3>1
    <3>2. CASE i > Len(processed)
      <4>1. i - Len(processed) \in 1..(next - m.seq)
        BY <1>1, <1>2, <2>1, <2>2, <3>2, ServerAssumption
      <4>2. processed'[i] = batch[i - Len(processed)]
        BY <1>4, <1>6, <2>1, <3>2, <4>1
      <4>3. m.seq + (i - Len(processed)) - 1 = StartSeq + i
        BY <1>1, <1>2, <2>1, ServerAssumption
      <4>4. processed'[i] = typed[StartSeq + i]
        BY <1>3, <4>1, <4>2, <4>3
      <4>5. StartSeq + i <= next - 1
        BY <1>1, <1>2, <2>1, <2>2, <3>2, ServerAssumption
      <4>6. Len(typed) = cSeqNum
        BY DEF StreamInv, PacketsInv
      <4> QED BY <1>2, <4>4, <4>5, <4>6, ServerAssumption, <2>2
    <3> QED BY <2>1, <2>2, <3>1, <3>2, ServerAssumption, <1>1, <1>2
  <2> QED BY <1>6, <2>2, <2>3 DEF InOrder, clientVars
<1>10. PrunedWasProcessed'
  <2>1. Len(processed') >= Len(processed) /\ Len(processed) \in Nat /\ Len(processed') \in Nat
    BY <1>1, <1>2, <1>4, <1>6 DEF StreamInv, WindowInv
  <2> QED BY <1>6, <2>1, ServerAssumption, <1>2
          DEF StreamInv, WindowInv, PrunedWasProcessed, UnackedSeqs, clientVars
<1>11. WindowInv'
  <2>1. processed' \in Seq(Input)
    BY <1>4, <1>6 DEF StreamInv, WindowInv
  <2>2. /\ DOMAIN outOfOrder' \subseteq (expectedClientSeq' + 1)..cSeqNum'
        /\ \A s \in DOMAIN outOfOrder' : outOfOrder'[s] = typed'[s]
    BY <1>1, <1>2, <1>6 DEF StreamInv, WindowInv, Restrict, clientVars
  <2>3. ~wasReset' => /\ \A r \in toClient' : r.ack <= sAckSeqNum'
                      /\ job' # NoJob => job'.ack <= sAckSeqNum'
    <3>1. \A r \in Replies(sSeqNum, alive, next - 1) : r.ack = next - 1
      BY DEF Replies, Control
    <3> QED BY <1>1, <1>2, <1>6, <1>7, <3>1 DEF StreamInv, WindowInv, PacketsInv
  <2>4. expectedClientSeq' \in Nat \ {0} /\ sAckSeqNum' = expectedClientSeq' - 1
    BY <1>1, <1>2, <1>6
  <2>5. wasReset' \in BOOLEAN
    BY <1>6 DEF StreamInv, WindowInv
  <2> QED BY <1>9, <1>10, <2>1, <2>2, <2>3, <2>4, <2>5 DEF WindowInv
<1> QED BY <1>8, <1>11 DEF StreamInv

-----------------------------------------------------------------------------
(***************************************************************************)
(* Client steps.                                                            *)
(***************************************************************************)
LEMMA StreamSend ==
    ASSUME StreamInv, UNCHANGED <<serverVars, cAckSeqNum, toClient>>,
           NEW payload \in Input, Track(payload),
           \A k \in toServer' :
               k \in toServer \/ k \in unacked' \/ (k.type = "Ack" /\ k.ack \in Nat)
    PROVE  StreamInv'
<1> DEFINE packet == Reliable(cSeqNum + 1, cAckSeqNum, payload)
<1>1. /\ cSeqNum' = cSeqNum + 1 /\ unacked' = unacked \cup {packet}
      /\ typed' = Append(typed, payload)
  BY DEF Track
<1>2. cSeqNum \in Nat /\ typed \in Seq(Input) /\ Len(typed) = cSeqNum /\ cAckSeqNum \in Nat
  BY DEF StreamInv, PacketsInv
<1>3. /\ typed' \in Seq(Input) /\ Len(typed') = cSeqNum'
      /\ \A s \in 1..cSeqNum : typed'[s] = typed[s]
      /\ typed'[cSeqNum + 1] = payload
  BY <1>1, <1>2
<1>4. \A p : ReliableOK(p) => ReliableOK(p)'
  BY <1>1, <1>2, <1>3 DEF ReliableOK
<1>5. PICK pk : pk = packet
  OBVIOUS
<1>6. pk.seq = cSeqNum + 1 /\ ReliableOK(pk)' /\ unacked' = unacked \cup {pk}
  BY <1>1, <1>2, <1>3, <1>5 DEF ReliableOK, Reliable
<1> HIDE DEF packet
<1>7. PacketsInv'
  BY <1>1, <1>2, <1>3, <1>4, <1>6 DEF StreamInv, PacketsInv, serverVars, syncVars
<1>8. InOrderExactlyOnce'
  <2> SUFFICES ASSUME ~wasReset PROVE InOrder'
    BY DEF InOrderExactlyOnce, serverVars
  <2>1. /\ Len(processed) = expectedClientSeq - 1 - StartSeq
        /\ \A i \in 1..Len(processed) :
              StartSeq + i <= Len(typed) /\ processed[i] = typed[StartSeq + i]
        /\ Len(processed) \in Nat
    BY DEF StreamInv, WindowInv, InOrderExactlyOnce, InOrder
  <2> QED BY <1>1, <1>2, <1>3, <2>1, ServerAssumption DEF InOrder, serverVars, streamVars
<1>9. PrunedWasProcessed'
  <2>1. UnackedSeqs' = UnackedSeqs \cup {cSeqNum + 1}
    BY <1>1, <1>6 DEF UnackedSeqs
  <2> QED BY <1>1, <1>2, <2>1, ServerAssumption
          DEF StreamInv, WindowInv, PrunedWasProcessed, serverVars, streamVars
<1>10. WindowInv'
  <2>1. /\ DOMAIN outOfOrder' \subseteq (expectedClientSeq' + 1)..cSeqNum'
        /\ \A s \in DOMAIN outOfOrder' : outOfOrder'[s] = typed'[s]
    BY <1>1, <1>2, <1>3 DEF StreamInv, WindowInv, serverVars, streamVars
  <2> QED BY <1>8, <1>9, <2>1 DEF StreamInv, WindowInv, serverVars, streamVars, syncVars
<1> QED BY <1>7, <1>10 DEF StreamInv

\* Pruning: an acknowledgement on its way to the client is never beyond the window.
LEMMA StreamPrune ==
    ASSUME StreamInv, UNCHANGED <<serverVars, cSeqNum, typed>>,
           NEW m \in toClient, unacked' = Unpruned(m.ack), cAckSeqNum' \in Nat,
           \A k \in toServer' : k \in toServer \/ (k.type = "Ack" /\ k.ack \in Nat),
           toClient' \subseteq toClient
    PROVE  StreamInv'
<1>1. PacketsInv'
  BY DEF StreamInv, PacketsInv, ReliableOK, Unpruned, serverVars, syncVars
<1>2. PrunedWasProcessed'
  <2> SUFFICES ASSUME ~wasReset, NEW s \in (StartSeq + 1)..cSeqNum, s \notin UnackedSeqs'
               PROVE  s - StartSeq <= Len(processed)
    BY DEF PrunedWasProcessed, serverVars, streamVars
  <2>1. CASE s \notin UnackedSeqs
    BY <2>1 DEF StreamInv, WindowInv, PrunedWasProcessed
  <2>2. CASE s \in UnackedSeqs
    <3>1. PICK p \in unacked : p.seq = s
      BY <2>2 DEF UnackedSeqs
    <3>2. p \notin Unpruned(m.ack)
      BY <3>1 DEF UnackedSeqs
    <3>3. m.ack \in Nat /\ s \in Nat /\ s <= m.ack /\ m.ack <= sAckSeqNum
      <4>1. m.ack \in Nat /\ m.ack <= sAckSeqNum
        BY DEF StreamInv, PacketsInv, WindowInv
      <4>2. p.seq \in Nat
        BY <3>1, ServerAssumption DEF StreamInv, PacketsInv, WindowInv
      <4>3. ~(p.seq > m.ack)
        BY <3>1, <3>2 DEF Unpruned
      <4> QED BY <3>1, <4>1, <4>2, <4>3
    <3>4. Len(processed) = expectedClientSeq - 1 - StartSeq /\ sAckSeqNum = expectedClientSeq - 1
          /\ expectedClientSeq \in Nat
      BY DEF StreamInv, WindowInv, InOrderExactlyOnce, InOrder
    <3> QED BY <3>3, <3>4, ServerAssumption
  <2> QED BY <2>1, <2>2
<1>3. InOrderExactlyOnce'
  BY DEF StreamInv, WindowInv, InOrderExactlyOnce, InOrder, serverVars, streamVars
<1>4. WindowInv'
  BY <1>2, <1>3 DEF StreamInv, WindowInv, serverVars, streamVars, syncVars
<1> QED BY <1>1, <1>4 DEF StreamInv

\* Steps of the network, and of a client that numbers nothing.
LEMMA StreamNetwork ==
    ASSUME StreamInv, UNCHANGED <<serverVars, cSeqNum, cAckSeqNum, typed, unacked>>,
           \A k \in toServer' :
               k \in toServer \/ k \in unacked \/ (k.type = "Ack" /\ k.ack \in Nat),
           toClient' \subseteq toClient
    PROVE  StreamInv'
<1>1. PacketsInv'
  BY DEF StreamInv, PacketsInv, ReliableOK, serverVars, syncVars
<1>2. InOrderExactlyOnce' /\ PrunedWasProcessed'
  BY DEF StreamInv, WindowInv, InOrderExactlyOnce, InOrder, PrunedWasProcessed,
     UnackedSeqs, serverVars, streamVars
<1>3. WindowInv'
  BY <1>2 DEF StreamInv, WindowInv, serverVars, streamVars, syncVars
<1> QED BY <1>1, <1>3 DEF StreamInv

LEMMA StreamStep == StreamInv /\ [Next]_vars => StreamInv'
<1> SUFFICES ASSUME StreamInv, [Next]_vars PROVE StreamInv'
  OBVIOUS
<1>1. CASE ServerStep /\ UNCHANGED clientVars
  <2>1. ASSUME NEW m \in toServer, FeedHandshakeIgnored(m) \/ FeedDuplicate(m)
        PROVE  StreamInv'
    <3>1. UNCHANGED <<serverVars, toClient>> /\ toServer' \subseteq toServer
      BY <2>1 DEF FeedHandshakeIgnored, FeedDuplicate, Remaining
    <3> QED BY <1>1, <3>1, StreamNetwork DEF clientVars
  <2>2. ASSUME NEW m \in toServer, FeedHandshake(m) PROVE StreamInv'
    BY <1>1, <2>2, StreamHandshake
  <2>3. ASSUME NEW m \in toServer, FeedAck(m) PROVE StreamInv'
    <3>1. /\ UNCHANGED <<streamVars, wasReset, farewell, toClient>>
          /\ toServer' \subseteq toServer
          /\ CheckSync(sSeqNum, sAckSeqNum, clientAckSeq', sHistory, dirty, term)
      BY <2>3 DEF FeedAck, Remaining
    <3> QED BY <1>1, <3>1, StreamCheckSyncQuiet
  <2>4. ASSUME NEW m \in toServer, FeedOutOfOrder(m) PROVE StreamInv'
    BY <1>1, <2>4, StreamOutOfOrder
  <2>5. ASSUME NEW m \in toServer, NEW next \in 2..(MaxClientSeq + 1), FeedInOrder(m, next)
        PROVE  StreamInv'
    BY <1>1, <2>5, StreamInOrder, ClientAssumption
  <2>6. CASE OnPtyBytes
    <3>1. UNCHANGED <<netVars, streamVars, sSeqNum, job, farewell, wasReset>>
      BY <2>6 DEF OnPtyBytes
    <3> QED BY <1>1, <3>1, StreamQuiet DEF netVars, StreamInv, PacketsInv
  <2>7. CASE ServerTick
    BY <1>1, <2>7, StreamCheckSyncQuiet DEF ServerTick, netVars
  <2>8. CASE JobSend \/ JobDone \/ ServerExit
    BY <1>1, <2>8, StreamQuiet
       DEF JobSend, JobDone, ServerExit, Gone, StreamInv, PacketsInv, netVars, serverVars, syncVars
  <2>9. CASE PtyExit
    <3>1. /\ UNCHANGED <<netVars, streamVars, job, wasReset>> /\ sSeqNum' \in Nat
          /\ \E n, k \in Nat : farewell' = [type |-> "Shutdown", seq |-> n, left |-> k]
      BY <2>9, ServerAssumption DEF PtyExit, StreamInv, PacketsInv
    <3> QED BY <1>1, <3>1, StreamQuiet DEF netVars
  <2>10. CASE SendShutdown
    <3>1. /\ farewell.seq \in Nat /\ farewell.left \in Nat /\ farewell.left > 0
          /\ farewell = [type |-> "Shutdown", seq |-> farewell.seq, left |-> farewell.left]
          /\ sSeqNum \in Nat
      BY <2>10 DEF SendShutdown, StreamInv, PacketsInv
    <3>2. farewell' = [type |-> "Shutdown", seq |-> farewell.seq, left |-> farewell.left - 1]
      BY <2>10, <3>1 DEF SendShutdown
    <3>3. /\ \E n, k \in Nat : farewell' = [type |-> "Shutdown", seq |-> n, left |-> k]
          /\ \A m \in toClient' : \/ m \in toClient
                                  \/ m.type = "Shutdown" /\ m.seq \in Nat /\ m.ack = 0
          /\ UNCHANGED <<toServer, streamVars, sSeqNum, job, wasReset>>
      <4>1. PICK a : a = Control("Shutdown", farewell.seq, 0)
        OBVIOUS
      <4>2. a.type = "Shutdown" /\ a.seq \in Nat /\ a.ack = 0
        BY <3>1, <4>1 DEF Control
      <4>3. toClient' = toClient \cup {a} /\ UNCHANGED <<toServer, streamVars, sSeqNum, job, wasReset>>
        BY <2>10, <4>1 DEF SendShutdown, syncVars
      <4>4. farewell.left - 1 \in Nat
        BY <3>1
      <4> QED BY <3>1, <3>2, <4>2, <4>3, <4>4
    <3> QED BY <1>1, <3>1, <3>3, StreamQuiet
  <2> QED BY <1>1, <2>1, <2>2, <2>3, <2>4, <2>5, <2>6, <2>7, <2>8, <2>9, <2>10 DEF ServerStep
<1>2. CASE ClientStep /\ UNCHANGED serverVars
  <2>0. \A a \in {Ack(cAckSeqNum)} : a.type = "Ack" /\ a.ack \in Nat
    BY DEF Ack, StreamInv, PacketsInv
  <2>1. ASSUME NEW payload \in Input, NEW others, SendReliable(payload, others),
               others \subseteq unacked \cup {Ack(cAckSeqNum)},
               UNCHANGED <<cAckSeqNum, toClient>>
        PROVE  StreamInv'
    <3>1. PICK pk : pk = Reliable(cSeqNum + 1, cAckSeqNum, payload)
      OBVIOUS
    <3>2. /\ Track(payload) /\ unacked' = unacked \cup {pk}
          /\ toServer' = toServer \cup others \cup {pk}
      BY <2>1, <3>1 DEF SendReliable, Track
    <3>3. \A k \in toServer' :
            k \in toServer \/ k \in unacked' \/ (k.type = "Ack" /\ k.ack \in Nat)
      BY <2>0, <2>1, <3>2
    <3> QED BY <1>2, <2>1, <3>2, <3>3, StreamSend
  <2>2. CASE FeedStdin \/ OnWinch
    <3>1. PICK payload \in Input : SendReliable(payload, {})
      BY <2>2 DEF FeedStdin, OnWinch, Input
    <3> QED BY <2>1, <2>2, <3>1 DEF FeedStdin, OnWinch
  <2>3. CASE OnResume \/ Disconnect
    <3>1. CASE OnResume
      <4>1. PICK payload \in Input : Track(payload)
        BY <3>1 DEF OnResume, Input
      <4> QED BY <1>2, <3>1, <4>1, StreamSend DEF OnResume, netVars
    <3>2. CASE Disconnect
      BY <1>2, <3>2, StreamNetwork DEF Disconnect, netVars
    <3> QED BY <2>3, <3>1, <3>2
  <2>4. ASSUME NEW alive \in BOOLEAN, NEW overdue \in SUBSET unacked,
               NEW nacks \in SUBSET Nacks, OnTick(alive, overdue, nacks)
        PROVE  StreamInv'
    <3>1. overdue \cup nacks \subseteq unacked \cup {Ack(cAckSeqNum)}
      BY DEF Nacks
    <3>2. CASE SendReliable(KeepAlive, overdue \cup nacks)
      BY <2>1, <2>4, <3>1, <3>2 DEF OnTick, Input
    <3>3. CASE toServer' = toServer \cup overdue \cup nacks /\ UNCHANGED <<cSeqNum, unacked, typed>>
      BY <1>2, <2>0, <2>4, <3>1, <3>3, StreamNetwork DEF OnTick
    <3> QED BY <2>4, <3>2, <3>3 DEF OnTick
  <2>5. ASSUME NEW m \in toClient, FeedStale(m) PROVE StreamInv'
    <3>1. /\ UNCHANGED <<cSeqNum, typed, toServer>> /\ unacked' = Unpruned(m.ack)
          /\ cAckSeqNum' \in Nat /\ toClient' \subseteq toClient
      BY <2>5 DEF FeedStale, Remaining, StreamInv, PacketsInv
    <3>2. \A k \in toServer' : k \in toServer \/ (k.type = "Ack" /\ k.ack \in Nat)
      BY <3>1
    <3> QED BY <1>2, <3>1, <3>2, StreamPrune
  <2>6. ASSUME NEW m \in toClient, NEW ackDue \in BOOLEAN, FeedFrame(m, ackDue) PROVE StreamInv'
    <3>1. m.seq \in Nat
      BY DEF StreamInv, PacketsInv
    <3>2. \A k \in toServer' : k \in toServer \/ (k.type = "Ack" /\ k.ack \in Nat)
      <4>1. toServer' = toServer \/ toServer' = toServer \cup {Ack(m.seq)}
        BY <2>6 DEF FeedFrame
      <4>2. PICK a : a = Ack(m.seq)
        OBVIOUS
      <4>3. a.type = "Ack" /\ a.ack \in Nat
        BY <3>1, <4>2 DEF Ack
      <4> QED BY <4>1, <4>2, <4>3
    <3>3. /\ UNCHANGED <<cSeqNum, typed>> /\ unacked' = Unpruned(m.ack)
          /\ cAckSeqNum' \in Nat /\ toClient' \subseteq toClient
      BY <2>6, <3>1 DEF FeedFrame, Remaining
    <3> QED BY <1>2, <3>2, <3>3, StreamPrune
  <2>7. ASSUME NEW m \in toClient, FeedControl(m) PROVE StreamInv'
    <3>1. /\ UNCHANGED <<cSeqNum, typed, toServer>> /\ unacked' = Unpruned(m.ack)
          /\ cAckSeqNum' \in Nat /\ toClient' \subseteq toClient
      BY <2>7 DEF FeedControl, Remaining, StreamInv, PacketsInv
    <3>2. \A k \in toServer' : k \in toServer \/ (k.type = "Ack" /\ k.ack \in Nat)
      BY <3>1
    <3> QED BY <1>2, <3>1, <3>2, StreamPrune
  <2> QED BY <1>2, <2>2, <2>3, <2>4, <2>5, <2>6, <2>7 DEF ClientStep
<1>3. CASE (LoseToServer \/ LoseToClient) /\ UNCHANGED <<serverVars, clientVars>>
  BY <1>3, StreamNetwork DEF LoseToServer, LoseToClient, clientVars
<1>4. CASE UNCHANGED vars
  BY <1>4, StreamNetwork DEF vars, netVars, clientVars
<1> QED BY <1>1, <1>2, <1>3, <1>4 DEF Next

(***************************************************************************)
(* Input is applied in order and once each, for every network behaviour and *)
(* every number of packets, as long as no late handshake resets the window. *)
(***************************************************************************)
THEOREM InputInOrder == Spec => []InOrderExactlyOnce
<1>1. StreamInv => InOrderExactlyOnce
  BY DEF StreamInv, WindowInv
<1> QED BY <1>1, StreamInit, StreamStep, PTL DEF Spec

(***************************************************************************)
(* The client never forgets input the server has not applied.               *)
(***************************************************************************)
THEOREM NothingPrunedEarly == Spec => []PrunedWasProcessed
<1>1. StreamInv => PrunedWasProcessed
  BY DEF StreamInv, WindowInv
<1> QED BY <1>1, StreamInit, StreamStep, PTL DEF Spec

-----------------------------------------------------------------------------
(***************************************************************************)
(* The refinement.  A session whose network holds no handshake of the start *)
(* never resets the window, because nothing in a running session makes a    *)
(* handshake packet: then the stream is the channel of InputChannel.        *)
(***************************************************************************)
NeverReset == wasReset = FALSE /\ \A m \in toServer : m.type # "Handshake"

ChannelInv == StreamInv /\ NeverReset

LEMMA NeverResetInit == LateHandshakes = {} /\ Init => NeverReset
BY DEF Init, ServerInit, ClientInit, NeverReset, Reliable

\* Packets made in a running session are reliable packets or acknowledgements.
LEMMA NeverResetKept ==
    ASSUME NeverReset, wasReset' = wasReset,
           \A k \in toServer' : k \in toServer \/ k.type \in {"Reliable", "Ack"}
    PROVE  NeverReset'
BY DEF NeverReset

\* The packet number of every step that hands an input to the stream.
LEMMA SendsReliable ==
    ASSUME NEW payload, NEW others, SendReliable(payload, others)
    PROVE  \A k \in toServer' : k \in toServer \/ k \in others \/ k.type = "Reliable"
BY DEF SendReliable, Reliable

LEMMA NeverResetStep == ChannelInv /\ [Next]_vars => NeverReset'
<1> SUFFICES ASSUME ChannelInv, [Next]_vars PROVE NeverReset'
  OBVIOUS
<1>0. NeverReset /\ \A p \in unacked : p.type = "Reliable"
  BY DEF ChannelInv, StreamInv, PacketsInv, ReliableOK
<1>1. CASE ServerStep /\ UNCHANGED clientVars
  <2>1. toServer' \subseteq toServer /\ wasReset' = wasReset
    <3>1. ASSUME NEW m \in toServer, FeedHandshakeIgnored(m) \/ FeedHandshake(m)
          PROVE  FALSE
      BY <1>0, <3>1 DEF NeverReset, FeedHandshakeIgnored, FeedHandshake
    <3>2. ASSUME NEW m \in toServer, FeedAck(m) \/ FeedDuplicate(m) \/ FeedOutOfOrder(m)
          PROVE  toServer' \subseteq toServer /\ wasReset' = wasReset
      BY <3>2 DEF FeedAck, FeedDuplicate, FeedOutOfOrder, Remaining, serverVars, syncVars
    <3>3. ASSUME NEW m \in toServer, NEW next \in 2..(MaxClientSeq + 1), FeedInOrder(m, next)
          PROVE  toServer' \subseteq toServer /\ wasReset' = wasReset
      BY <3>3 DEF FeedInOrder, Remaining
    <3>4. CASE OnPtyBytes \/ ServerTick \/ JobSend \/ JobDone \/ PtyExit \/ SendShutdown \/ ServerExit
      BY <3>4 DEF OnPtyBytes, ServerTick, JobSend, JobDone, PtyExit, SendShutdown,
         ServerExit, Gone, netVars, serverVars, syncVars
    <3> QED BY <1>1, <3>1, <3>2, <3>3, <3>4 DEF ServerStep
  <2> QED BY <1>0, <2>1, NeverResetKept
<1>2. CASE ClientStep /\ UNCHANGED serverVars
  <2>1. wasReset' = wasReset
    BY <1>2 DEF serverVars
  <2>2. CASE FeedStdin \/ OnWinch
    <3>1. PICK payload : SendReliable(payload, {})
      BY <2>2 DEF FeedStdin, OnWinch
    <3> QED BY <1>0, <2>1, <3>1, SendsReliable, NeverResetKept
  <2>3. CASE OnResume \/ Disconnect
    BY <1>0, <2>1, <2>3, NeverResetKept DEF OnResume, Disconnect, netVars
  <2>4. ASSUME NEW alive \in BOOLEAN, NEW overdue \in SUBSET unacked,
               NEW nacks \in SUBSET Nacks, OnTick(alive, overdue, nacks)
        PROVE  NeverReset'
    <3>1. \A k \in overdue \cup nacks : k.type \in {"Reliable", "Ack"}
      BY <1>0 DEF Nacks, Ack
    <3>2. CASE SendReliable(KeepAlive, overdue \cup nacks)
      BY <1>0, <2>1, <3>1, <3>2, SendsReliable, NeverResetKept
    <3>3. CASE toServer' = toServer \cup overdue \cup nacks
      BY <1>0, <2>1, <3>1, <3>3, NeverResetKept
    <3> QED BY <2>4, <3>2, <3>3 DEF OnTick
  <2>5. ASSUME NEW m \in toClient, FeedStale(m) \/ FeedControl(m) PROVE NeverReset'
    BY <1>0, <2>1, <2>5, NeverResetKept DEF FeedStale, FeedControl
  <2>6. ASSUME NEW m \in toClient, NEW ackDue \in BOOLEAN, FeedFrame(m, ackDue)
        PROVE  NeverReset'
    <3>1. toServer' = toServer \/ toServer' = toServer \cup {Ack(m.seq)}
      BY <2>6 DEF FeedFrame
    <3>2. \A k \in {Ack(m.seq)} : k.type = "Ack"
      BY DEF Ack
    <3> QED BY <1>0, <2>1, <3>1, <3>2, NeverResetKept
  <2> QED BY <1>2, <2>2, <2>3, <2>4, <2>5, <2>6 DEF ClientStep
<1>3. CASE (LoseToServer \/ LoseToClient) /\ UNCHANGED <<serverVars, clientVars>>
  BY <1>0, <1>3, NeverResetKept DEF LoseToServer, LoseToClient, serverVars
<1>4. CASE UNCHANGED vars
  BY <1>0, <1>4, NeverResetKept DEF vars, netVars, serverVars
<1> QED BY <1>1, <1>2, <1>3, <1>4 DEF Next

Sent == SubSeq(typed, StartSeq + 1, Len(typed))

LEMMA SentProperties ==
    ASSUME NEW t \in Seq(Input)
    PROVE  LET sent == SubSeq(t, StartSeq + 1, Len(t))
           IN  /\ sent \in Seq(Input)
               /\ Len(sent) = IF StartSeq + 1 <= Len(t) THEN Len(t) - StartSeq ELSE 0
               /\ \A i \in 1..Len(sent) : sent[i] = t[StartSeq + i]
<1> DEFINE sent == SubSeq(t, StartSeq + 1, Len(t))
<1>1. StartSeq + 1 \in Int /\ StartSeq \in Nat /\ Len(t) \in Int /\ Len(t) \in Nat
  BY ServerAssumption
<1>2. \A i \in (StartSeq + 1)..Len(t) : t[i] \in Input
  BY <1>1
<1>3. /\ sent \in Seq(Input)
      /\ Len(sent) = IF StartSeq + 1 <= Len(t) THEN Len(t) - (StartSeq + 1) + 1 ELSE 0
      /\ \A i \in 1..(Len(t) - (StartSeq + 1) + 1) : sent[i] = t[(StartSeq + 1) + i - 1]
  BY <1>1, <1>2, SubSeqProperties
<1> HIDE DEF sent
<1>4. \A i \in 1..Len(sent) : sent[i] = t[StartSeq + i]
  <2> TAKE i \in 1..Len(sent)
  <2>1. i \in 1..(Len(t) - (StartSeq + 1) + 1) /\ (StartSeq + 1) + i - 1 = StartSeq + i
    BY <1>1, <1>3
  <2> QED BY <1>3, <2>1
<1>5. Len(sent) = IF StartSeq + 1 <= Len(t) THEN Len(t) - StartSeq ELSE 0
  BY <1>1, <1>3
<1> QED BY <1>3, <1>4, <1>5 DEF sent

\* A step that numbers a packet puts its input into the channel, except for
\* the numbers up to StartSeq, which the handshake used.
LEMMA ChannelPut ==
    ASSUME typed \in Seq(Input), NEW payload \in Input,
           typed' = Append(typed, payload), UNCHANGED processed
    PROVE  [Channel!Next]_<<Sent, processed>>
<1>1. /\ typed' \in Seq(Input) /\ Len(typed') = Len(typed) + 1 /\ Len(typed) \in Nat
      /\ \A i \in 1..Len(typed) : typed'[i] = typed[i]
      /\ typed'[Len(typed) + 1] = payload /\ StartSeq \in Nat
  BY ServerAssumption
<1>2. /\ Sent \in Seq(Input)
      /\ Len(Sent) = IF StartSeq + 1 <= Len(typed) THEN Len(typed) - StartSeq ELSE 0
      /\ \A i \in 1..Len(Sent) : Sent[i] = typed[StartSeq + i]
  BY SentProperties DEF Sent
<1>3. /\ Sent' \in Seq(Input)
      /\ Len(Sent') = IF StartSeq + 1 <= Len(typed') THEN Len(typed') - StartSeq ELSE 0
      /\ \A i \in 1..Len(Sent') : Sent'[i] = typed'[StartSeq + i]
  BY <1>1, SentProperties DEF Sent
<1>4. CASE Len(typed) < StartSeq
  <2>1. Len(Sent) = 0 /\ Len(Sent') = 0
    BY <1>1, <1>2, <1>3, <1>4
  <2>2. Sent = <<>> /\ Sent' = <<>>
    BY <1>2, <1>3, <2>1, EmptySeq
  <2> QED BY <2>2
<1>5. CASE Len(typed) >= StartSeq
  <2>1. Len(Sent) = Len(typed) - StartSeq /\ Len(Sent') = Len(Sent) + 1 /\ Len(Sent) \in Nat
    BY <1>1, <1>2, <1>3, <1>5
  <2>2. /\ Append(Sent, payload) \in Seq(Input) /\ Len(Append(Sent, payload)) = Len(Sent) + 1
        /\ \A i \in 1..Len(Sent) : Append(Sent, payload)[i] = Sent[i]
        /\ Append(Sent, payload)[Len(Sent) + 1] = payload
    BY <1>2
  <2>3. \A i \in 1..Len(Sent') : Sent'[i] = Append(Sent, payload)[i]
    <3> TAKE i \in 1..Len(Sent')
    <3>1. CASE i \in 1..Len(Sent)
      <4>1. StartSeq + i \in 1..Len(typed)
        BY <1>1, <2>1, <3>1
      <4> QED BY <1>1, <1>2, <1>3, <2>2, <3>1, <4>1
    <3>2. CASE i = Len(Sent) + 1
      <4>1. StartSeq + i = Len(typed) + 1
        BY <1>1, <2>1, <3>2
      <4> QED BY <1>1, <1>3, <2>2, <3>2, <4>1
    <3> QED BY <2>1, <3>1, <3>2
  <2>4. Sent' = Append(Sent, payload)
    BY <1>3, <2>1, <2>2, <2>3, SeqEqual
  <2> QED BY <2>4 DEF Channel!Next, Channel!Put, Sent
<1> QED BY <1>1, <1>4, <1>5

\* The sweep takes the batch out of the channel.
LEMMA ChannelTake ==
    ASSUME ChannelInv, ChannelInv', UNCHANGED typed, Len(processed') > Len(processed)
    PROVE  [Channel!Next]_<<Sent, processed>>
<1>1. /\ typed \in Seq(Input) /\ processed \in Seq(Input) /\ processed' \in Seq(Input)
      /\ Len(processed') \in Nat /\ Len(processed) \in Nat /\ Len(typed) \in Nat
      /\ StartSeq \in Nat
  <2>1. typed \in Seq(Input) /\ processed \in Seq(Input)
    BY DEF ChannelInv, StreamInv, PacketsInv, WindowInv
  <2>2. processed' \in Seq(Input)
    BY DEF ChannelInv, StreamInv, PacketsInv, WindowInv
  <2>3. StartSeq \in Nat
    BY ServerAssumption
  <2> QED BY <2>1, <2>2, <2>3
<1>2. \A i \in 1..Len(processed') :
        StartSeq + i <= Len(typed) /\ processed'[i] = typed[StartSeq + i]
  BY DEF ChannelInv, NeverReset, StreamInv, WindowInv, InOrderExactlyOnce, InOrder
<1>3. /\ Sent \in Seq(Input)
      /\ Len(Sent) = IF StartSeq + 1 <= Len(typed) THEN Len(typed) - StartSeq ELSE 0
      /\ \A i \in 1..Len(Sent) : Sent[i] = typed[StartSeq + i]
  BY <1>1, SentProperties DEF Sent
<1>4. Len(processed') \in (Len(processed) + 1)..Len(Sent)
  <2>1. Len(processed') \in 1..Len(processed')
    BY <1>1
  <2>2. StartSeq + Len(processed') <= Len(typed)
    BY <1>2, <2>1
  <2> QED BY <1>1, <1>3, <2>1, <2>2
<1>5. processed' = SubSeq(Sent, 1, Len(processed'))
  <2> DEFINE n == Len(processed')
             taken == SubSeq(Sent, 1, n)
  <2>1. n \in Nat /\ n <= Len(Sent) /\ \A i \in 1..n : Sent[i] \in Input
    BY <1>1, <1>3, <1>4
  <2>2. /\ taken \in Seq(Input) /\ Len(taken) = n
        /\ \A i \in 1..n : taken[i] = Sent[i]
    <3>1. /\ taken \in Seq(Input) /\ Len(taken) = IF 1 <= n THEN n - 1 + 1 ELSE 0
          /\ \A i \in 1..(n - 1 + 1) : taken[i] = Sent[1 + i - 1]
      <4> n \in Int /\ 1 \in Int
        BY <2>1
      <4> HIDE DEF n
      <4> QED BY <2>1, SubSeqProperties
    <3> HIDE DEF n, taken
    <3>2. Len(taken) = n
      BY <2>1, <3>1
    <3>3. \A i \in 1..n : i \in 1..(n - 1 + 1) /\ 1 + i - 1 = i
      BY <2>1
    <3>4. \A i \in 1..n : taken[i] = Sent[i]
      BY <3>1, <3>3
    <3> QED BY <3>1, <3>2, <3>4
  <2>3. \A i \in 1..n : processed'[i] = taken[i]
    <3> TAKE i \in 1..n
    <3>1. i \in 1..Len(Sent)
      BY <1>3, <2>1
    <3>2. processed'[i] = typed[StartSeq + i]
      BY <1>2
    <3>3. Sent[i] = typed[StartSeq + i]
      BY <1>3, <3>1
    <3>4. taken[i] = Sent[i]
      BY <2>2
    <3> QED BY <3>2, <3>3, <3>4
  <2> HIDE DEF taken
  <2>4. processed' = taken
    BY <1>1, <2>2, <2>3, SeqEqual
  <2> QED BY <2>4 DEF taken
<1>6. Sent' = Sent
  BY DEF Sent
<1> QED BY <1>4, <1>5, <1>6 DEF Channel!Next, Channel!TakeOut, Sent

LEMMA ChannelInit == ChannelInv /\ Init => Channel!Init
<1> SUFFICES ASSUME ChannelInv, Init PROVE Channel!Init
  OBVIOUS
<1>1. processed = <<>> /\ typed \in Seq(Input) /\ Len(typed) = 1
  BY DEF Init, ServerInit, ClientInit, ChannelInv, StreamInv, PacketsInv
<1>2. SubSeq(typed, StartSeq + 1, Len(typed)) = <<>>
  <2>1. StartSeq + 1 \in Int /\ Len(typed) \in Int /\ Len(typed) < StartSeq + 1
    BY <1>1, ServerAssumption
  <2> QED BY <2>1, SubSeqEmpty, Zenon
<1> QED BY <1>1, <1>2 DEF Channel!Init

LEMMA ChannelStep == ChannelInv /\ ChannelInv' /\ [Next]_vars => [Channel!Next]_<<Sent, processed>>
<1> SUFFICES ASSUME ChannelInv, ChannelInv', [Next]_vars
             PROVE  [Channel!Next]_<<Sent, processed>>
  OBVIOUS
<1>0. ASSUME UNCHANGED <<typed, processed>> PROVE [Channel!Next]_<<Sent, processed>>
  BY <1>0 DEF Sent
<1>1. CASE ServerStep /\ UNCHANGED clientVars
  <2>1. UNCHANGED typed
    BY <1>1 DEF clientVars
  <2>2. ASSUME NEW m \in toServer, NEW next \in 2..(MaxClientSeq + 1), FeedInOrder(m, next)
        PROVE  Len(processed') > Len(processed)
    <3>1. /\ m.seq = expectedClientSeq /\ next > m.seq /\ expectedClientSeq' = next
      BY <2>2 DEF FeedInOrder, IsExpected, FirstGap
    <3>2. /\ Len(processed) = expectedClientSeq - 1 - StartSeq
          /\ Len(processed') = expectedClientSeq' - 1 - StartSeq
          /\ expectedClientSeq \in Nat /\ expectedClientSeq' \in Nat
      BY DEF ChannelInv, NeverReset, StreamInv, WindowInv, InOrderExactlyOnce, InOrder
    <3> QED BY <3>1, <3>2, ServerAssumption
  <2>3. ASSUME NEW m \in toServer, FeedHandshakeIgnored(m) \/ FeedHandshake(m) PROVE FALSE
    BY <2>3 DEF ChannelInv, NeverReset, FeedHandshakeIgnored, FeedHandshake
  <2>4. ASSUME NEW m \in toServer, FeedAck(m) \/ FeedDuplicate(m) \/ FeedOutOfOrder(m)
        PROVE  UNCHANGED processed
    BY <2>4 DEF FeedAck, FeedDuplicate, FeedOutOfOrder, serverVars, streamVars
  <2>5. CASE OnPtyBytes \/ ServerTick \/ JobSend \/ JobDone \/ PtyExit \/ SendShutdown \/ ServerExit
    <3>1. UNCHANGED processed
      BY <2>5 DEF OnPtyBytes, ServerTick, JobSend, JobDone, PtyExit, SendShutdown,
         ServerExit, Gone, serverVars, streamVars
    <3> QED BY <1>0, <2>1, <3>1
  <2> QED BY <1>0, <1>1, <2>1, <2>2, <2>3, <2>4, <2>5, ChannelTake DEF ServerStep
<1>2. CASE ClientStep /\ UNCHANGED serverVars
  <2>1. UNCHANGED processed /\ typed \in Seq(Input)
    BY <1>2 DEF serverVars, streamVars, ChannelInv, StreamInv, PacketsInv
  <2>2. ASSUME NEW payload \in Input, Track(payload) PROVE [Channel!Next]_<<Sent, processed>>
    BY <2>1, <2>2, ChannelPut DEF Track
  <2>3. CASE FeedStdin \/ OnWinch \/ OnResume
    <3>1. PICK payload \in Input : Track(payload)
      BY <2>3 DEF FeedStdin, OnWinch, OnResume, SendReliable, Input
    <3> QED BY <2>2, <3>1
  <2>4. CASE Disconnect
    BY <1>0, <2>1, <2>4 DEF Disconnect
  <2>5. ASSUME NEW alive \in BOOLEAN, NEW overdue \in SUBSET unacked,
               NEW nacks \in SUBSET Nacks, OnTick(alive, overdue, nacks)
        PROVE  [Channel!Next]_<<Sent, processed>>
    <3>1. CASE SendReliable(KeepAlive, overdue \cup nacks)
      BY <2>2, <3>1 DEF SendReliable, Input
    <3>2. CASE UNCHANGED typed
      BY <1>0, <2>1, <3>2
    <3> QED BY <2>5, <3>1, <3>2 DEF OnTick
  <2>6. ASSUME NEW m \in toClient,
               FeedStale(m) \/ FeedControl(m) \/ \E ackDue \in BOOLEAN : FeedFrame(m, ackDue)
        PROVE  [Channel!Next]_<<Sent, processed>>
    BY <1>0, <2>1, <2>6 DEF FeedStale, FeedControl, FeedFrame
  <2> QED BY <1>2, <2>3, <2>4, <2>5, <2>6 DEF ClientStep
<1>3. CASE (LoseToServer \/ LoseToClient) /\ UNCHANGED <<serverVars, clientVars>>
  BY <1>0, <1>3 DEF serverVars, streamVars, clientVars
<1>4. CASE UNCHANGED vars
  BY <1>0, <1>4 DEF vars, serverVars, streamVars, clientVars
<1> QED BY <1>1, <1>2, <1>3, <1>4 DEF Next

(***************************************************************************)
(* The sliding window, its acknowledgements and retransmissions implement a *)
(* FIFO channel: whatever the network does, what the server's session       *)
(* applies is taken from the front of what the client's session was given,  *)
(* a batch at a time, and nothing else is ever applied or taken back.  The  *)
(* hypothesis says that no handshake packet of the start is still under way *)
(* (the run SessionReset shows what one does).                              *)
(***************************************************************************)
THEOREM StreamIsChannel == LateHandshakes = {} /\ Spec => ImplementsChannel
<1>1. LateHandshakes = {} /\ Init => ChannelInv
  BY StreamInit, NeverResetInit DEF ChannelInv
<1>2. ChannelInv /\ [Next]_vars => ChannelInv'
  <2> SUFFICES ASSUME ChannelInv, [Next]_vars PROVE ChannelInv'
    OBVIOUS
  <2>1. StreamInv'
    BY StreamStep DEF ChannelInv
  <2>2. NeverReset'
    BY NeverResetStep
  <2> QED BY <2>1, <2>2 DEF ChannelInv
<1>3. LateHandshakes = {} /\ Spec => []ChannelInv
  BY <1>1, <1>2, PTL DEF Spec
<1>4. ChannelInv /\ ChannelInv' /\ [Next]_vars =>
        [Channel!Next]_<<SubSeq(typed, StartSeq + 1, Len(typed)), processed>>
  BY ChannelStep DEF Sent
<1> QED BY <1>1, <1>3, <1>4, ChannelInit, PTL DEF Spec, ImplementsChannel, Channel!Spec

=============================================================================

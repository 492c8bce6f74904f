----------------------------- MODULE SyncProofs -----------------------------
(***************************************************************************)
(* Proofs about the screens of Session, for every value of its constants:   *)
(* any number of frames, any screens, any history bound above the lag, any  *)
(* network, and with late handshakes resetting the server at any time.      *)
(***************************************************************************)
EXTENDS SessionProofs, GridProofs, WellFoundedInduction

(***************************************************************************)
(* The inductive invariant.                                                 *)
(***************************************************************************)

\* An acknowledgement the client may have sent: if it names a frame, the client
\* still has that screen, or the frame is too old to be a reference.
AckOK(a) ==
    /\ a \in 0..cAckSeqNum
    /\ a \in DOMAIN snapshots => a \in DOMAIN cHistory \/ sSeqNum - a >= HistoryCap

\* A frame is the difference between its own screen and a blank one, or the
\* screen of a recent frame, which the client has if it may still take this one.
FrameOK(m) ==
    LET g == snapshots[m.seq]
        r == m.update.ref_seq
    IN  /\ m.seq \in DOMAIN snapshots
        /\ \/ r = 0 /\ m.update = DiffFrom(g, BlankGrid(g.cols, g.rows, g.cursor), 0)
           \/ /\ r \in DOMAIN snapshots /\ r < m.seq /\ m.seq - r <= MaxLag + 1
              /\ m.update = DiffFrom(g, snapshots[r], r)
              /\ m.seq > cAckSeqNum => r \in DOMAIN cHistory

SyncInv ==
    /\ sSeqNum \in Nat /\ cAckSeqNum \in 0..sSeqNum
    /\ DOMAIN snapshots \subseteq 1..sSeqNum
    /\ \A s \in DOMAIN snapshots : snapshots[s] \in Screens
    /\ term \in Screens
    /\ \A s \in DOMAIN sHistory : s \in DOMAIN snapshots /\ sHistory[s] = snapshots[s]
    /\ \A s \in DOMAIN cHistory :
          s \in DOMAIN snapshots /\ s <= cAckSeqNum /\ cHistory[s] = snapshots[s]
    /\ AckOK(cAckSeqNum) /\ AckOK(clientAckSeq)
    /\ \A p \in unacked : AckOK(p.ack)
    /\ \A m \in toServer : m.type # "Handshake" => AckOK(m.ack)
    /\ \A m \in toClient : /\ m.seq \in 1..sSeqNum
                           /\ IF m.type = "Frame" THEN FrameOK(m)
                                                  ELSE m.seq \notin DOMAIN snapshots
    /\ job # NoJob => job.type = "Frame" /\ job.seq \in 1..sSeqNum /\ FrameOK(job)
    /\ farewell.type = "Shutdown" =>
          farewell.seq \in 1..sSeqNum /\ farewell.seq \notin DOMAIN snapshots

\* Packet numbers are used once; a farewell is always the same packet.
NumbersInv ==
    /\ ServerNumbersUnique
    /\ farewell.type = "Shutdown" =>
          /\ \A m \in toClient :
                m.seq = farewell.seq => m = Control("Shutdown", farewell.seq, 0)
          /\ job # NoJob => job.seq # farewell.seq


-----------------------------------------------------------------------------
(***************************************************************************)
(* Histories.                                                               *)
(***************************************************************************)
LEMMA PushBoundedValues ==
    ASSUME NEW hist, NEW n, NEW g
    PROVE  LET h == PushBounded(hist, n, g)
           IN  /\ DOMAIN h \subseteq DOMAIN hist \cup {n}
               /\ \A s \in DOMAIN h : h[s] = IF s = n THEN g ELSE hist[s]
BY DEF PushBounded, With, Restrict

\* Only entries at least HistoryCap numbers older than the new one are evicted.
LEMMA EvictedIsOld ==
    ASSUME NEW hist, NEW n \in Nat, DOMAIN hist \subseteq 0..n, NEW g,
           NEW s \in DOMAIN hist \cup {n}, s \notin DOMAIN PushBounded(hist, n, g)
    PROVE  n - s >= HistoryCap
<1> DEFINE newer == NewerOrSame(With(hist, n, g), s)
<1>1. DOMAIN With(hist, n, g) = DOMAIN hist \cup {n}
  BY DEF With
<1>2. s \in Nat /\ s <= n /\ newer \subseteq s..n
  BY <1>1 DEF NewerOrSame
<1>3. ~(Cardinality(newer) <= HistoryCap)
  BY <1>1 DEF PushBounded, Restrict
<1>4. IsFiniteSet(s..n) /\ Cardinality(s..n) = n - s + 1
  BY <1>2, FS_Interval
<1> HIDE DEF newer
<1>5. Cardinality(newer) <= Cardinality(s..n) /\ Cardinality(newer) \in Nat
  BY <1>2, <1>4, FS_Subset, FS_CardinalityType
<1> QED BY <1>2, <1>3, <1>4, <1>5, HistoryAssumption

LEMMA NewestIsKept ==
    ASSUME NEW hist, NEW n \in Nat, DOMAIN hist \subseteq 0..n, NEW g
    PROVE  n \in DOMAIN PushBounded(hist, n, g)
<1>1. HistoryCap > 0 /\ HistoryCap \in Nat
  BY ServerAssumption, HistoryAssumption
<1> QED BY <1>1, EvictedIsOld

LEMMA PruneAckedValues ==
    ASSUME NEW hist, NEW ack
    PROVE  LET h == PruneAcked(hist, ack)
           IN  DOMAIN h \subseteq DOMAIN hist /\ \A s \in DOMAIN h : h[s] = hist[s]
BY DEF PruneAcked, Restrict

\* A frame too old to be a reference stays so.
LEMMA OldStaysOld ==
    ASSUME NEW n \in Nat, NEW k \in Nat, k >= n, NEW a \in Nat, n - a >= HistoryCap
    PROVE  k - a >= HistoryCap
BY HistoryAssumption

LEMMA CountIsNat ==
    ASSUME NEW n \in Int, NEW S \in SUBSET (1..n)
    PROVE  Cardinality(S) \in Nat
<1>1. IsFiniteSet(1..n)
  BY FS_Interval
<1> QED BY <1>1, FS_Subset, FS_CardinalityType

-----------------------------------------------------------------------------
LEMMA SyncInit == Init => SyncInv /\ NumbersInv
<1> SUFFICES ASSUME Init PROVE SyncInv /\ NumbersInv
  OBVIOUS
<1>1. PICK size \in Sizes :
        /\ unacked = {Reliable(1, 0, Resize(size))}
        /\ toServer = {Reliable(1, 0, Resize(size))} \cup {Handshake(h) : h \in LateHandshakes}
        /\ toClient = {} /\ cAckSeqNum = 0 /\ cHistory = EmptyHistory
  BY DEF Init, ClientInit
<1>2. /\ sSeqNum = 0 /\ clientAckSeq = 0 /\ sHistory = EmptyHistory /\ term \in Screens
      /\ snapshots = EmptyHistory /\ job = NoJob /\ farewell = Running
  BY DEF Init, ServerInit
<1>3. DOMAIN EmptyHistory = {}
  BY DEF EmptyHistory
<1>4. AckOK(0)
  BY <1>1, <1>2, <1>3 DEF AckOK
<1>5. /\ \A p \in unacked : AckOK(p.ack)
      /\ \A m \in toServer : m.type # "Handshake" => AckOK(m.ack)
  <2>1. Reliable(1, 0, Resize(size)).ack = 0
    BY DEF Reliable
  <2>2. \A h : Handshake(h).type = "Handshake"
    BY DEF Handshake
  <2> QED BY <1>1, <1>4, <2>1, <2>2
<1>6. SyncInv
  BY <1>1, <1>2, <1>3, <1>4, <1>5 DEF SyncInv, Running
<1>7. NumbersInv
  BY <1>1, <1>2 DEF NumbersInv, ServerNumbersUnique, Running
<1> QED BY <1>6, <1>7

(***************************************************************************)
(* A handler of the server that ends in check_sync.  seq is the number it   *)
(* has reached, after the control packets numbered sSeqNum + 1 .. seq.      *)
(***************************************************************************)
LEMMA SyncCheckSync ==
    ASSUME SyncInv, UNCHANGED <<cAckSeqNum, cHistory, unacked, farewell>>,
           NEW seq \in Nat, seq >= sSeqNum, NEW clientAck, AckOK(clientAck), NEW ack,
           NEW hist, DOMAIN hist \subseteq DOMAIN sHistory,
           \A s \in DOMAIN hist : hist[s] = sHistory[s],
           NEW isDirty, NEW grid \in Screens,
           CheckSync(seq, ack, clientAck, hist, isDirty, grid),
           term' \in Screens, clientAckSeq' = clientAck, toServer' \subseteq toServer,
           \A m \in toClient' :
               m \in toClient \/ (m.type # "Frame" /\ m.seq \in (sSeqNum + 1)..seq)
    PROVE  SyncInv'
<1>1. /\ sSeqNum \in Nat /\ cAckSeqNum \in 0..sSeqNum /\ DOMAIN snapshots \subseteq 1..sSeqNum
      /\ cAckSeqNum \in Nat
  BY DEF SyncInv
<1>2. CASE sSeqNum' = seq /\ sHistory' = hist /\ snapshots' = snapshots /\ job' = job
  <2>1. \A a : AckOK(a) => AckOK(a)'
    <3> SUFFICES ASSUME NEW a, AckOK(a) PROVE AckOK(a)'
      OBVIOUS
    <3>1. a \in Nat
      BY <1>1 DEF AckOK
    <3> QED BY <1>1, <1>2, <3>1, HistoryAssumption DEF AckOK
  <2>2. \A m : FrameOK(m) => FrameOK(m)'
    BY <1>2 DEF FrameOK
  <2>3. \A m \in toClient' : /\ m.seq \in 1..sSeqNum'
                             /\ IF m.type = "Frame" THEN FrameOK(m)'
                                                    ELSE m.seq \notin DOMAIN snapshots'
    BY <1>1, <1>2, <2>2 DEF SyncInv
  <2>4. (job # NoJob => job.type = "Frame" /\ job.seq \in 1..sSeqNum /\ FrameOK(job))'
    BY <1>1, <1>2, <2>2 DEF SyncInv
  <2>5. (AckOK(cAckSeqNum) /\ AckOK(clientAckSeq))'
    BY <2>1 DEF SyncInv
  <2>6. (\A p \in unacked : AckOK(p.ack))' /\ (\A m \in toServer : m.type # "Handshake" => AckOK(m.ack))'
    BY <2>1 DEF SyncInv
  <2> QED BY <1>1, <1>2, <2>3, <2>4, <2>5, <2>6 DEF SyncInv
<1>3. CASE QueueFrame(seq, ack, clientAck, hist, grid)
  <2> DEFINE n == seq + 1
             kept == PruneAcked(hist, clientAck)
             ref == RefSeq(seq, clientAck, kept)
             base == IF ref = 0 THEN BlankGrid(grid.cols, grid.rows, grid.cursor) ELSE kept[ref]
  <2>1. /\ sSeqNum' = n /\ sHistory' = PushBounded(kept, n, grid)
        /\ snapshots' = With(snapshots, n, grid)
        /\ job' = job \/ job' = Frame(n, ack, DiffFrom(grid, base, ref))
    BY <1>3 DEF QueueFrame
  <2>2. n \in Nat /\ n > sSeqNum /\ n \notin DOMAIN snapshots
    BY <1>1
  <2>3. /\ DOMAIN snapshots' = DOMAIN snapshots \cup {n} /\ snapshots'[n] = grid
        /\ \A s \in DOMAIN snapshots : snapshots'[s] = snapshots[s]
    BY <2>1, <2>2 DEF With
  <2>4. DOMAIN kept \subseteq DOMAIN hist /\ \A s \in DOMAIN kept : kept[s] = hist[s]
    BY PruneAckedValues
  <2>5. \A s \in DOMAIN kept : s \in DOMAIN snapshots /\ kept[s] = snapshots[s]
    BY <2>4 DEF SyncInv
  <2> HIDE DEF n, kept
  <2>6. \A s \in DOMAIN sHistory' : s \in DOMAIN snapshots' /\ sHistory'[s] = snapshots'[s]
    BY <2>1, <2>2, <2>3, <2>5, PushBoundedValues
  <2>7. \A a : AckOK(a) => AckOK(a)'
    <3> SUFFICES ASSUME NEW a, AckOK(a) PROVE AckOK(a)'
      OBVIOUS
    <3>1. a \in 0..cAckSeqNum /\ a # n
      BY <1>1, <2>2 DEF AckOK
    <3>2. a \in DOMAIN snapshots' => a \in DOMAIN snapshots
      BY <2>3, <3>1
    <3> QED BY <1>1, <2>1, <2>2, <3>1, <3>2, HistoryAssumption DEF AckOK
  <2>8. \A m : FrameOK(m) => FrameOK(m)'
    BY <2>2, <2>3 DEF FrameOK
  <2>9. ref = 0 \/ /\ ref = clientAck /\ ref \in DOMAIN snapshots /\ base = snapshots[ref]
                   /\ ref < n /\ n - ref <= MaxLag + 1 /\ ref \in DOMAIN cHistory
    <3> SUFFICES ASSUME ref # 0
                 PROVE  /\ ref = clientAck /\ ref \in DOMAIN snapshots /\ base = snapshots[ref]
                        /\ ref < n /\ n - ref <= MaxLag + 1 /\ ref \in DOMAIN cHistory
      OBVIOUS
    <3>1. ref = clientAck /\ clientAck \in DOMAIN kept
          /\ (IF seq > clientAck THEN seq - clientAck ELSE 0) <= MaxLag
      BY DEF RefSeq
    <3>2. clientAck \in DOMAIN snapshots /\ base = snapshots[ref]
      BY <2>5, <3>1
    <3>3. clientAck \in Nat /\ clientAck <= cAckSeqNum /\ clientAck <= seq
      BY <1>1 DEF AckOK
    <3>4. seq - clientAck <= MaxLag
      BY <3>1, <3>3, ServerAssumption
    <3>5. clientAck \in DOMAIN cHistory
      <4>1. clientAck \in DOMAIN cHistory \/ sSeqNum - clientAck >= HistoryCap
        BY <3>2 DEF AckOK
      <4> QED BY <1>1, <3>3, <3>4, <4>1, ServerAssumption, HistoryAssumption
    <3> QED BY <3>1, <3>2, <3>3, <3>4, <3>5, ServerAssumption DEF n
  <2> DEFINE f == Frame(n, ack, DiffFrom(grid, base, ref))
  <2>10. PICK fr : fr = f
    OBVIOUS
  <2>11. /\ fr.type = "Frame" /\ fr.seq = n /\ fr.update = DiffFrom(grid, base, ref)
         /\ fr.update.ref_seq = ref
    BY <2>10 DEF Frame, DiffFrom
  <2>12. FrameOK(fr)'
    <3>1. snapshots'[fr.seq] = grid /\ fr.seq \in DOMAIN snapshots'
      BY <2>3, <2>11
    <3>2. CASE ref = 0
      BY <2>11, <3>1, <3>2 DEF FrameOK
    <3>3. CASE ref # 0
      <4>1. /\ ref \in DOMAIN snapshots' /\ base = snapshots'[ref] /\ ref < n
            /\ n - ref <= MaxLag + 1 /\ ref \in DOMAIN cHistory'
        BY <2>3, <2>9, <3>3
      <4> HIDE DEF base, ref
      <4> QED BY <2>11, <3>1, <3>3, <4>1 DEF FrameOK
    <3> QED BY <3>2, <3>3
  <2> HIDE DEF base, ref, f
  <2>13. \A m \in toClient' : /\ m.seq \in 1..sSeqNum'
                              /\ IF m.type = "Frame" THEN FrameOK(m)'
                                                     ELSE m.seq \notin DOMAIN snapshots'
    <3> SUFFICES ASSUME NEW m \in toClient'
                 PROVE  /\ m.seq \in 1..sSeqNum'
                        /\ IF m.type = "Frame" THEN FrameOK(m)'
                                               ELSE m.seq \notin DOMAIN snapshots'
      OBVIOUS
    <3>1. CASE m \in toClient
      BY <1>1, <2>1, <2>2, <2>3, <2>8, <3>1 DEF SyncInv
    <3>2. CASE m.type # "Frame" /\ m.seq \in (sSeqNum + 1)..seq
      BY <1>1, <2>1, <2>2, <2>3, <3>2 DEF n
    <3> QED BY <3>1, <3>2
  <2>14. (job # NoJob => job.type = "Frame" /\ job.seq \in 1..sSeqNum /\ FrameOK(job))'
    <3>1. CASE job' = job
      BY <1>1, <2>1, <2>2, <2>8, <3>1 DEF SyncInv
    <3>2. CASE job' = fr
      BY <1>1, <2>1, <2>2, <2>11, <2>12, <3>2
    <3> QED BY <2>1, <2>10, <3>1, <3>2 DEF f
  <2>15. (AckOK(cAckSeqNum) /\ AckOK(clientAckSeq))'
    BY <2>7 DEF SyncInv
  <2>16. (\A p \in unacked : AckOK(p.ack))' /\ (\A m \in toServer : m.type # "Handshake" => AckOK(m.ack))'
    BY <2>7 DEF SyncInv
  <2>17. (\A s \in DOMAIN cHistory :
            s \in DOMAIN snapshots /\ s <= cAckSeqNum /\ cHistory[s] = snapshots[s])'
    BY <2>3 DEF SyncInv
  <2>18. (farewell.type = "Shutdown" =>
            farewell.seq \in 1..sSeqNum /\ farewell.seq \notin DOMAIN snapshots)'
    BY <1>1, <2>1, <2>2, <2>3 DEF SyncInv
  <2>19. (/\ sSeqNum \in Nat /\ cAckSeqNum \in 0..sSeqNum /\ DOMAIN snapshots \subseteq 1..sSeqNum
          /\ \A s \in DOMAIN snapshots : snapshots[s] \in Screens)'
    BY <1>1, <2>1, <2>2, <2>3 DEF SyncInv
  <2> QED BY <2>6, <2>13, <2>14, <2>15, <2>16, <2>17, <2>18, <2>19 DEF SyncInv
<1> QED BY <1>2, <1>3 DEF CheckSync

-----------------------------------------------------------------------------
(***************************************************************************)
(* Steps that number no frame and take no packet from the server: packets   *)
(* are sent again, lost, or sealed with the client's acknowledgement; the   *)
(* diff job finishes; Shutdown gets its number and is sent.                 *)
(***************************************************************************)
LEMMA SyncQuiet ==
    ASSUME SyncInv,
           UNCHANGED <<cAckSeqNum, cHistory, snapshots, sHistory, clientAckSeq>>,
           sSeqNum' \in Nat, sSeqNum' >= sSeqNum, term' \in Screens,
           \A p \in unacked' : p \in unacked \/ p.ack = cAckSeqNum,
           \A m \in toServer' : m \in toServer \/ m \in unacked \/ m.ack = cAckSeqNum,
           \A m \in toClient' : \/ m \in toClient
                                \/ job # NoJob /\ m = job
                                \/ farewell.type = "Shutdown" /\ m.type # "Frame" /\ m.seq = farewell.seq,
           job' = job \/ job' = NoJob,
           \/ farewell' = farewell \/ farewell'.type # "Shutdown"
           \/ farewell.type = "Shutdown" /\ farewell'.seq = farewell.seq
           \/ farewell'.seq = sSeqNum' /\ sSeqNum' > sSeqNum
    PROVE  SyncInv'
<1>1. /\ sSeqNum \in Nat /\ cAckSeqNum \in 0..sSeqNum /\ DOMAIN snapshots \subseteq 1..sSeqNum
      /\ cAckSeqNum \in Nat
  BY DEF SyncInv
<1>2. \A a : AckOK(a) => AckOK(a)'
  <2> SUFFICES ASSUME NEW a, AckOK(a) PROVE AckOK(a)'
    OBVIOUS
  <2>1. a \in Nat
    BY <1>1 DEF AckOK
  <2>2. sSeqNum - a >= HistoryCap => sSeqNum' - a >= HistoryCap
    BY <1>1, <2>1, OldStaysOld
  <2> QED BY <1>1, <2>2 DEF AckOK
<1>3. \A m : FrameOK(m) => FrameOK(m)'
  BY DEF FrameOK
<1>4. (AckOK(cAckSeqNum) /\ AckOK(clientAckSeq))' /\ (\A p \in unacked : AckOK(p.ack))'
      /\ (\A m \in toServer : m.type # "Handshake" => AckOK(m.ack))'
  BY <1>2 DEF SyncInv
<1>5. \A m \in toClient' : /\ m.seq \in 1..sSeqNum'
                           /\ IF m.type = "Frame" THEN FrameOK(m)'
                                                  ELSE m.seq \notin DOMAIN snapshots'
  <2> SUFFICES ASSUME NEW m \in toClient'
               PROVE  /\ m.seq \in 1..sSeqNum'
                      /\ IF m.type = "Frame" THEN FrameOK(m)'
                                             ELSE m.seq \notin DOMAIN snapshots'
    OBVIOUS
  <2>1. CASE m \in toClient
    BY <1>1, <1>3, <2>1 DEF SyncInv
  <2>2. CASE job # NoJob /\ m = job
    BY <1>1, <1>3, <2>2 DEF SyncInv
  <2>3. CASE farewell.type = "Shutdown" /\ m.type # "Frame" /\ m.seq = farewell.seq
    BY <1>1, <2>3 DEF SyncInv
  <2> QED BY <2>1, <2>2, <2>3
<1>6. (job # NoJob => job.type = "Frame" /\ job.seq \in 1..sSeqNum /\ FrameOK(job))'
  BY <1>1, <1>3 DEF SyncInv
<1>7. (farewell.type = "Shutdown" =>
          farewell.seq \in 1..sSeqNum /\ farewell.seq \notin DOMAIN snapshots)'
  BY <1>1 DEF SyncInv
<1> QED BY <1>1, <1>4, <1>5, <1>6, <1>7 DEF SyncInv

\* A packet that is not a frame: its number names no screen.
LEMMA SyncControl ==
    ASSUME SyncInv, NEW m \in toClient, FeedControl(m), UNCHANGED serverVars
    PROVE  SyncInv'
<1>1. /\ m.type # "Frame" /\ cAckSeqNum' = m.seq /\ m.seq > cAckSeqNum
      /\ UNCHANGED <<toServer, cHistory>> /\ unacked' \subseteq unacked /\ toClient' \subseteq toClient
      /\ UNCHANGED <<sSeqNum, sHistory, snapshots, job, farewell, term, clientAckSeq>>
  BY DEF FeedControl, Unpruned, Remaining, serverVars, syncVars
<1>2. /\ sSeqNum \in Nat /\ cAckSeqNum \in 0..sSeqNum /\ DOMAIN snapshots \subseteq 1..sSeqNum
      /\ cAckSeqNum \in Nat /\ m.seq \in 1..sSeqNum /\ m.seq \notin DOMAIN snapshots
  BY <1>1 DEF SyncInv
<1>3. \A a : AckOK(a) => AckOK(a)'
  <2> SUFFICES ASSUME NEW a, AckOK(a) PROVE AckOK(a)'
    OBVIOUS
  <2> QED BY <1>1, <1>2 DEF AckOK
<1>4. \A k : FrameOK(k) /\ k.seq \in Nat => FrameOK(k)'
  BY <1>1, <1>2 DEF FrameOK
<1>5. AckOK(cAckSeqNum)'
  BY <1>1, <1>2 DEF AckOK
<1>6. AckOK(clientAckSeq)' /\ (\A p \in unacked : AckOK(p.ack))'
      /\ (\A k \in toServer : k.type # "Handshake" => AckOK(k.ack))'
  BY <1>1, <1>3 DEF SyncInv
<1>7. (\A k \in toClient : /\ k.seq \in 1..sSeqNum
                           /\ IF k.type = "Frame" THEN FrameOK(k)
                                                  ELSE k.seq \notin DOMAIN snapshots)'
  BY <1>1, <1>2, <1>4 DEF SyncInv
<1>8. (job # NoJob => job.type = "Frame" /\ job.seq \in 1..sSeqNum /\ FrameOK(job))'
  BY <1>1, <1>2, <1>4 DEF SyncInv
<1>9. (\A s \in DOMAIN cHistory :
         s \in DOMAIN snapshots /\ s <= cAckSeqNum /\ cHistory[s] = snapshots[s])'
  <2>1. \A s \in DOMAIN cHistory : s \in Nat
    BY <1>2 DEF SyncInv
  <2> QED BY <1>1, <1>2, <2>1 DEF SyncInv
<1> QED BY <1>1, <1>2, <1>5, <1>6, <1>7, <1>8, <1>9 DEF SyncInv

(***************************************************************************)
(* A frame: the screen rebuilt from it is the one the server numbered, and  *)
(* the screen it may push out of the history is too old to be a reference   *)
(* of a frame still on its way or to come.                                  *)
(***************************************************************************)
LEMMA FrameRebuilds ==
    ASSUME SyncInv, NEW m, FrameOK(m), m.seq > cAckSeqNum
    PROVE  HasRef(m.update) /\ InBounds(m.update) /\ Rebuilt(m.update) = snapshots[m.seq]
<1> DEFINE g == snapshots[m.seq]
           r == m.update.ref_seq
           blank == BlankGrid(g.cols, g.rows, g.cursor)
<1>1. IsGrid(g) /\ Fits(g) /\ IsGrid(blank)
  <2>1. g \in Screens
    BY DEF FrameOK, SyncInv
  <2>2. IsGrid(g) /\ Fits(g)
    BY <2>1, ServerAssumption
  <2> HIDE DEF g
  <2>3. IsGrid(blank)
    BY <2>2, GridAssumption DEF IsGrid, GridOf, BlankGrid
  <2> QED BY <2>2, <2>3
<1>2. CASE r = 0 /\ m.update = DiffFrom(g, blank, 0)
  <2>1. InBounds(m.update) /\ Patch(blank, m.update) = g
    <3> HIDE DEF g, blank
    <3> QED BY <1>1, <1>2, DiffPatchRoundTrip
  <2>2. m.update.cols = g.cols /\ m.update.rows = g.rows /\ m.update.cursor = g.cursor
    <3> HIDE DEF g, blank
    <3> QED BY <1>2 DEF DiffFrom
  <2> QED BY <1>2, <2>1, <2>2 DEF HasRef, Rebuilt
<1>3. CASE /\ r \in DOMAIN snapshots /\ m.update = DiffFrom(g, snapshots[r], r)
           /\ r \in DOMAIN cHistory
  <2>1. r # 0 /\ cHistory[r] = snapshots[r] /\ snapshots[r] \in Screens
    BY <1>3 DEF SyncInv
  <2>2. IsGrid(snapshots[r])
    BY <2>1, ServerAssumption
  <2>3. InBounds(m.update) /\ Patch(snapshots[r], m.update) = g
    <3> HIDE DEF g, r
    <3> QED BY <1>1, <1>3, <2>2, DiffPatchRoundTrip
  <2> QED BY <1>3, <2>1, <2>3 DEF HasRef, Rebuilt
<1> QED BY <1>2, <1>3 DEF FrameOK

LEMMA SyncFrame ==
    ASSUME SyncInv, NEW m \in toClient, NEW ackDue, FeedFrame(m, ackDue), UNCHANGED serverVars
    PROVE  SyncInv'
<1>1. m.type = "Frame" /\ m.seq > cAckSeqNum /\ FrameOK(m) /\ m.seq \in 1..sSeqNum
  BY DEF FeedFrame, SyncInv
<1>2. HasRef(m.update) /\ InBounds(m.update) /\ Rebuilt(m.update) = snapshots[m.seq]
  BY <1>1, FrameRebuilds
<1> DEFINE h == PushBounded(cHistory, m.seq, snapshots[m.seq])
<1>3. /\ cAckSeqNum' = m.seq /\ cHistory' = h
      /\ toServer' = toServer \/ toServer' = toServer \cup {Ack(m.seq)}
      /\ unacked' \subseteq unacked /\ toClient' \subseteq toClient
  BY <1>2 DEF FeedFrame, Unpruned, Remaining
<1>4. UNCHANGED <<sSeqNum, sHistory, snapshots, job, farewell, term, clientAckSeq>>
  BY DEF serverVars, syncVars
<1>5. /\ sSeqNum \in Nat /\ cAckSeqNum \in 0..sSeqNum /\ DOMAIN snapshots \subseteq 1..sSeqNum
      /\ cAckSeqNum \in Nat /\ m.seq \in Nat /\ m.seq \in DOMAIN snapshots
  BY <1>1 DEF SyncInv, FrameOK
<1>6. DOMAIN cHistory \subseteq 0..m.seq /\ \A s \in DOMAIN cHistory : s \in DOMAIN snapshots
  BY <1>1, <1>5 DEF SyncInv
<1>7. /\ DOMAIN h \subseteq DOMAIN cHistory \cup {m.seq}
      /\ \A s \in DOMAIN h : h[s] = IF s = m.seq THEN snapshots[m.seq] ELSE cHistory[s]
      /\ m.seq \in DOMAIN h
  BY <1>5, <1>6, PushBoundedValues, NewestIsKept
<1>8. \A s \in DOMAIN cHistory : s \notin DOMAIN h => m.seq - s >= HistoryCap
  BY <1>5, <1>6, EvictedIsOld
<1> HIDE DEF h
<1>9. \A s \in DOMAIN cHistory' :
         s \in DOMAIN snapshots' /\ s <= cAckSeqNum' /\ cHistory'[s] = snapshots'[s]
  BY <1>3, <1>4, <1>5, <1>6, <1>7 DEF SyncInv
<1>10. AckOK(cAckSeqNum)' /\ AckOK(m.seq)'
  BY <1>1, <1>3, <1>4, <1>5, <1>7 DEF AckOK
<1>11. \A a : AckOK(a) => AckOK(a)'
  <2> SUFFICES ASSUME NEW a, AckOK(a) PROVE AckOK(a)'
    OBVIOUS
  <2>1. a \in Nat /\ a \in 0..cAckSeqNum'
    BY <1>1, <1>3, <1>5 DEF AckOK
  <2>2. ASSUME a \in DOMAIN snapshots', a \in DOMAIN cHistory, a \notin DOMAIN cHistory'
        PROVE  sSeqNum' - a >= HistoryCap
    BY <1>1, <1>3, <1>4, <1>5, <1>8, <2>1, <2>2, HistoryAssumption
  <2>3. a \in DOMAIN snapshots' => a \in DOMAIN cHistory' \/ sSeqNum' - a >= HistoryCap
    BY <1>4, <2>2 DEF AckOK
  <2> QED BY <2>1, <2>3 DEF AckOK
<1>12. \A k : FrameOK(k) /\ k.seq \in Nat => FrameOK(k)'
  <2> SUFFICES ASSUME NEW k, FrameOK(k), k.seq \in Nat PROVE FrameOK(k)'
    OBVIOUS
  <2> DEFINE r == k.update.ref_seq
  <2>1. ASSUME r \in DOMAIN snapshots, r < k.seq, k.seq - r <= MaxLag + 1,
               k.seq > cAckSeqNum => r \in DOMAIN cHistory, k.seq > cAckSeqNum'
        PROVE  r \in DOMAIN cHistory'
    <3>1. r \in Nat /\ r \in DOMAIN cHistory
      BY <1>1, <1>3, <1>5, <2>1
    <3>2. k.seq > m.seq
      BY <1>3, <2>1
    <3>3. r \notin DOMAIN cHistory' => m.seq - r >= HistoryCap
      BY <1>3, <1>8, <3>1
    <3> HIDE DEF r
    <3> QED BY <1>5, <2>1, <3>1, <3>2, <3>3, ServerAssumption, HistoryAssumption
  <2>2. snapshots' = snapshots
    BY <1>4
  <2> QED BY <2>1, <2>2 DEF FrameOK
<1>13. AckOK(clientAckSeq)' /\ (\A p \in unacked : AckOK(p.ack))'
  BY <1>3, <1>4, <1>11 DEF SyncInv
<1>14. \A k \in toServer' : k.type # "Handshake" => AckOK(k.ack)'
  <2>1. PICK a : a = Ack(m.seq)
    OBVIOUS
  <2>2. a.ack = m.seq
    BY <2>1 DEF Ack
  <2> QED BY <1>3, <1>10, <1>11, <2>1, <2>2 DEF SyncInv
<1>15. (\A k \in toClient : /\ k.seq \in 1..sSeqNum
                            /\ IF k.type = "Frame" THEN FrameOK(k)
                                                   ELSE k.seq \notin DOMAIN snapshots)'
  BY <1>3, <1>4, <1>5, <1>12 DEF SyncInv
<1>16. (job # NoJob => job.type = "Frame" /\ job.seq \in 1..sSeqNum /\ FrameOK(job))'
  BY <1>4, <1>5, <1>12 DEF SyncInv
<1> QED BY <1>1, <1>3, <1>4, <1>5, <1>9, <1>10, <1>13, <1>14, <1>15, <1>16 DEF SyncInv

-----------------------------------------------------------------------------
(***************************************************************************)
(* The server's handlers that end in check_sync.                            *)
(***************************************************************************)
LEMMA SyncHandshake ==
    ASSUME SyncInv, StreamInv, NEW m \in toServer, FeedHandshake(m), UNCHANGED clientVars
    PROVE  SyncInv'
<1>1. /\ UNCHANGED <<term, farewell, cAckSeqNum, cHistory, unacked>> /\ clientAckSeq' = 0
      /\ toServer' \subseteq toServer
      /\ toClient' = toClient \cup {Control("HandshakeAck", sSeqNum + 1, m.seq)}
  BY DEF FeedHandshake, Remaining, clientVars
<1>2. PICK d : CheckSync(sSeqNum + 1, m.seq, 0, EmptyHistory, d, term)
  BY Zenon DEF FeedHandshake
<1>3. sSeqNum \in Nat /\ sSeqNum + 1 \in Nat /\ term \in Screens /\ AckOK(0)
  BY DEF SyncInv, AckOK
<1>4. DOMAIN EmptyHistory = {}
  BY DEF EmptyHistory
<1>5. \A k \in toClient' :
         k \in toClient \/ (k.type # "Frame" /\ k.seq \in (sSeqNum + 1)..(sSeqNum + 1))
  BY <1>1, <1>3 DEF Control
<1> QED BY <1>1, <1>2, <1>3, <1>4, <1>5, SyncCheckSync

\* What a sweep applies, as the facts the screens depend on.
LEMMA SweepFacts ==
    ASSUME SyncInv, StreamInv, NEW m \in toServer, NEW next \in Nat, FeedInOrder(m, next)
    PROVE  \E alive \in Nat, d \in BOOLEAN :
             /\ toClient' = toClient \cup Replies(sSeqNum, alive, next - 1)
             /\ CheckSync(sSeqNum + alive, next - 1, m.ack, sHistory, d, term')
             /\ term' \in Screens /\ clientAckSeq' = m.ack /\ toServer' \subseteq toServer
             /\ UNCHANGED <<farewell, wasReset>> /\ m.type = "Reliable" /\ next - 1 \in Nat
<1> DEFINE batch == [i \in 1..(next - m.seq) |->
                       IF i = 1 THEN m.payload ELSE outOfOrder[m.seq + i - 1]]
           counted == {i \in DOMAIN batch : batch[i].kind = "KeepAlive"}
           d == dirty \/ (\E i \in DOMAIN batch : batch[i].kind = "Resize")
<1>1. m.type = "Reliable" /\ m.seq \in Nat /\ next > m.seq
  BY DEF StreamInv, PacketsInv, ReliableOK, FeedInOrder, IsExpected, FirstGap, WindowInv
<1>2. Cardinality(counted) \in Nat
  <2>1. counted \in SUBSET (1..(next - m.seq)) /\ next - m.seq \in Int
    BY <1>1
  <2> HIDE DEF counted
  <2> QED BY <2>1, CountIsNat
<1>3. /\ toClient' = toClient \cup Replies(sSeqNum, Cardinality(counted), next - 1)
      /\ CheckSync(sSeqNum + Cardinality(counted), next - 1, m.ack, sHistory, d, term')
      /\ term' \in ScreensAfter(batch)
      /\ clientAckSeq' = m.ack /\ toServer' \subseteq toServer /\ UNCHANGED <<farewell, wasReset>>
  BY DEF FeedInOrder, Remaining
<1> HIDE DEF batch, counted, d
<1>4. term' \in Screens
  BY <1>3 DEF ScreensAfter, SyncInv
<1>5. next - 1 \in Nat
  BY <1>1
<1>6. d \in BOOLEAN
  BY Zenon DEF d
<1> QED BY <1>1, <1>2, <1>3, <1>4, <1>5, <1>6, Zenon

LEMMA SyncInOrder ==
    ASSUME SyncInv, StreamInv, NEW m \in toServer, NEW next \in Nat, FeedInOrder(m, next),
           UNCHANGED clientVars
    PROVE  SyncInv'
<1>1. PICK alive \in Nat, d \in BOOLEAN :
        /\ toClient' = toClient \cup Replies(sSeqNum, alive, next - 1)
        /\ CheckSync(sSeqNum + alive, next - 1, m.ack, sHistory, d, term')
        /\ term' \in Screens /\ clientAckSeq' = m.ack /\ toServer' \subseteq toServer
        /\ UNCHANGED <<farewell, wasReset>> /\ m.type = "Reliable"
  BY SweepFacts, Zenon
<1>2. UNCHANGED <<cAckSeqNum, cHistory, unacked>>
  BY DEF clientVars
<1>3. sSeqNum \in Nat /\ sSeqNum + alive \in Nat /\ sSeqNum + alive >= sSeqNum /\ AckOK(m.ack)
  BY <1>1 DEF SyncInv
<1>4. \A k \in toClient' :
         k \in toClient \/ (k.type # "Frame" /\ k.seq \in (sSeqNum + 1)..(sSeqNum + alive))
  BY <1>1, <1>3 DEF Replies, Control
<1> QED BY <1>1, <1>2, <1>3, <1>4, SyncCheckSync

LEMMA SyncStep == SyncInv /\ StreamInv /\ [Next]_vars => SyncInv'
<1> SUFFICES ASSUME SyncInv, StreamInv, [Next]_vars PROVE SyncInv'
  OBVIOUS
<1>0. sSeqNum \in Nat /\ sSeqNum >= sSeqNum /\ term \in Screens /\ AckOK(clientAckSeq)
  BY DEF SyncInv
<1>1. CASE ServerStep /\ UNCHANGED clientVars
  <2>0. UNCHANGED <<cAckSeqNum, cHistory, unacked>>
    BY <1>1 DEF clientVars
  <2>1. ASSUME NEW m \in toServer,
               FeedHandshakeIgnored(m) \/ FeedDuplicate(m) \/ FeedOutOfOrder(m)
        PROVE  SyncInv'
    <3>1. /\ toServer' \subseteq toServer
          /\ UNCHANGED <<toClient, sSeqNum, sHistory, snapshots, job, farewell, term, clientAckSeq>>
      BY <2>1 DEF FeedHandshakeIgnored, FeedDuplicate, FeedOutOfOrder, Remaining,
         serverVars, syncVars
    <3> QED BY <1>0, <2>0, <3>1, SyncQuiet
  <2>2. ASSUME NEW m \in toServer, FeedHandshake(m) PROVE SyncInv'
    BY <1>1, <2>2, SyncHandshake
  <2>3. ASSUME NEW m \in toServer, FeedAck(m) PROVE SyncInv'
    <3>1. /\ UNCHANGED <<toClient, term, farewell>> /\ toServer' \subseteq toServer
          /\ clientAckSeq' = IF m.ack > clientAckSeq THEN m.ack ELSE clientAckSeq
          /\ m.type = "Ack"
      BY <2>3 DEF FeedAck, Remaining
    <3>2. PICK c, d : c = clientAckSeq' /\ CheckSync(sSeqNum, sAckSeqNum, c, sHistory, d, term)
      BY <2>3, Zenon DEF FeedAck
    <3>3. AckOK(c)
      BY <3>1, <3>2 DEF SyncInv
    <3> QED BY <1>0, <2>0, <3>1, <3>2, <3>3, SyncCheckSync
  <2>4. ASSUME NEW m \in toServer, NEW next \in 2..(MaxClientSeq + 1), FeedInOrder(m, next)
        PROVE  SyncInv'
    BY <1>1, <2>4, SyncInOrder, ClientAssumption
  <2>5. CASE OnPtyBytes
    <3>1. /\ UNCHANGED <<netVars, sSeqNum, sHistory, snapshots, job, farewell, clientAckSeq>>
          /\ term' \in Screens
      BY <2>5 DEF OnPtyBytes
    <3> QED BY <1>0, <2>0, <3>1, SyncQuiet DEF netVars
  <2>6. CASE ServerTick
    <3>1. UNCHANGED <<toServer, toClient, term, farewell, clientAckSeq>>
      BY <2>6 DEF ServerTick, netVars
    <3>2. PICK d : CheckSync(sSeqNum, sAckSeqNum, clientAckSeq, sHistory, d, term)
      BY <2>6, Zenon DEF ServerTick
    <3> QED BY <1>0, <2>0, <3>1, <3>2, SyncCheckSync
  <2>7. CASE JobSend \/ JobDone \/ ServerExit
    <3>1. /\ UNCHANGED <<toServer, sSeqNum, sHistory, snapshots, term, clientAckSeq>>
          /\ toClient' = toClient \/ (job # NoJob /\ toClient' = toClient \cup {job})
          /\ job' = job \/ job' = NoJob
          /\ farewell' = farewell \/ farewell'.type # "Shutdown"
      BY <2>7 DEF JobSend, JobDone, ServerExit, Gone, netVars, serverVars, syncVars
    <3> QED BY <1>0, <2>0, <3>1, SyncQuiet
  <2>8. CASE PtyExit
    <3>1. /\ UNCHANGED <<netVars, sHistory, snapshots, job, term, clientAckSeq>>
          /\ sSeqNum' = sSeqNum + 1 /\ farewell'.seq = sSeqNum + 1
      BY <2>8 DEF PtyExit
    <3> QED BY <1>0, <2>0, <3>1, SyncQuiet DEF netVars
  <2>9. CASE SendShutdown
    <3>1. farewell = [type |-> "Shutdown", seq |-> farewell.seq, left |-> farewell.left]
      BY <2>9 DEF SendShutdown, StreamInv, PacketsInv
    <3>2. farewell' = [type |-> "Shutdown", seq |-> farewell.seq, left |-> farewell.left - 1]
      BY <2>9, <3>1 DEF SendShutdown
    <3>3. /\ UNCHANGED <<toServer, sSeqNum, sHistory, snapshots, job, term, clientAckSeq>>
          /\ farewell.type = "Shutdown" /\ farewell'.seq = farewell.seq
          /\ toClient' = toClient \cup {Control("Shutdown", farewell.seq, 0)}
      BY <2>9, <3>2 DEF SendShutdown, syncVars
    <3>4. \A m \in toClient' : \/ m \in toClient
                               \/ m.type # "Frame" /\ m.seq = farewell.seq
      BY <3>3 DEF Control
    <3> QED BY <1>0, <2>0, <3>3, <3>4, SyncQuiet
  <2> QED BY <1>1, <2>1, <2>2, <2>3, <2>4, <2>5, <2>6, <2>7, <2>8, <2>9 DEF ServerStep
<1>2. CASE ClientStep /\ UNCHANGED serverVars
  <2>0. UNCHANGED <<sSeqNum, sHistory, snapshots, job, farewell, term, clientAckSeq>>
    BY <1>2 DEF serverVars, syncVars
  <2>1. ASSUME NEW payload, Track(payload), UNCHANGED <<cAckSeqNum, cHistory, toClient>>,
               NEW others, others \subseteq unacked \cup {Ack(cAckSeqNum)},
               \/ toServer' = toServer
               \/ toServer' = toServer \cup others \cup {Reliable(cSeqNum + 1, cAckSeqNum, payload)}
        PROVE  SyncInv'
    <3>1. PICK pk, a : pk = Reliable(cSeqNum + 1, cAckSeqNum, payload) /\ a = Ack(cAckSeqNum)
      OBVIOUS
    <3>2. /\ pk.ack = cAckSeqNum /\ a.ack = cAckSeqNum /\ unacked' = unacked \cup {pk}
          /\ toServer' = toServer \/ toServer' = toServer \cup others \cup {pk}
          /\ others \subseteq unacked \cup {a}
      BY <2>1, <3>1 DEF Track, Reliable, Ack
    <3> QED BY <1>0, <2>0, <2>1, <3>2, SyncQuiet
  <2>2. CASE FeedStdin \/ OnWinch \/ OnResume
    <3>1. PICK payload : /\ Track(payload)
                         /\ \/ toServer' = toServer
                            \/ toServer' = toServer \cup {} \cup {Reliable(cSeqNum + 1, cAckSeqNum, payload)}
      BY <2>2 DEF FeedStdin, OnWinch, OnResume, SendReliable, netVars
    <3> QED BY <2>1, <2>2, <3>1 DEF FeedStdin, OnWinch, OnResume, netVars
  <2>3. CASE Disconnect
    BY <1>0, <2>0, <2>3, SyncQuiet DEF Disconnect, netVars
  <2>4. ASSUME NEW alive \in BOOLEAN, NEW overdue \in SUBSET unacked,
               NEW nacks \in SUBSET Nacks, OnTick(alive, overdue, nacks)
        PROVE  SyncInv'
    <3>1. overdue \cup nacks \subseteq unacked \cup {Ack(cAckSeqNum)}
      BY DEF Nacks
    <3>2. CASE SendReliable(KeepAlive, overdue \cup nacks)
      BY <2>1, <2>4, <3>1, <3>2 DEF OnTick, SendReliable
    <3>3. CASE toServer' = toServer \cup overdue \cup nacks /\ UNCHANGED unacked
      <4>1. \A m \in toServer' : m \in toServer \/ m \in unacked \/ m.ack = cAckSeqNum
        BY <3>1, <3>3 DEF Ack
      <4> QED BY <1>0, <2>0, <2>4, <3>3, <4>1, SyncQuiet DEF OnTick
    <3> QED BY <2>4, <3>2, <3>3 DEF OnTick
  <2>5. ASSUME NEW m \in toClient, FeedStale(m) PROVE SyncInv'
    <3>1. /\ UNCHANGED <<toServer, cAckSeqNum, cHistory>>
          /\ unacked' \subseteq unacked /\ toClient' \subseteq toClient
      BY <2>5 DEF FeedStale, Unpruned, Remaining
    <3> QED BY <1>0, <2>0, <3>1, SyncQuiet
  <2>6. ASSUME NEW m \in toClient, NEW ackDue \in BOOLEAN, FeedFrame(m, ackDue) PROVE SyncInv'
    BY <1>2, <2>6, SyncFrame
  <2>7. ASSUME NEW m \in toClient, FeedControl(m) PROVE SyncInv'
    BY <1>2, <2>7, SyncControl
  <2> QED BY <1>2, <2>2, <2>3, <2>4, <2>5, <2>6, <2>7 DEF ClientStep
<1>3. CASE (LoseToServer \/ LoseToClient) /\ UNCHANGED <<serverVars, clientVars>>
  <2>1. toServer' \subseteq toServer /\ toClient' \subseteq toClient
    BY <1>3 DEF LoseToServer, LoseToClient
  <2>2. UNCHANGED <<sSeqNum, sHistory, snapshots, job, farewell, term, clientAckSeq,
                    cAckSeqNum, cHistory, unacked>>
    BY <1>3 DEF serverVars, syncVars, clientVars
  <2> QED BY <1>0, <2>1, <2>2, SyncQuiet
<1>4. CASE UNCHANGED vars
  BY <1>0, <1>4, SyncQuiet DEF vars, netVars, serverVars, syncVars, clientVars
<1> QED BY <1>1, <1>2, <1>3, <1>4 DEF Next

(***************************************************************************)
(* Every screen the client holds is the one the server numbered, for every  *)
(* network behaviour, any number of frames and any history bound larger     *)
(* than the lag after which the server sends whole screens.                 *)
(***************************************************************************)
THEOREM ScreensAgree == Spec => []SnapshotAgreement
<1>1. SyncInv => SnapshotAgreement
  BY DEF SyncInv, SnapshotAgreement
<1> QED BY <1>1, StreamInit, StreamStep, SyncInit, SyncStep, PTL DEF Spec

(***************************************************************************)
(* The client never meets a frame it would take but cannot apply: the       *)
(* missing-reference branch of feed_packet is unreachable.                  *)
(***************************************************************************)
THEOREM NoMissingReference == Spec => []LiveFramesHaveRef
<1>1. SyncInv => LiveFramesHaveRef
  BY FrameRebuilds DEF SyncInv, LiveFramesHaveRef
<1> QED BY <1>1, StreamInit, StreamStep, SyncInit, SyncStep, PTL DEF Spec

-----------------------------------------------------------------------------
(***************************************************************************)
(* Packet numbers.                                                          *)
(***************************************************************************)

\* What a step adds has numbers of its own, above all earlier ones.
LEMMA NumbersNew ==
    ASSUME SyncInv, NumbersInv, farewell' = farewell,
           NEW New, \A m \in New : m.seq \in Nat /\ m.seq > sSeqNum,
           \A m, n \in New : m.seq = n.seq => m = n,
           \A m \in toClient' : m \in toClient \/ (job # NoJob /\ m = job) \/ m \in New,
           job' = job \/ job' = NoJob \/ job' \in New
    PROVE  NumbersInv'
<1> DEFINE old == toClient \cup ({job} \ {NoJob})
<1>1. \A m \in old : m.seq \in Nat /\ m.seq <= sSeqNum
  BY DEF SyncInv
<1>2. toClient' \cup ({job'} \ {NoJob}) \subseteq old \cup New
  OBVIOUS
<1>3. \A m, n \in old : m.seq = n.seq => m = n
  BY DEF NumbersInv, ServerNumbersUnique
<1>4. sSeqNum \in Nat
  BY DEF SyncInv
<1>5. ServerNumbersUnique'
  <2> SUFFICES ASSUME NEW m \in old \cup New, NEW n \in old \cup New, m.seq = n.seq PROVE m = n
    BY <1>2 DEF ServerNumbersUnique, NoJob
  <2> HIDE DEF old
  <2>1. CASE m \in old /\ n \in New
    BY <1>1, <1>4, <2>1
  <2>2. CASE m \in New /\ n \in old
    BY <1>1, <1>4, <2>2
  <2> QED BY <1>3, <2>1, <2>2
<1>6. ASSUME farewell.type = "Shutdown"
      PROVE  /\ \A m \in toClient' : m.seq = farewell.seq => m = Control("Shutdown", farewell.seq, 0)
             /\ job' # NoJob => job'.seq # farewell.seq
  <2>1. farewell.seq \in Nat /\ farewell.seq <= sSeqNum
    BY <1>6 DEF SyncInv
  <2>2. /\ \A m \in toClient : m.seq = farewell.seq => m = Control("Shutdown", farewell.seq, 0)
        /\ job # NoJob => job.seq # farewell.seq
    BY <1>6 DEF NumbersInv
  <2> QED BY <1>4, <2>1, <2>2
<1> QED BY <1>5, <1>6 DEF NumbersInv

LEMMA NumbersStep == SyncInv /\ StreamInv /\ NumbersInv /\ [Next]_vars => NumbersInv'
<1> SUFFICES ASSUME SyncInv, StreamInv, NumbersInv, [Next]_vars PROVE NumbersInv'
  OBVIOUS
<1>0. sSeqNum \in Nat
  BY DEF SyncInv
<1>1. ASSUME farewell' = farewell, job' = job \/ job' = NoJob,
             \A m \in toClient' : m \in toClient \/ (job # NoJob /\ m = job)
      PROVE  NumbersInv'
  <2>1. PICK New : New = {}
    OBVIOUS
  <2>2. /\ \A m \in New : m.seq \in Nat /\ m.seq > sSeqNum
        /\ \A m, n \in New : m.seq = n.seq => m = n
    BY <2>1
  <2> QED BY <1>1, <2>2, NumbersNew
<1>2. CASE ServerStep /\ UNCHANGED clientVars
  <2>1. ASSUME NEW m \in toServer,
               FeedHandshakeIgnored(m) \/ FeedDuplicate(m) \/ FeedOutOfOrder(m)
        PROVE  NumbersInv'
    BY <1>1, <2>1 DEF FeedHandshakeIgnored, FeedDuplicate, FeedOutOfOrder, serverVars, syncVars
  <2>2. ASSUME NEW m \in toServer, FeedHandshake(m) PROVE NumbersInv'
    <3>1. PICK d : CheckSync(sSeqNum + 1, m.seq, 0, EmptyHistory, d, term)
      BY <2>2, Zenon DEF FeedHandshake
    <3>2. m.seq \in Nat /\ sSeqNum + 1 \in Nat
      BY <1>0, <2>2 DEF FeedHandshake, StreamInv, PacketsInv, ReliableOK
    <3>3. job' = job \/ job'.seq = sSeqNum + 1 + 1
      BY <3>1, <3>2, CheckSyncJob
    <3>4. PICK r : r = Control("HandshakeAck", sSeqNum + 1, m.seq)
      OBVIOUS
    <3>5. r.seq = sSeqNum + 1 /\ toClient' = toClient \cup {r} /\ farewell' = farewell
      BY <2>2, <3>4 DEF FeedHandshake, Control
    <3> DEFINE New == {r} \cup ({job'} \ {job})
    <3>6. /\ \A k \in New : k.seq \in Nat /\ k.seq > sSeqNum
          /\ \A k, n \in New : k.seq = n.seq => k = n
      BY <1>0, <3>3, <3>5
    <3>7. /\ \A k \in toClient' : k \in toClient \/ k \in New
          /\ job' = job \/ job' \in New
      BY <3>5
    <3> HIDE DEF New
    <3> QED BY <3>5, <3>6, <3>7, NumbersNew
  <2>3. ASSUME UNCHANGED <<toClient, farewell>>,
               NEW c, NEW d, CheckSync(sSeqNum, sAckSeqNum, c, sHistory, d, term)
        PROVE  NumbersInv'
    <3>1. sAckSeqNum \in Nat
      BY DEF StreamInv, WindowInv
    <3>2. job' = job \/ job'.seq = sSeqNum + 1
      BY <1>0, <2>3, <3>1, CheckSyncJob
    <3> DEFINE New == {job'} \ {job}
    <3>3. /\ \A k \in New : k.seq \in Nat /\ k.seq > sSeqNum
          /\ \A k, n \in New : k.seq = n.seq => k = n
      BY <1>0, <3>2
    <3> QED BY <2>3, <3>3, NumbersNew
  <2>4. ASSUME NEW m \in toServer, FeedAck(m) PROVE NumbersInv'
    <3>1. PICK c, d : CheckSync(sSeqNum, sAckSeqNum, c, sHistory, d, term)
      BY <2>4, Zenon DEF FeedAck
    <3> QED BY <2>3, <2>4, <3>1 DEF FeedAck
  <2>5. ASSUME NEW m \in toServer, NEW next \in 2..(MaxClientSeq + 1), FeedInOrder(m, next)
        PROVE  NumbersInv'
    <3>1. next \in Nat
      BY ClientAssumption
    <3>2. PICK alive \in Nat, d \in BOOLEAN :
            /\ toClient' = toClient \cup Replies(sSeqNum, alive, next - 1)
            /\ CheckSync(sSeqNum + alive, next - 1, m.ack, sHistory, d, term')
            /\ farewell' = farewell /\ next - 1 \in Nat
      BY <2>5, <3>1, SweepFacts, Zenon
    <3>3. sSeqNum + alive \in Nat
      BY <1>0, <3>2
    <3>4. job' = job \/ job'.seq = sSeqNum + alive + 1
      BY <3>2, <3>3, CheckSyncJob
    <3> DEFINE replies == Replies(sSeqNum, alive, next - 1)
               New == replies \cup ({job'} \ {job})
    <3>5. \A k \in replies : k.seq \in Nat /\ k.seq > sSeqNum /\ k.seq <= sSeqNum + alive
      BY <1>0 DEF Replies, Control
    <3>6. \A k, n \in replies : k.seq = n.seq => k = n
      BY <1>0 DEF Replies, Control
    <3> HIDE DEF replies
    <3>7. /\ \A k \in New : k.seq \in Nat /\ k.seq > sSeqNum
          /\ \A k, n \in New : k.seq = n.seq => k = n
      BY <1>0, <3>2, <3>3, <3>4, <3>5, <3>6
    <3>8. /\ \A k \in toClient' : k \in toClient \/ k \in New
          /\ job' = job \/ job' \in New
      BY <3>2 DEF replies
    <3> HIDE DEF New
    <3> QED BY <3>2, <3>7, <3>8, NumbersNew
  <2>6. CASE OnPtyBytes \/ JobSend \/ JobDone
    BY <1>1, <2>6 DEF OnPtyBytes, JobSend, JobDone, netVars, serverVars, syncVars
  <2>7. CASE ServerTick
    <3>1. PICK d : CheckSync(sSeqNum, sAckSeqNum, clientAckSeq, sHistory, d, term)
      BY <2>7, Zenon DEF ServerTick
    <3> QED BY <2>3, <2>7, <3>1 DEF ServerTick, netVars
  <2>8. CASE PtyExit
    <3>1. UNCHANGED <<toClient, job>> /\ farewell'.seq = sSeqNum + 1
      BY <2>8 DEF PtyExit, netVars
    <3>2. ServerNumbersUnique'
      BY <3>1 DEF NumbersInv, ServerNumbersUnique
    <3>3. /\ \A m \in toClient : m.seq # sSeqNum + 1
          /\ job # NoJob => job.seq # sSeqNum + 1
      BY <1>0 DEF SyncInv
    <3> QED BY <3>1, <3>2, <3>3 DEF NumbersInv
  <2>9. CASE SendShutdown
    <3>1. farewell = [type |-> "Shutdown", seq |-> farewell.seq, left |-> farewell.left]
      BY <2>9 DEF SendShutdown, StreamInv, PacketsInv
    <3>2. farewell' = [type |-> "Shutdown", seq |-> farewell.seq, left |-> farewell.left - 1]
      BY <2>9, <3>1 DEF SendShutdown
    <3>3. PICK r : r = Control("Shutdown", farewell.seq, 0)
      OBVIOUS
    <3>4. /\ farewell.type = "Shutdown" /\ farewell'.seq = farewell.seq /\ r.seq = farewell.seq
          /\ toClient' = toClient \cup {r} /\ job' = job
      BY <2>9, <3>2, <3>3 DEF SendShutdown, syncVars, Control
    <3>5. /\ \A m \in toClient : m.seq = farewell.seq => m = r
          /\ job # NoJob => job.seq # farewell.seq
      BY <3>3, <3>4 DEF NumbersInv
    <3>6. ServerNumbersUnique'
      BY <3>4, <3>5 DEF NumbersInv, ServerNumbersUnique
    <3> QED BY <3>3, <3>4, <3>5, <3>6 DEF NumbersInv
  <2>10. CASE ServerExit
    BY <2>10 DEF ServerExit, Gone, NumbersInv, ServerNumbersUnique, netVars, syncVars
  <2> QED BY <1>2, <2>1, <2>2, <2>4, <2>5, <2>6, <2>7, <2>8, <2>9, <2>10 DEF ServerStep
<1>3. CASE ClientStep /\ UNCHANGED serverVars
  <2>1. UNCHANGED <<job, farewell>>
    BY <1>3 DEF serverVars, syncVars
  <2>2. toClient' \subseteq toClient
    BY <1>3 DEF ClientStep, FeedStdin, OnWinch, OnResume, Disconnect, OnTick, FeedStale, FeedFrame,
       FeedControl, Remaining, netVars
  <2> QED BY <1>1, <2>1, <2>2
<1>4. CASE (LoseToServer \/ LoseToClient) /\ UNCHANGED <<serverVars, clientVars>>
  BY <1>1, <1>4 DEF LoseToServer, LoseToClient, serverVars, syncVars
<1>5. CASE UNCHANGED vars
  BY <1>1, <1>5 DEF vars, netVars, serverVars, syncVars
<1> QED BY <1>2, <1>3, <1>4, <1>5 DEF Next

(***************************************************************************)
(* A packet number never names two packets of the server, although frames,  *)
(* replies and Shutdown are numbered by different handlers and a frame is   *)
(* sent long after it was numbered.                                         *)
(***************************************************************************)
THEOREM NumbersUnique == Spec => []ServerNumbersUnique
<1>1. NumbersInv => ServerNumbersUnique
  BY DEF NumbersInv
<1> QED BY <1>1, StreamInit, StreamStep, SyncInit, SyncStep, NumbersStep, PTL DEF Spec

-----------------------------------------------------------------------------
(***************************************************************************)
(* The type invariant.                                                      *)
(***************************************************************************)

\* Pushing keeps a history within its bound: the oldest entry that is left has
\* at most HistoryCap entries not older than itself, and they are all of them.
LEMMA PushIsBounded ==
    ASSUME NEW hist, NEW n \in Nat, DOMAIN hist \subseteq 0..n, NEW g
    PROVE  Cardinality(DOMAIN PushBounded(hist, n, g)) <= HistoryCap
<1> DEFINE pushed == With(hist, n, g)
           D == DOMAIN PushBounded(hist, n, g)
<1>1. DOMAIN pushed = DOMAIN hist \cup {n}
  BY DEF With
<1>2. D \subseteq DOMAIN pushed /\ D \subseteq Nat /\ DOMAIN pushed \subseteq 0..n
  BY <1>1 DEF PushBounded, Restrict
<1>3. n \in D
  BY NewestIsKept
<1>4. PICK s \in D : \A t \in D : s <= t
  <2>1. \E s \in D : \A t \in D : <<t, s>> \notin OpToRel(<, Nat)
    BY <1>2, <1>3, NatLessThanWellFounded, WFMin
  <2>2. \A t, s \in Nat : t < s => <<t, s>> \in OpToRel(<, Nat)
    BY DEF OpToRel
  <2> HIDE DEF D
  <2>3. PICK s \in D : \A t \in D : <<t, s>> \notin OpToRel(<, Nat)
    BY <2>1
  <2>4. \A t \in D : t \in Nat /\ s \in Nat /\ ~(t < s)
    BY <1>2, <2>2, <2>3
  <2>5. \A t \in D : s <= t
    BY <2>4
  <2> QED BY <2>3, <2>5
<1>5. D \subseteq NewerOrSame(pushed, s) /\ Cardinality(NewerOrSame(pushed, s)) <= HistoryCap
  BY <1>2, <1>4 DEF NewerOrSame, PushBounded, Restrict
<1>6. NewerOrSame(pushed, s) \subseteq 0..n
  BY <1>2 DEF NewerOrSame
<1> HIDE DEF D, pushed
<1>7. IsFiniteSet(NewerOrSame(pushed, s)) /\ Cardinality(NewerOrSame(pushed, s)) \in Nat
  <2>1. IsFiniteSet(0..n)
    BY FS_Interval
  <2> QED BY <1>6, <2>1, FS_Subset, FS_CardinalityType
<1>8. Cardinality(D) <= Cardinality(NewerOrSame(pushed, s)) /\ Cardinality(D) \in Nat
  BY <1>5, <1>7, FS_Subset, FS_CardinalityType
<1> QED BY <1>5, <1>7, <1>8, HistoryAssumption DEF D

\* What TypeOK says beyond the other invariants.
RestInv ==
    /\ lastSentAckSeq \in Nat /\ dirty \in BOOLEAN /\ closed \in BOOLEAN
    /\ cSeqNum \in 1..MaxClientSeq
    /\ Cardinality(DOMAIN sHistory) <= HistoryCap
    /\ Cardinality(DOMAIN cHistory) <= HistoryCap

LEMMA RestInit == Init => RestInv
<1> SUFFICES ASSUME Init PROVE RestInv
  OBVIOUS
<1>1. /\ lastSentAckSeq = 0 /\ dirty = FALSE /\ closed = FALSE /\ cSeqNum = 1
      /\ sHistory = EmptyHistory /\ cHistory = EmptyHistory
  BY DEF Init, ServerInit, ClientInit
<1>2. DOMAIN EmptyHistory = {} /\ Cardinality({}) = 0
  BY FS_EmptySet DEF EmptyHistory
<1>3. dirty \in BOOLEAN /\ closed \in BOOLEAN
  BY <1>1, Zenon
<1>4. 1 \in 1..MaxClientSeq /\ 0 <= HistoryCap
  BY ClientAssumption, HistoryAssumption
<1> QED BY <1>1, <1>2, <1>3, <1>4 DEF RestInv

LEMMA RestCheckSync ==
    ASSUME SyncInv, RestInv, UNCHANGED clientVars,
           NEW seq \in Nat, seq >= sSeqNum, NEW ack \in Nat, NEW clientAck, NEW hist,
           DOMAIN hist \subseteq DOMAIN sHistory, Cardinality(DOMAIN hist) <= HistoryCap,
           NEW isDirty \in BOOLEAN, NEW grid,
           CheckSync(seq, ack, clientAck, hist, isDirty, grid)
    PROVE  RestInv'
<1>1. lastSentAckSeq' \in Nat
  BY DEF CheckSync, QueueFrame, RestInv
<1>2. dirty' \in BOOLEAN
  BY Zenon DEF CheckSync, QueueFrame
<1>3. Cardinality(DOMAIN sHistory') <= HistoryCap
  <2> DEFINE kept == PruneAcked(hist, clientAck)
  <2>1. DOMAIN kept \subseteq 0..(seq + 1) /\ seq + 1 \in Nat
    BY PruneAckedValues DEF SyncInv
  <2>2. sHistory' = hist \/ sHistory' = PushBounded(kept, seq + 1, grid)
    BY DEF CheckSync, QueueFrame
  <2> HIDE DEF kept
  <2> QED BY <2>1, <2>2, PushIsBounded
<1> QED BY <1>1, <1>2, <1>3 DEF RestInv, clientVars

LEMMA RestStep == SyncInv /\ StreamInv /\ RestInv /\ [Next]_vars => RestInv'
<1> SUFFICES ASSUME SyncInv, StreamInv, RestInv, [Next]_vars PROVE RestInv'
  OBVIOUS
<1>0. /\ sSeqNum \in Nat /\ sAckSeqNum \in Nat /\ dirty \in BOOLEAN
      /\ Cardinality(DOMAIN sHistory) <= HistoryCap
  BY DEF StreamInv, PacketsInv, WindowInv, RestInv
<1>1. CASE ServerStep /\ UNCHANGED clientVars
  <2>1. ASSUME UNCHANGED <<lastSentAckSeq, sHistory>>, dirty' \in BOOLEAN PROVE RestInv'
    BY <1>1, <2>1 DEF RestInv, clientVars
  <2>2. ASSUME NEW m \in toServer,
               FeedHandshakeIgnored(m) \/ FeedDuplicate(m) \/ FeedOutOfOrder(m)
        PROVE  RestInv'
    BY <1>0, <2>1, <2>2
       DEF FeedHandshakeIgnored, FeedDuplicate, FeedOutOfOrder, serverVars, syncVars
  <2>3. ASSUME NEW m \in toServer, FeedHandshake(m) PROVE RestInv'
    <3>1. PICK d \in BOOLEAN : CheckSync(sSeqNum + 1, m.seq, 0, EmptyHistory, d, term)
      BY <2>3, Zenon DEF FeedHandshake
    <3>2. m.seq \in Nat /\ sSeqNum + 1 \in Nat /\ sSeqNum + 1 >= sSeqNum
      BY <1>0, <2>3 DEF FeedHandshake, StreamInv, PacketsInv, ReliableOK
    <3>3. DOMAIN EmptyHistory = {} /\ Cardinality({}) <= HistoryCap
      BY FS_EmptySet, HistoryAssumption DEF EmptyHistory
    <3> QED BY <1>1, <3>1, <3>2, <3>3, RestCheckSync
  <2>4. ASSUME NEW m \in toServer, FeedAck(m) PROVE RestInv'
    <3>1. PICK c : CheckSync(sSeqNum, sAckSeqNum, c, sHistory, dirty, term)
      BY <2>4, Zenon DEF FeedAck
    <3> QED BY <1>0, <1>1, <3>1, RestCheckSync
  <2>5. ASSUME NEW m \in toServer, NEW next \in 2..(MaxClientSeq + 1), FeedInOrder(m, next)
        PROVE  RestInv'
    <3>1. next \in Nat
      BY ClientAssumption
    <3>2. PICK alive \in Nat, d \in BOOLEAN :
            /\ CheckSync(sSeqNum + alive, next - 1, m.ack, sHistory, d, term')
            /\ next - 1 \in Nat
      BY <2>5, <3>1, SweepFacts, Zenon
    <3>3. sSeqNum + alive \in Nat /\ sSeqNum + alive >= sSeqNum
      BY <1>0, <3>2
    <3> QED BY <1>0, <1>1, <3>2, <3>3, RestCheckSync
  <2>6. CASE OnPtyBytes
    BY <2>1, <2>6 DEF OnPtyBytes
  <2>7. CASE ServerTick
    <3>1. PICK d \in BOOLEAN : CheckSync(sSeqNum, sAckSeqNum, clientAckSeq, sHistory, d, term)
      BY <1>0, <2>7, Zenon DEF ServerTick
    <3> QED BY <1>0, <1>1, <3>1, RestCheckSync
  <2>8. CASE JobSend \/ JobDone \/ PtyExit \/ SendShutdown \/ ServerExit
    BY <1>0, <2>1, <2>8
       DEF JobSend, JobDone, PtyExit, SendShutdown, ServerExit, serverVars, syncVars
  <2> QED BY <1>1, <2>2, <2>3, <2>4, <2>5, <2>6, <2>7, <2>8 DEF ServerStep
<1>2. CASE ClientStep /\ UNCHANGED serverVars
  <2>0. UNCHANGED <<lastSentAckSeq, sHistory, dirty>>
    BY <1>2 DEF serverVars, syncVars
  <2>1. ASSUME UNCHANGED cHistory, cSeqNum' = cSeqNum, closed' \in BOOLEAN PROVE RestInv'
    BY <2>0, <2>1 DEF RestInv
  <2>2. ASSUME NEW payload, Track(payload), UNCHANGED <<cHistory, closed>> PROVE RestInv'
    BY <2>0, <2>2, ClientAssumption DEF RestInv, Track
  <2>3. CASE FeedStdin \/ OnWinch \/ OnResume
    BY <2>2, <2>3 DEF FeedStdin, OnWinch, OnResume, SendReliable
  <2>4. CASE Disconnect
    BY <2>1, <2>4 DEF Disconnect
  <2>5. ASSUME NEW alive \in BOOLEAN, NEW overdue \in SUBSET unacked,
               NEW nacks \in SUBSET Nacks, OnTick(alive, overdue, nacks)
        PROVE  RestInv'
    <3>1. CASE Track(KeepAlive)
      BY <2>2, <2>5, <3>1 DEF OnTick
    <3>2. CASE UNCHANGED cSeqNum
      BY <2>1, <2>5, <3>2 DEF OnTick, RestInv
    <3> QED BY <2>5, <3>1, <3>2 DEF OnTick, SendReliable
  <2>6. ASSUME NEW m \in toClient, FeedStale(m) PROVE RestInv'
    BY <2>1, <2>6 DEF FeedStale, RestInv
  <2>7. ASSUME NEW m \in toClient, NEW ackDue \in BOOLEAN, FeedFrame(m, ackDue) PROVE RestInv'
    <3>1. m.seq \in Nat /\ DOMAIN cHistory \subseteq 0..m.seq
      BY <2>7 DEF FeedFrame, SyncInv
    <3>2. cHistory' = cHistory \/ cHistory' = PushBounded(cHistory, m.seq, Rebuilt(m.update))
      BY <2>7 DEF FeedFrame
    <3>3. Cardinality(DOMAIN cHistory') <= HistoryCap
      BY <3>1, <3>2, PushIsBounded DEF RestInv
    <3>4. closed' \in BOOLEAN
      BY <2>7, Zenon DEF FeedFrame
    <3> QED BY <2>0, <2>7, <3>3, <3>4 DEF FeedFrame, RestInv
  <2>8. ASSUME NEW m \in toClient, FeedControl(m) PROVE RestInv'
    <3>1. closed' \in BOOLEAN
      BY <2>8, Zenon DEF FeedControl
    <3> QED BY <2>1, <2>8, <3>1 DEF FeedControl
  <2> QED BY <1>2, <2>3, <2>4, <2>5, <2>6, <2>7, <2>8 DEF ClientStep
<1>3. CASE UNCHANGED <<serverVars, clientVars>>
  BY <1>3 DEF RestInv, serverVars, syncVars, clientVars
<1> QED BY <1>1, <1>2, <1>3 DEF Next, vars

(***************************************************************************)
(* The types hold, and neither end ever keeps more than HistoryCap screens. *)
(***************************************************************************)
THEOREM TypesAndBounds == Spec => []TypeOK
<1>1. SyncInv /\ StreamInv /\ RestInv => TypeOK
  <2> SUFFICES ASSUME SyncInv, StreamInv, RestInv PROVE TypeOK
    OBVIOUS
  <2>1. clientAckSeq \in Nat
    BY DEF SyncInv, AckOK
  <2>2. sSeqNum \in Nat /\ sAckSeqNum \in Nat /\ expectedClientSeq \in Nat /\ wasReset \in BOOLEAN
        /\ DOMAIN outOfOrder \subseteq (expectedClientSeq + 1)..cSeqNum
    BY DEF StreamInv, PacketsInv, WindowInv
  <2>3. /\ DOMAIN sHistory \subseteq 1..sSeqNum /\ DOMAIN cHistory \subseteq 1..cAckSeqNum
        /\ term \in Screens /\ cAckSeqNum \in 0..sSeqNum
    BY DEF SyncInv
  <2> QED BY <2>1, <2>2, <2>3 DEF RestInv, TypeOK
<1> QED BY <1>1, StreamInit, StreamStep, SyncInit, SyncStep, RestInit, RestStep, PTL DEF Spec

=============================================================================

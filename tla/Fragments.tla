----------------------------- MODULE Fragments ------------------------------
(***************************************************************************)
(* Transport of server packets larger than one datagram: splitting into     *)
(* fragments and reassembly (src/protocol/codec.rs), FragmentNack packets   *)
(* of the client (src/client/session.rs), and the cache from which the      *)
(* server sends fragments again (src/server/network.rs).                    *)
(*                                                                         *)
(* A fragment is its packet's number and its index: the bytes follow from   *)
(* these two.  The bit mask of a FragmentNack is the set of indices in it.  *)
(* The two clocks that space FragmentNacks are abstracted: at any check any *)
(* of the incomplete packets may be due.                                    *)
(***************************************************************************)
EXTENDS Network, FiniteSets, Functions

CONSTANTS
    MaxPackets,     \* bound of the model on the number of server packets
    PartCounts,     \* numbers of fragments a packet may have
    MaxNacks,       \* bound of the model on FragmentNacks in the network
    CacheCap,       \* 4: fragmented packets kept by the server
    BufferCap,      \* 32: incomplete packets kept by the client
    Followed        \* packets that fairness and NackRecovers speak of

ASSUME FragmentsAssumption ==
    /\ Followed \subseteq 1..MaxPackets
    /\ MaxPackets \in Nat /\ MaxNacks \in Nat /\ PartCounts \subseteq Nat \ {0}
    /\ CacheCap \in Nat \ {0} /\ BufferCap \in Nat \ {0}

VARIABLES
    parts,      \* fragment count of every packet sent so far, by number
    cache,      \* numbers of the packets in the server's fragment cache
    frames,     \* fragment indices received of each incomplete packet
    ackSeqNum   \* highest packet number the client's session has taken

fragVars == <<parts, cache, frames, ackSeqNum>>

Fragment(seq, idx) == [seq |-> seq, idx |-> idx]
FragmentNack(seq, mask, ack) == [seq |-> seq, mask |-> mask, ack |-> ack]

Indices(seq) == 0..(parts[seq] - 1)
Oldest(seqs) == CHOOSE s \in seqs : \A t \in seqs : s <= t

FragmentsInit ==
    /\ parts = [s \in {} |-> 0]
    /\ cache = {}
    /\ frames = [s \in {} |-> {}]
    /\ ackSeqNum = 0
    /\ toServer = {} /\ toClient = {}

-----------------------------------------------------------------------------
(***************************************************************************)
(* The server seals the next packet.  One of several fragments is put into  *)
(* the cache, whose oldest entry gives way, before its fragments are sent.  *)
(***************************************************************************)
SealAndSend(count) ==
    LET seq == Cardinality(DOMAIN parts) + 1
        kept == IF Cardinality(cache) >= CacheCap THEN cache \ {Oldest(cache)} ELSE cache
    IN  /\ seq <= MaxPackets
        /\ parts' = [s \in 1..seq |-> IF s = seq THEN count ELSE parts[s]]
        /\ cache' = IF count > 1 THEN kept \cup {seq} ELSE cache
        /\ toClient' = toClient \cup {Fragment(seq, i) : i \in 0..(count - 1)}
        /\ UNCHANGED <<toServer, frames, ackSeqNum>>

\* The mask is read the wrong way round.
Missing_Inverted(nack) == nack.mask

\* The fragments a FragmentNack asks for.
Missing(nack) == Indices(nack.seq) \ nack.mask

\* ResendFragments: nothing is sent if the cache no longer has the packet.
ResendFragments(nack) ==
    /\ nack \in toServer
    /\ toServer' \in Remaining(toServer, nack)
    /\ toClient' = IF nack.seq \in cache
                   THEN toClient \cup {Fragment(nack.seq, i) : i \in Missing(nack)}
                   ELSE toClient
    /\ UNCHANGED fragVars

-----------------------------------------------------------------------------
(***************************************************************************)
(* FragmentBuffer.insert and what feed_packet does with its result: a       *)
(* packet not newer than the last one is dropped by the session.            *)
(***************************************************************************)
HandOver(seq) == ackSeqNum' = IF seq > ackSeqNum THEN seq ELSE ackSeqNum

\* A packet of one fragment does not touch the buffer.
InsertWhole(f) ==
    /\ f \in toClient /\ parts[f.seq] = 1
    /\ HandOver(f.seq)
    /\ toClient' \in Remaining(toClient, f)
    /\ UNCHANGED <<toServer, parts, cache, frames>>

Received(f) == {f.idx} \cup (IF f.seq \in DOMAIN frames THEN frames[f.seq] ELSE {})

IsComplete(f) == Cardinality(Received(f)) = parts[f.seq]

\* Every incomplete packet goes, newer ones too.
NotSuperseded_None(seq) == {}

NotSuperseded(seq) == {s \in DOMAIN frames : s > seq}

\* The last missing fragment: the packet is reassembled, and the incomplete
\* packets older than it are dropped.
InsertLast(f) ==
    /\ f \in toClient /\ parts[f.seq] > 1 /\ IsComplete(f)
    /\ frames' = Restrict(frames, NotSuperseded(f.seq))
    /\ HandOver(f.seq)
    /\ toClient' \in Remaining(toClient, f)
    /\ UNCHANGED <<toServer, parts, cache>>

\* The buffer keeps every incomplete packet.
KeptAfter_All(seqs) == seqs

\* The oldest incomplete packet goes when there are more than BufferCap.
KeptAfter(seqs) == IF Cardinality(seqs) > BufferCap THEN seqs \ {Oldest(seqs)} ELSE seqs

InsertPartial(f) ==
    LET buffered == [s \in DOMAIN frames \cup {f.seq} |->
                        IF s = f.seq THEN Received(f) ELSE frames[s]]
    IN  /\ f \in toClient /\ parts[f.seq] > 1 /\ ~IsComplete(f)
        /\ frames' = Restrict(buffered, KeptAfter(DOMAIN buffered))
        /\ toClient' \in Remaining(toClient, f)
        /\ UNCHANGED <<toServer, parts, cache, ackSeqNum>>

\* The NACK check of on_tick, for the incomplete packets that are due.  The
\* network loses older FragmentNacks rather than hold more than MaxNacks.
NackCheck(due) ==
    LET asked == {FragmentNack(s, frames[s], ackSeqNum) : s \in due}
    IN  /\ toServer' = IF Cardinality(toServer \cup asked) <= MaxNacks
                       THEN toServer \cup asked ELSE asked
        /\ UNCHANGED <<toClient, fragVars>>

-----------------------------------------------------------------------------
vars == <<netVars, fragVars>>

FragmentsNext ==
    \/ \E count \in PartCounts : SealAndSend(count)
    \/ \E nack \in toServer : ResendFragments(nack)
    \/ \E f \in toClient : InsertWhole(f) \/ InsertLast(f) \/ InsertPartial(f)
    \/ \E due \in SUBSET DOMAIN frames : NackCheck(due)
    \/ (LoseToServer \/ LoseToClient) /\ UNCHANGED fragVars

FragmentsSpec == FragmentsInit /\ [][FragmentsNext]_vars

(***************************************************************************)
(* Fairness.  The check runs every 40 ms and every packet is due again      *)
(* after 100 ms; a FragmentNack or a fragment that is sent again and again  *)
(* arrives at last.                                                         *)
(***************************************************************************)
TakesNack(s) == \E nack \in toServer : nack.seq = s /\ ResendFragments(nack)
TakesFragment(s, i) ==
    \E f \in toClient : f = Fragment(s, i) /\ (InsertLast(f) \/ InsertPartial(f))

FairFragmentsSpec ==
    /\ FragmentsSpec
    /\ WF_vars(NackCheck(DOMAIN frames))
    /\ \A s \in Followed : SF_vars(TakesNack(s))
    /\ \A s \in Followed, count \in PartCounts :
          \A i \in 0..(count - 1) : SF_vars(TakesFragment(s, i))

-----------------------------------------------------------------------------
(***************************************************************************)
(* Types, with the bounds of the cache and of the reassembly buffer; an     *)
(* entry of the buffer is never empty and never complete.                   *)
(***************************************************************************)
FragmentsTypeOK ==
    /\ DOMAIN parts = 1..Cardinality(DOMAIN parts)
    /\ cache \subseteq DOMAIN parts /\ Cardinality(cache) <= CacheCap
    /\ DOMAIN frames \subseteq DOMAIN parts /\ Cardinality(DOMAIN frames) <= BufferCap
    /\ \A s \in DOMAIN frames : frames[s] # {} /\ frames[s] \subseteq Indices(s)
                                /\ frames[s] # Indices(s)
    /\ ackSeqNum \in 0..Cardinality(DOMAIN parts)

\* An entry s goes because its packet or a newer one was taken, or as the
\* oldest of a full buffer, for the entry of another packet.
EntryMayGo(s) ==
    \/ s <= ackSeqNum'
    \/ /\ Cardinality(DOMAIN frames) = BufferCap
       /\ DOMAIN frames' \ DOMAIN frames # {}
       /\ \A t \in DOMAIN frames' : s < t

(***************************************************************************)
(* Fragments of a packet the client could still use are thrown away only to *)
(* make room in a full buffer for another packet, and then those of the     *)
(* oldest: an old packet that completes late never costs a newer one        *)
(* (insert, pruning).                                                       *)
(***************************************************************************)
UsefulPartialsKept == [][\A s \in DOMAIN frames \ DOMAIN frames' : EntryMayGo(s)]_vars

(***************************************************************************)
(* A packet of which one fragment is buffered is completed or overtaken at  *)
(* last, through losses of fragments, of FragmentNacks and of the fragments *)
(* sent again, as long as the server still has it in its cache.             *)
(***************************************************************************)
NackRecovers ==
    \A s \in Followed :
        (s \in DOMAIN frames) ~> (s <= ackSeqNum \/ s \notin cache \/ s \notin DOMAIN frames)

=============================================================================

------------------------- MODULE ShardTrackerProofs -------------------------
(***************************************************************************)
(* Proofs about ShardTracker, for shard identifiers of any width and for   *)
(* any chain: whatever isInShard decides, block_data is one unbroken line  *)
(* of suitable parents, and notifications never repeat.  And what          *)
(* isInShard decides is right: there is always a suitable block.           *)
(***************************************************************************)
EXTENDS ShardTracker, Aggregates, TLAPS

\* p is a parent that filterByShard may choose for b.
Link(p, b) == p \in Suitable(parents[b])

\* Every block of the sequence is linked to the one before it.
Lineage(s) == \A i \in 1..(Len(s) - 1) : Link(s[i], s[i + 1])

Blocks == DOMAIN parents

ChainInv ==
  /\ Blocks \subseteq Block /\ tips \subseteq Blocks
  /\ \A b \in Blocks :
       /\ parents[b] \subseteq Blocks
       /\ \A p \in parents[b] : p.seqno < b.seqno
  /\ masters \in Seq(SUBSET Blocks)
  /\ Len(masters) =< MaxMaster

StateInv ==
  /\ lastKnown \in Blocks \cup {NoBlock} /\ lastMaster \in 0..MaxMaster
  /\ buffer \in Seq(Blocks) /\ batch \in Seq(Blocks) /\ saved \in Seq(Blocks)
  /\ walking \in BOOLEAN /\ cur \in Blocks \cup {NoBlock}
  /\ block \in Blocks \cup {NoBlock} /\ pushing \in 0..(Notificators + 1)
  /\ pushed \in [1..Notificators -> Seq(Blocks)]
  /\ restarts \in 0..MaxRestarts /\ fatal \in BOOLEAN

\* The walk's blocks are linked backwards, down to the block it looks at.
WalkInv ==
  /\ walking => buffer = <<>> /\ block = NoBlock /\ cur \in Blocks
  /\ \A i \in 1..(Len(batch) - 1) : Link(batch[i + 1], batch[i])
  /\ batch # <<>> => walking /\ Link(cur, batch[Len(batch)])

Pending == block # NoBlock /\ pushing = 0

\* The newest block the scanner took over, NoBlock if there is none.
Newest ==
  IF Pending THEN block ELSE IF saved # <<>> THEN saved[Len(saved)] ELSE NoBlock

\* Saved blocks, the block at hand and the buffer are one line that ends in
\* the last known block.
FeedInv ==
  /\ Lineage(saved) /\ Lineage(buffer)
  /\ Pending /\ saved # <<>> => Link(saved[Len(saved)], block)
  /\ buffer # <<>> /\ Newest # NoBlock => Link(Newest, buffer[1])
  /\ buffer # <<>> => lastKnown = buffer[Len(buffer)]
  /\ buffer = <<>> /\ Newest # NoBlock => lastKnown = Newest

\* block_data is ordered by seqno, so the restart finds its last row.
SortedInv ==
  \A i, j \in 1..Len(saved) : i < j => saved[i].seqno < saved[j].seqno

PushInv ==
  /\ pushing > 0 => saved # <<>> /\ block = saved[Len(saved)]
  /\ \A n \in 1..Notificators :
       /\ \A i \in 1..Len(pushed[n]) :
            /\ pushed[n][i] \in Range(saved)
            /\ pushing > 0 /\ n >= pushing => pushed[n][i].seqno < block.seqno
       /\ \A i, j \in 1..Len(pushed[n]) : i < j => pushed[n][i].seqno < pushed[n][j].seqno

IInv == ChainInv /\ StateInv /\ WalkInv /\ FeedInv /\ SortedInv /\ PushInv

-----------------------------------------------------------------------------
\* What a block scanned after the saved ones has: a greater seqno than all.
LEMMA LastIsNewest ==
  ASSUME StateInv, SortedInv, ChainInv, saved # <<>>
  PROVE  /\ saved[Len(saved)] \in Blocks
         /\ \A i \in 1..Len(saved) :
              saved[i].seqno =< saved[Len(saved)].seqno
<1>1. Len(saved) \in Nat \ {0} /\ Len(saved) \in 1..Len(saved)
  BY DEF StateInv
<1>2. \A i \in 1..Len(saved) : saved[i] \in Blocks /\ saved[i].seqno \in Nat
  BY DEF StateInv, ChainInv, Block
<1> QED BY <1>1, <1>2 DEF SortedInv

\* The row that GetLastSavedBlockID reads (the greatest seqno) is the row that
\* was inserted last.
LEMMA LastSavedIsLast ==
  ASSUME StateInv, SortedInv, ChainInv
  PROVE  GetLastSavedBlockID = IF saved = <<>> THEN NoBlock ELSE saved[Len(saved)]
<1>1. CASE saved = <<>>
  BY <1>1 DEF GetLastSavedBlockID
<1>2. CASE saved # <<>>
  <2> DEFINE l == saved[Len(saved)]
             P(b) == b \in Range(saved) /\ \A c \in Range(saved) : c.seqno =< b.seqno
  <2>1. Len(saved) \in Nat \ {0} /\ Len(saved) \in 1..Len(saved) /\ DOMAIN saved = 1..Len(saved)
    BY <1>2 DEF StateInv
  <2>2. \A i \in 1..Len(saved) : saved[i].seqno \in Nat
    BY DEF StateInv, ChainInv, Block
  <2>3. Range(saved) = {saved[i] : i \in 1..Len(saved)}
    BY <2>1 DEF Range
  <2>4. P(l)
    BY <1>2, <2>1, <2>3, LastIsNewest
  <2>5. ASSUME NEW b, P(b) PROVE b = l
    <3>1. PICK i \in 1..Len(saved) : b = saved[i]
      BY <2>3, <2>5
    <3>2. l.seqno =< b.seqno
      BY <2>5, <2>4
    <3>3. ~(i < Len(saved))
      BY <3>1, <3>2, <2>1, <2>2 DEF SortedInv
    <3> QED BY <3>1, <3>3, <2>1
  <2>6. l = CHOOSE b \in Range(saved) : \A c \in Range(saved) : c.seqno =< b.seqno
    BY <2>4, <2>5
  <2> QED BY <2>6, <1>2 DEF GetLastSavedBlockID
<1> QED BY <1>1, <1>2

-----------------------------------------------------------------------------
LEMMA IInvInit == Init => IInv
<1> SUFFICES ASSUME Init PROVE IInv
  OBVIOUS
<1> USE DEF Init
<1>0. Blocks = {Genesis} /\ parents[Genesis] = {}
  BY DEF Blocks
<1>1. ChainInv
  <2>1. masters \in Seq(SUBSET Blocks) /\ Len(masters) = 1
    BY <1>0
  <2> QED BY <1>0, <2>1, ShardAssumption DEF ChainInv
<1>2. StateInv
  <2>1. <<>> \in Seq(Blocks)
    OBVIOUS
  <2>2. 0 \in 0..MaxMaster /\ 0 \in 0..(Notificators + 1) /\ 0 \in 0..MaxRestarts
    BY ShardAssumption
  <2>3. pushed \in [1..Notificators -> Seq(Blocks)]
    BY <2>1
  <2> QED BY <2>1, <2>2, <2>3, Zenon DEF StateInv
<1>3. WalkInv
  BY DEF WalkInv
<1>4. FeedInv
  BY DEF FeedInv, Lineage, Newest, Pending
<1>5. SortedInv /\ PushInv
  BY DEF SortedInv, PushInv
<1> QED BY <1>1, <1>2, <1>3, <1>4, <1>5 DEF IInv

-----------------------------------------------------------------------------
\* New blocks leave the links of the old ones alone.
LEMMA IInvAddBlocks ==
  ASSUME IInv, NEW new, NEW old \in SUBSET tips, AddBlocks(new, old),
         \A b \in new, p \in old : p.seqno < b.seqno
  PROVE  IInv'
<1> USE DEF IInv
<1>1. /\ Blocks' = Blocks \cup new
      /\ \A b \in Blocks : parents'[b] = parents[b]
      /\ \A b \in new : parents'[b] = old
      /\ new \subseteq Block
  BY DEF AddBlocks, Blocks
<1>2. /\ tips' = (tips \ old) \cup new
      /\ UNCHANGED <<masters, lastKnown, lastMaster, buffer, walking, cur, batch,
                     block, pushing, pushed, saved, restarts, fatal>>
  BY DEF AddBlocks, tracker, scanner
<1>3. ChainInv'
  <2>1. Blocks' \subseteq Block /\ tips' \subseteq Blocks'
    BY <1>1, <1>2 DEF ChainInv
  <2>2. ASSUME NEW b \in Blocks' PROVE parents'[b] \subseteq Blocks' /\ \A p \in parents'[b] : p.seqno < b.seqno
    BY <1>1, <2>2 DEF ChainInv
  <2>3. masters' \in Seq(SUBSET Blocks') /\ Len(masters') =< MaxMaster
    <3>1. \A i \in 1..Len(masters) : masters[i] \in SUBSET Blocks'
      BY <1>1 DEF ChainInv
    <3> QED BY <3>1, <1>2 DEF ChainInv
  <2> QED BY <2>1, <2>2, <2>3 DEF ChainInv
<1>4. \A q, b : b \in Blocks => (Link(q, b)' <=> Link(q, b))
  BY <1>1 DEF Link, Suitable
<1>5. StateInv'
  <2>1. \A s \in Seq(Blocks) : s \in Seq(Blocks')
    BY <1>1
  <2>2. \A n \in 1..Notificators : pushed[n] \in Seq(Blocks')
    BY <2>1 DEF StateInv
  <2>3. pushed \in [1..Notificators -> Seq(Blocks')]
    BY <2>2 DEF StateInv
  <2> QED BY <2>1, <2>3, <1>1, <1>2 DEF StateInv
<1>6. WalkInv'
  <2>1. \A i \in 1..Len(batch) : batch[i] \in Blocks
    BY DEF StateInv
  <2>2. ASSUME NEW i \in 1..(Len(batch) - 1) PROVE Link(batch[i + 1], batch[i])'
    <3>1. i \in 1..Len(batch)
      BY DEF StateInv
    <3> QED BY <3>1, <2>1, <1>2, <1>4 DEF WalkInv
  <2>3. batch # <<>> => walking /\ Link(cur, batch[Len(batch)])'
    <3>1. batch # <<>> => Len(batch) \in 1..Len(batch)
      BY DEF StateInv
    <3> QED BY <3>1, <2>1, <1>2, <1>4 DEF WalkInv
  <2> QED BY <2>2, <2>3, <1>1, <1>2 DEF WalkInv
<1>7. FeedInv'
  <2>1. ASSUME NEW s \in Seq(Blocks), Lineage(s), s' = s PROVE Lineage(s)'
    BY <2>1, <1>4 DEF Lineage
  <2>2. Lineage(saved)' /\ Lineage(buffer)'
    BY <2>1, <1>2 DEF StateInv, FeedInv
  <2>3. Newest' = Newest /\ Pending' = Pending
    BY <1>2 DEF Newest, Pending
  <2>4. Pending /\ saved # <<>> => Link(saved[Len(saved)], block)'
    BY <1>2, <1>4 DEF FeedInv, StateInv, Pending
  <2>5. buffer # <<>> /\ Newest # NoBlock => Link(Newest, buffer[1])'
    <3>1. buffer # <<>> => buffer[1] \in Blocks
      BY DEF StateInv
    <3> QED BY <3>1, <2>3, <1>2, <1>4 DEF FeedInv
  <2> QED BY <2>2, <2>3, <2>4, <2>5, <1>2 DEF FeedInv
<1>8. SortedInv' /\ PushInv'
  BY <1>2 DEF SortedInv, PushInv
<1> QED BY <1>3, <1>5, <1>6, <1>7, <1>8

\* The chain grows: every new block has a greater seqno than its parents.
LEMMA IInvChain == IInv /\ Chain => IInv'
<1> SUFFICES ASSUME IInv, Chain PROVE IInv'
  OBVIOUS
<1>0. \A t \in tips : t.seqno \in Nat
  BY DEF IInv, ChainInv, Block
<1>1. ASSUME NEW t \in tips, Extend(t) PROVE IInv'
  <2> DEFINE new == {[shard |-> t.shard, seqno |-> t.seqno + 1]}
  <2>1. \A b \in new, p \in {t} : p.seqno < b.seqno
    BY <1>0
  <2>2. AddBlocks(new, {t})
    BY <1>1 DEF Extend
  <2> QED BY <2>1, <2>2, IInvAddBlocks
<1>2. ASSUME NEW t \in tips, Split(t) PROVE IInv'
  <2> DEFINE new == {[shard |-> s, seqno |-> t.seqno + 1] : s \in Halves(t.shard)}
  <2>1. \A b \in new, p \in {t} : p.seqno < b.seqno
    BY <1>0
  <2>2. AddBlocks(new, {t})
    BY <1>2 DEF Split
  <2> QED BY <2>1, <2>2, IInvAddBlocks
<1>3. ASSUME NEW s, NEW t \in tips, NEW u \in tips, Merge(s, t, u) PROVE IInv'
  <2> DEFINE new == {[shard |-> s, seqno |-> u.seqno + 1]}
  <2>1. \A b \in new, p \in {t, u} : p.seqno < b.seqno
    BY <1>0, <1>3 DEF Merge
  <2>2. AddBlocks(new, {t, u})
    BY <1>3 DEF Merge
  <2> QED BY <2>1, <2>2, IInvAddBlocks
<1>4. ASSUME NewMasterBlock PROVE IInv'
  <2> USE <1>4 DEF NewMasterBlock, IInv
  <2>1. Blocks' = Blocks /\ UNCHANGED <<tips, parents, tracker, scanner, restarts, fatal>>
    BY DEF Blocks
  <2>2. masters' \in Seq(SUBSET Blocks) /\ Len(masters') =< MaxMaster
    BY ShardAssumption DEF ChainInv
  <2>3. ChainInv'
    BY <2>1, <2>2 DEF ChainInv
  <2>4. StateInv' /\ WalkInv' /\ FeedInv' /\ SortedInv' /\ PushInv'
    BY <2>1 DEF tracker, scanner, StateInv, WalkInv, FeedInv, SortedInv, PushInv, Lineage, Link,
                Suitable, Newest, Pending
  <2> QED BY <2>3, <2>4
<1> QED BY <1>1, <1>2, <1>3, <1>4 DEF Chain

\* After a restart the last known block is the newest saved one.
LEMMA IInvReset ==
  ASSUME IInv, NewShardTracker, NewBlockScanner,
         UNCHANGED <<blockchain, pushed, saved>>,
         restarts' \in 0..MaxRestarts, fatal' \in BOOLEAN
  PROVE  IInv'
<1> USE DEF IInv, NewShardTracker, NewBlockScanner, blockchain
<1>1. Blocks' = Blocks
  BY DEF Blocks
<1>2. lastKnown' = IF saved = <<>> THEN NoBlock ELSE saved[Len(saved)]
  BY LastSavedIsLast
<1>3. ChainInv'
  BY <1>1 DEF ChainInv
<1>4. lastKnown' \in Blocks \cup {NoBlock}
  BY <1>2, LastIsNewest
<1>5. StateInv'
  <2>1. 0 \in 0..MaxMaster /\ 0 \in 0..(Notificators + 1) /\ <<>> \in Seq(Blocks)
    BY ShardAssumption
  <2> QED BY <2>1, <1>1, <1>4 DEF StateInv
<1>6. WalkInv'
  BY DEF WalkInv
<1>7. FeedInv'
  <2>1. Lineage(saved)' /\ Lineage(buffer)'
    BY DEF FeedInv, Lineage, Link, Suitable
  <2>2. ~Pending' /\ Newest' = lastKnown'
    BY <1>2 DEF Pending, Newest
  <2> QED BY <2>1, <2>2 DEF FeedInv
<1>8. SortedInv' /\ PushInv'
  BY DEF SortedInv, PushInv
<1> QED BY <1>3, <1>5, <1>6, <1>7, <1>8

LEMMA IInvRestart == IInv /\ (Restart \/ Fatal) => IInv'
<1> SUFFICES ASSUME IInv, Restart \/ Fatal PROVE IInv'
  OBVIOUS
<1>1. CASE Restart
  <2>1. restarts' \in 0..MaxRestarts
    BY <1>1, ShardAssumption DEF Restart, IInv, StateInv
  <2>2. fatal' \in BOOLEAN
    BY <1>1 DEF Restart, IInv, StateInv
  <2> QED BY <1>1, <2>1, <2>2, IInvReset DEF Restart
<1>2. CASE Fatal
  <2>1. restarts' \in 0..MaxRestarts
    BY <1>2 DEF Fatal, IInv, StateInv
  <2>2. fatal' \in BOOLEAN
    BY <1>2 DEF Fatal
  <2> QED BY <1>2, <2>1, <2>2, IInvReset DEF Fatal
<1> QED BY <1>1, <1>2

\* A walk begins at a suitable block of the masterchain block.
LEMMA IInvMaster ==
  ASSUME IInv, NEW k \in 1..Len(masters), GetNextMasterBlockID(k)
  PROVE  IInv'
<1>1. CASE Fatal
  BY <1>1, IInvRestart
<1>2. CASE ~Fatal
  <2> USE DEF IInv
  <2>1. /\ Idle /\ buffer = <<>> /\ cur' \in Suitable(masters[k])
        /\ lastMaster' = k /\ walking' = TRUE /\ batch' = <<>>
        /\ UNCHANGED <<lastKnown, buffer, blockchain, scanner, restarts, fatal>>
    BY <1>2 DEF GetNextMasterBlockID
  <2>2. cur' \in Blocks
    BY <2>1 DEF Suitable, ChainInv
  <2>3. Blocks' = Blocks /\ ChainInv'
    BY <2>1 DEF blockchain, ChainInv, Blocks
  <2>4. lastMaster' \in 0..MaxMaster
    BY <2>1, ShardAssumption DEF ChainInv
  <2>5. StateInv'
    <3>1. <<>> \in Seq(Blocks)
      OBVIOUS
    <3> QED BY <3>1, <2>1, <2>2, <2>3, <2>4, Zenon DEF StateInv, scanner
  <2>6. WalkInv'
    BY <2>1, <2>2, <2>3 DEF WalkInv, Idle, scanner
  <2>7. FeedInv' /\ SortedInv' /\ PushInv'
    BY <2>1, <2>3 DEF blockchain, scanner, FeedInv, SortedInv, PushInv, Lineage, Link, Suitable, Newest, Pending
  <2> QED BY <2>3, <2>5, <2>6, <2>7
<1> QED BY <1>1, <1>2

-----------------------------------------------------------------------------
\* The walk: one lemma per way it goes on or ends.

LEMMA IInvFirst == IInv /\ FirstBlock => IInv'
<1> SUFFICES ASSUME IInv, FirstBlock PROVE IInv'
  OBVIOUS
<1> USE DEF IInv, FirstBlock, EndWalk
<1>1. Blocks' = Blocks /\ ChainInv'
  BY DEF blockchain, ChainInv, Blocks
<1>2. StateInv'
  <2>1. <<>> \in Seq(Blocks) /\ lastKnown' \in Blocks
    BY DEF WalkInv
  <2> QED BY <2>1, <1>1, Zenon DEF StateInv, scanner
<1>3. WalkInv'
  BY DEF WalkInv
<1>4. Newest = NoBlock
  <2>1. buffer = <<>>
    BY DEF WalkInv
  <2> QED BY <2>1 DEF FeedInv
<1>5. FeedInv'
  BY <1>4 DEF blockchain, scanner, FeedInv, Lineage, Link, Suitable, Newest, Pending, WalkInv
<1>6. SortedInv' /\ PushInv'
  BY DEF scanner, SortedInv, PushInv
<1> QED BY <1>1, <1>2, <1>3, <1>5, <1>6

\* The batch, oldest first, continues the line at the last known block.
LEMMA IInvLoaded == IInv /\ BatchLoaded => IInv'
<1> SUFFICES ASSUME IInv, BatchLoaded PROVE IInv'
  OBVIOUS
<1> USE DEF IInv, BatchLoaded, EndWalk
<1>1. Blocks' = Blocks /\ ChainInv'
  BY DEF blockchain, ChainInv, Blocks
<1>2. batch \in Seq(Blocks) /\ Len(batch) \in Nat /\ buffer = <<>> /\ cur = lastKnown
  BY DEF StateInv, WalkInv, IsKnown
<1>3. /\ Reverse(batch) \in Seq(Blocks) /\ Len(Reverse(batch)) = Len(batch)
      /\ \A i \in 1..Len(batch) : Reverse(batch)[i] = batch[(Len(batch) - i) + 1]
  BY <1>2 DEF Reverse
<1>4. buffer' = Reverse(batch)
  BY <1>2, <1>3 DEF OldestFirst
<1>5. lastKnown' \in Blocks \cup {NoBlock}
  BY <1>2 DEF StateInv
<1>6. StateInv'
  <2>1. <<>> \in Seq(Blocks)
    OBVIOUS
  <2> QED BY <2>1, <1>1, <1>3, <1>4, <1>5, Zenon DEF StateInv, scanner
<1>7. WalkInv'
  BY DEF WalkInv
<1>8. Newest' = Newest /\ Pending' = Pending
  BY DEF scanner, Newest, Pending
<1>9. FeedInv'
  <2>1. Lineage(saved)' /\ (Pending' /\ saved' # <<>> => Link(saved[Len(saved)], block)')
    BY <1>8 DEF FeedInv, Lineage, Link, Suitable, blockchain, scanner
  <2>2. Lineage(buffer)'
    <3>1. ASSUME NEW i \in 1..(Len(batch) - 1)
          PROVE Link(Reverse(batch)[i], Reverse(batch)[i + 1])
      <4>1. (Len(batch) - i) \in 1..(Len(batch) - 1)
        BY <1>2
      <4>2. Reverse(batch)[i] = batch[(Len(batch) - i) + 1] /\ Reverse(batch)[i + 1] = batch[Len(batch) - i]
        BY <1>2, <1>3
      <4> QED BY <4>1, <4>2 DEF WalkInv
    <3> QED BY <3>1, <1>3, <1>4 DEF Lineage, Link, Suitable, blockchain
  <2>3. batch # <<>> => buffer'[1] = batch[Len(batch)] /\ buffer'[Len(buffer')] = batch[1] /\ buffer' # <<>>
    BY <1>2, <1>3, <1>4
  <2>4. batch = <<>> => buffer' = <<>>
    BY <1>2, <1>3, <1>4
  <2>5. buffer' # <<>> /\ Newest' # NoBlock => Link(Newest, buffer[1])'
    BY <1>2, <1>8, <2>3, <2>4 DEF FeedInv, WalkInv, Link, Suitable, blockchain
  <2>6. buffer' # <<>> => lastKnown' = buffer'[Len(buffer')]
    BY <2>3, <2>4
  <2>7. buffer' = <<>> /\ Newest' # NoBlock => lastKnown' = Newest'
    BY <2>3, <1>2, <1>8 DEF FeedInv
  <2> QED BY <2>1, <2>2, <2>5, <2>6, <2>7 DEF FeedInv
<1>10. SortedInv' /\ PushInv'
  BY DEF scanner, SortedInv, PushInv
<1> QED BY <1>1, <1>6, <1>7, <1>9, <1>10

LEMMA IInvDrop == IInv /\ DropBatch => IInv'
<1> SUFFICES ASSUME IInv, DropBatch PROVE IInv'
  OBVIOUS
<1> USE DEF IInv, DropBatch, EndWalk
<1>1. Blocks' = Blocks /\ ChainInv'
  BY DEF blockchain, ChainInv, Blocks
<1>2. StateInv'
  <2>1. <<>> \in Seq(Blocks)
    OBVIOUS
  <2> QED BY <2>1, <1>1, Zenon DEF StateInv, scanner
<1>3. WalkInv'
  BY DEF WalkInv
<1>4. FeedInv' /\ SortedInv' /\ PushInv'
  BY DEF blockchain, scanner, FeedInv, SortedInv, PushInv, Lineage, Link, Suitable, Newest, Pending
<1> QED BY <1>1, <1>2, <1>3, <1>4

LEMMA IInvHeader == IInv /\ GetShardBlocksHeader => IInv'
<1> SUFFICES ASSUME IInv, GetShardBlocksHeader PROVE IInv'
  OBVIOUS
<1>1. CASE Fatal
  BY <1>1, IInvRestart
<1>2. CASE ~Fatal
  <2> USE DEF IInv
  <2>1. /\ walking /\ cur' \in Suitable(parents[cur]) /\ batch' = Append(batch, cur)
        /\ UNCHANGED <<lastKnown, lastMaster, buffer, walking, blockchain, scanner, restarts, fatal>>
    BY <1>2 DEF GetShardBlocksHeader
  <2>2. Blocks' = Blocks /\ ChainInv'
    BY <2>1 DEF blockchain, ChainInv, Blocks
  <2>3. cur \in Blocks /\ cur' \in Blocks /\ Link(cur', cur)
    BY <2>1 DEF WalkInv, ChainInv, Suitable, Link
  <2>4. /\ batch' \in Seq(Blocks) /\ Len(batch') = Len(batch) + 1 /\ Len(batch) \in Nat
        /\ batch'[Len(batch')] = cur
        /\ \A i \in 1..Len(batch) : batch'[i] = batch[i]
    BY <2>1, <2>3 DEF StateInv
  <2>5. StateInv'
    BY <2>1, <2>2, <2>3, <2>4, Zenon DEF StateInv, scanner
  <2>6. WalkInv'
    <3>1. ASSUME NEW i \in 1..(Len(batch') - 1) PROVE Link(batch'[i + 1], batch'[i])
      <4>1. CASE i < Len(batch)
        BY <4>1, <2>4 DEF WalkInv
      <4>2. CASE i = Len(batch)
        BY <4>2, <2>4 DEF WalkInv
      <4> QED BY <4>1, <4>2, <2>4
    <3>2. Link(cur', batch'[Len(batch')])
      BY <2>3, <2>4
    <3> QED BY <3>1, <3>2, <2>1, <2>2, <2>3 DEF WalkInv, Link, Suitable, blockchain, scanner
  <2>7. FeedInv' /\ SortedInv' /\ PushInv'
    BY <2>1 DEF blockchain, scanner, FeedInv, SortedInv, PushInv, Lineage, Link, Suitable, Newest, Pending
  <2> QED BY <2>2, <2>5, <2>6, <2>7
<1> QED BY <1>1, <1>2

-----------------------------------------------------------------------------
\* The scanner's steps move the line along.

LEMMA IInvGetNext == IInv /\ GetNext => IInv'
<1> SUFFICES ASSUME IInv, GetNext PROVE IInv'
  OBVIOUS
<1> USE DEF IInv, GetNext
<1>1. Blocks' = Blocks /\ ChainInv'
  BY DEF blockchain, ChainInv, Blocks
<1>2. /\ buffer \in Seq(Blocks) /\ buffer # <<>> /\ block' = buffer[1] /\ block' \in Blocks
      /\ buffer' \in Seq(Blocks) /\ Len(buffer) \in Nat \ {0} /\ Len(buffer') = Len(buffer) - 1
      /\ \A i \in 1..Len(buffer') : buffer'[i] = buffer[i + 1]
  BY DEF StateInv
<1>3. block' # NoBlock
  BY <1>2, ShardAssumption DEF ChainInv
<1>4. StateInv'
  BY <1>1, <1>2, Zenon DEF StateInv
<1>5. ~walking /\ batch = <<>>
  BY DEF Idle, WalkInv
<1>6. pushing = 0
  <2>1. saved # <<>> => saved[Len(saved)] # NoBlock
    BY LastIsNewest, ShardAssumption DEF ChainInv
  <2>2. ~(pushing > 0)
    BY <2>1 DEF PushInv, Idle
  <2> QED BY <2>2, ShardAssumption DEF StateInv
<1>7. WalkInv'
  BY <1>5 DEF WalkInv
<1>8. Newest = IF saved # <<>> THEN saved[Len(saved)] ELSE NoBlock
  BY DEF Newest, Pending, Idle
<1>9. Pending' /\ Newest' = buffer[1]
  BY <1>2, <1>3, <1>6 DEF Pending, Newest
<1>10. FeedInv'
  <2>1. Lineage(saved)'
    BY DEF FeedInv, Lineage, Link, Suitable, blockchain
  <2>2. Lineage(buffer)'
    BY <1>2 DEF FeedInv, Lineage, Link, Suitable, blockchain
  <2>3. saved # <<>> => Link(saved[Len(saved)], buffer[1])
    <3>1. saved # <<>> => saved[Len(saved)] \in Blocks
      BY DEF StateInv
    <3>2. saved # <<>> => Newest # NoBlock
      BY <3>1, <1>8, ShardAssumption DEF ChainInv
    <3> QED BY <3>2, <1>2, <1>8 DEF FeedInv
  <2>4. buffer' # <<>> => /\ Link(buffer[1], buffer'[1])
                          /\ buffer'[Len(buffer')] = buffer[Len(buffer)]
    BY <1>2 DEF FeedInv, Lineage
  <2>5. buffer' = <<>> => buffer[1] = buffer[Len(buffer)]
    <3>1. buffer' = <<>> => Len(buffer') = 0
      OBVIOUS
    <3>2. Len(buffer') = 0 => Len(buffer) = 1
      BY <1>2
    <3> QED BY <3>1, <3>2
  <2>6. lastKnown' = buffer[Len(buffer)]
    BY <1>2 DEF FeedInv
  <2> QED BY <2>1, <2>2, <2>3, <2>4, <2>5, <2>6, <1>2, <1>9
          DEF FeedInv, Link, Suitable, blockchain
<1>11. SortedInv' /\ PushInv'
  BY <1>6 DEF SortedInv, PushInv
<1> QED BY <1>1, <1>4, <1>7, <1>10, <1>11

LEMMA IInvSave == IInv /\ SaveBlock => IInv'
<1> SUFFICES ASSUME IInv, SaveBlock PROVE IInv'
  OBVIOUS
<1> USE DEF IInv, SaveBlock, tracker
<1>1. Blocks' = Blocks /\ ChainInv'
  BY DEF blockchain, ChainInv, Blocks
<1>2. /\ block \in Blocks /\ saved \in Seq(Blocks) /\ saved' \in Seq(Blocks)
      /\ Len(saved) \in Nat /\ Len(saved') = Len(saved) + 1
      /\ saved'[Len(saved')] = block /\ \A i \in 1..Len(saved) : saved'[i] = saved[i]
  BY DEF StateInv
<1>3. Pending
  BY DEF Pending
<1>4. StateInv'
  <2>1. 1 \in 0..(Notificators + 1)
    BY ShardAssumption
  <2> QED BY <2>1, <1>1, <1>2 DEF StateInv
<1>5. WalkInv'
  BY DEF WalkInv, Link, Suitable, blockchain
<1>6. Newest = block /\ Newest' = block /\ ~Pending'
  BY <1>2, <1>3 DEF Newest, Pending
<1>7. FeedInv'
  <2>1. ASSUME NEW i \in 1..(Len(saved') - 1) PROVE Link(saved'[i], saved'[i + 1])
    <3>1. CASE i < Len(saved)
      BY <3>1, <1>2 DEF FeedInv, Lineage
    <3>2. CASE i = Len(saved)
      BY <3>2, <1>2, <1>3 DEF FeedInv
    <3> QED BY <3>1, <3>2, <1>2
  <2>2. Lineage(saved)'
    BY <2>1 DEF Lineage, Link, Suitable, blockchain
  <2>3. Lineage(buffer)'
    BY DEF FeedInv, Lineage, Link, Suitable, blockchain
  <2> QED BY <2>2, <2>3, <1>6 DEF FeedInv, Link, Suitable, blockchain
<1>8. \A i \in 1..Len(saved) : saved[i].seqno < block.seqno
  <2>1. CASE saved = <<>>
    BY <2>1
  <2>2. CASE saved # <<>>
    <3>1. Link(saved[Len(saved)], block) /\ saved[Len(saved)] \in Blocks
      BY <2>2, <1>3, LastIsNewest DEF FeedInv
    <3>2. saved[Len(saved)].seqno < block.seqno
      BY <3>1, <1>2 DEF Link, Suitable, ChainInv
    <3>3. \A b \in Blocks : b.seqno \in Nat
      BY DEF ChainInv, Block
    <3> QED BY <2>2, <3>1, <3>2, <3>3, <1>2, LastIsNewest
  <2> QED BY <2>1, <2>2
<1>9. SortedInv'
  <2>1. ASSUME NEW i \in 1..Len(saved'), NEW j \in 1..Len(saved'), i < j
        PROVE saved'[i].seqno < saved'[j].seqno
    <3>1. CASE j =< Len(saved)
      BY <3>1, <2>1, <1>2 DEF SortedInv
    <3>2. CASE j = Len(saved) + 1
      BY <3>2, <2>1, <1>2, <1>8
    <3> QED BY <3>1, <3>2, <1>2
  <2> QED BY <2>1 DEF SortedInv
<1>10. PushInv'
  <2>0. Range(saved) = {saved[i] : i \in 1..Len(saved)} /\ Range(saved') = {saved'[i] : i \in 1..Len(saved')}
    BY <1>2 DEF Range
  <2>1. ASSUME NEW n \in 1..Notificators, NEW i \in 1..Len(pushed[n])
        PROVE pushed[n][i] \in Range(saved') /\ pushed[n][i].seqno < block.seqno
    <3>1. PICK m \in 1..Len(saved) : pushed[n][i] = saved[m]
      BY <2>0 DEF PushInv
    <3> QED BY <3>1, <2>0, <1>2, <1>8
  <2> QED BY <2>1, <1>2 DEF PushInv
<1> QED BY <1>1, <1>4, <1>5, <1>7, <1>9, <1>10

LEMMA IInvPublish == IInv /\ Publish => IInv'
<1> SUFFICES ASSUME IInv, Publish PROVE IInv'
  OBVIOUS
<1> USE DEF IInv, Publish, tracker
<1>1. Blocks' = Blocks /\ ChainInv'
  BY DEF blockchain, ChainInv, Blocks
<1>2. /\ pushing \in 1..Notificators /\ pushing > 0 /\ pushing' = pushing + 1
      /\ block \in Blocks /\ saved # <<>> /\ block = saved[Len(saved)]
  <2>1. pushing \in 1..Notificators /\ pushing > 0 /\ pushing' = pushing + 1
    BY ShardAssumption
  <2> QED BY <2>1, LastIsNewest DEF PushInv
<1>3. block \in Range(saved)
  BY <1>2 DEF StateInv, Range
<1> DEFINE p == pushed[pushing]
<1>4. /\ p \in Seq(Blocks) /\ Len(p) \in Nat /\ pushed'[pushing] = Append(p, block)
      /\ \A n \in 1..Notificators : n # pushing => pushed'[n] = pushed[n]
  <2> HIDE DEF IInv, Publish
  <2>1. pushed \in [1..Notificators -> Seq(Blocks)]
    BY DEF IInv, StateInv
  <2>2. pushed' = [pushed EXCEPT ![pushing] = Append(@, block)]
    BY DEF Publish
  <2>3. p \in Seq(Blocks)
    BY <2>1, <1>2
  <2>4. Len(p) \in Nat
    BY <2>3
  <2>5. pushed'[pushing] = Append(p, block)
    BY <2>1, <2>2, <1>2
  <2>6. ASSUME NEW n \in 1..Notificators, n # pushing PROVE pushed'[n] = pushed[n]
    BY <2>1, <2>2, <2>6
  <2> QED BY <2>3, <2>4, <2>5, <2>6
<1>5. /\ Append(p, block) \in Seq(Blocks) /\ Len(Append(p, block)) = Len(p) + 1
      /\ Append(p, block)[Len(p) + 1] = block
      /\ \A i \in 1..Len(p) : Append(p, block)[i] = p[i]
  BY <1>2, <1>4
<1>6. StateInv'
  <2>1. pushing' \in 0..(Notificators + 1)
    BY <1>2, ShardAssumption
  <2>2. pushed' \in [1..Notificators -> Seq(Blocks)]
    BY <1>2, <1>4, <1>5 DEF StateInv
  <2> QED BY <2>1, <2>2, <1>1 DEF StateInv
<1>7. ~Pending /\ ~Pending' /\ Newest' = Newest
  BY <1>2, ShardAssumption DEF Pending, Newest
<1>8. WalkInv' /\ FeedInv' /\ SortedInv'
  <2>1. WalkInv'
    BY <1>1 DEF WalkInv, Link, Suitable, blockchain
  <2>2. Lineage(saved)' /\ Lineage(buffer)'
    BY DEF FeedInv, Lineage, Link, Suitable, blockchain
  <2>3. FeedInv'
    BY <2>2, <1>7 DEF FeedInv, Link, Suitable, blockchain
  <2>4. SortedInv'
    BY DEF SortedInv
  <2> QED BY <2>1, <2>3, <2>4
<1>9. PushInv'
  <2>1. ASSUME NEW n \in 1..Notificators
        PROVE /\ \A i \in 1..Len(pushed'[n]) :
                   /\ pushed'[n][i] \in Range(saved)
                   /\ n >= pushing' => pushed'[n][i].seqno < block.seqno
              /\ \A i, j \in 1..Len(pushed'[n]) : i < j => pushed'[n][i].seqno < pushed'[n][j].seqno
    <3>1. CASE n # pushing
      <4>1. pushed'[n] = pushed[n]
        BY <3>1, <1>4
      <4>2. n >= pushing' => n >= pushing
        BY <1>2
      <4> QED BY <4>1, <4>2, <1>2 DEF PushInv
    <3>2. CASE n = pushing
      <4>1. pushed'[n] = Append(p, block) /\ ~(n >= pushing')
        BY <3>2, <1>2, <1>4
      <4>2. \A i \in 1..Len(p) : p[i] \in Range(saved) /\ p[i].seqno < block.seqno
        BY <1>2 DEF PushInv
      <4>3. \A i, j \in 1..Len(p) : i < j => p[i].seqno < p[j].seqno
        BY <1>2 DEF PushInv
      <4>4. \A i \in 1..(Len(p) + 1) : Append(p, block)[i] \in Range(saved)
        BY <4>2, <1>3, <1>4, <1>5
      <4>5. \A i, j \in 1..(Len(p) + 1) :
              i < j => Append(p, block)[i].seqno < Append(p, block)[j].seqno
        <5>1. SUFFICES ASSUME NEW i \in 1..(Len(p) + 1), NEW j \in 1..(Len(p) + 1), i < j
                       PROVE Append(p, block)[i].seqno < Append(p, block)[j].seqno
          OBVIOUS
        <5>2. i \in 1..Len(p)
          BY <5>1, <1>4
        <5>3. CASE j \in 1..Len(p)
          BY <5>1, <5>2, <5>3, <4>3, <1>5
        <5>4. CASE j = Len(p) + 1
          BY <5>2, <5>4, <4>2, <1>5
        <5> QED BY <5>3, <5>4, <1>4
      <4> QED BY <4>1, <4>4, <4>5, <1>5
    <3> QED BY <3>1, <3>2
  <2> QED BY <2>1, <1>2 DEF PushInv
<1> QED BY <1>1, <1>6, <1>8, <1>9

LEMMA IInvProcessed == IInv /\ BlockProcessed => IInv'
<1> SUFFICES ASSUME IInv, BlockProcessed PROVE IInv'
  OBVIOUS
<1> USE DEF IInv, BlockProcessed, tracker
<1>1. Blocks' = Blocks /\ ChainInv'
  BY DEF blockchain, ChainInv, Blocks
<1>2. pushing > 0
  BY ShardAssumption DEF StateInv
<1>3. 0 \in 0..(Notificators + 1)
  BY ShardAssumption
<1>4. StateInv'
  BY <1>1, <1>3, Zenon DEF StateInv
<1>5. ~Pending /\ ~Pending' /\ Newest' = Newest
  BY <1>2, ShardAssumption DEF Pending, Newest
<1>6. WalkInv' /\ FeedInv' /\ SortedInv'
  <2>1. WalkInv'
    BY <1>1 DEF WalkInv, Link, Suitable, blockchain
  <2>2. Lineage(saved)' /\ Lineage(buffer)'
    BY DEF FeedInv, Lineage, Link, Suitable, blockchain
  <2>3. FeedInv'
    BY <2>2, <1>5 DEF FeedInv, Link, Suitable, blockchain
  <2>4. SortedInv'
    BY DEF SortedInv
  <2> QED BY <2>1, <2>3, <2>4
<1>7. PushInv'
  BY DEF PushInv
<1> QED BY <1>1, <1>4, <1>6, <1>7

LEMMA IInvNext == IInv /\ [Next]_vars => IInv'
<1> SUFFICES ASSUME IInv, [Next]_vars PROVE IInv'
  OBVIOUS
<1>1. CASE Chain
  BY <1>1, IInvChain
<1>2. CASE \E k \in 1..Len(masters) : GetNextMasterBlockID(k)
  BY <1>2, IInvMaster
<1>3. CASE Walk
  BY <1>3, IInvFirst, IInvLoaded, IInvDrop, IInvHeader DEF Walk
<1>4. CASE Scan
  BY <1>4, IInvGetNext, IInvSave, IInvPublish, IInvProcessed DEF Scan
<1>5. CASE Restart
  BY <1>5, IInvRestart
<1>6. CASE UNCHANGED vars
  BY <1>6 DEF vars, blockchain, tracker, scanner, IInv, ChainInv, Blocks, StateInv, WalkInv, FeedInv,
              SortedInv, PushInv, Lineage, Link, Suitable, Newest, Pending
<1> QED BY <1>1, <1>2, <1>3, <1>4, <1>5, <1>6 DEF Next

-----------------------------------------------------------------------------
\* The line of saved blocks, the block at hand, the buffer and the walk (IInv)
\* survives every step of the chain, the tracker, the scanner and restarts.
THEOREM Invariance == Spec => []IInv
<1> QED BY IInvInit, IInvNext, PTL DEF Spec

\* The tracker's and the scanner's state and block_data keep their types.
THEOREM TypeCorrect == Spec => []TypeOK
<1>1. IInv => TypeOK
  <2> SUFFICES ASSUME IInv PROVE TypeOK
    OBVIOUS
  <2>1. Blocks \subseteq Block
    BY DEF IInv, ChainInv
  <2>2. \A s \in Seq(Blocks) : s \in Seq(Block)
    BY <2>1
  <2>3. masters \in Seq(SUBSET Block)
    BY <2>1 DEF IInv, ChainInv
  <2>4. pushed \in [1..Notificators -> Seq(Block)]
    BY <2>2 DEF IInv, StateInv
  <2>5. tips \subseteq Block /\ DOMAIN parents \subseteq Block /\ \A b \in DOMAIN parents : parents[b] \subseteq Block
    BY <2>1 DEF IInv, ChainInv, Blocks
  <2> QED BY <2>1, <2>2, <2>3, <2>4, <2>5, Zenon DEF IInv, StateInv, TypeOK
<1> QED BY <1>1, Invariance, PTL

\* block_data is one unbroken line: the row before a row is the suitable parent
\* of its block, after any number of splits, merges, old answers and restarts.
THEOREM SavedLine == Spec => []SavedIsLineage
<1>1. IInv => SavedIsLineage
  <2> SUFFICES ASSUME IInv, NEW i \in 2..Len(saved)
               PROVE saved[i - 1] \in Suitable(parents[saved[i]])
    BY DEF SavedIsLineage
  <2>1. i - 1 \in 1..(Len(saved) - 1) /\ (i - 1) + 1 = i
    BY DEF IInv, StateInv
  <2> QED BY <2>1 DEF IInv, FeedInv, Lineage, Link
<1> QED BY <1>1, Invariance, PTL

\* No channel gets the notifications of a block twice, out of order, or for a
\* block that is not saved.
THEOREM NotifiedOnce == Spec => []NotifiedAtMostOnce
<1>1. IInv => NotifiedAtMostOnce
  <2> SUFFICES ASSUME IInv, NEW n \in 1..Notificators
               PROVE /\ Range(pushed[n]) \subseteq Range(saved)
                     /\ \A i, j \in 1..Len(pushed[n]) : i < j => pushed[n][i].seqno < pushed[n][j].seqno
    BY DEF NotifiedAtMostOnce
  <2>1. pushed[n] \in Seq(Blocks)
    BY DEF IInv, StateInv
  <2>2. Range(pushed[n]) = {pushed[n][i] : i \in 1..Len(pushed[n])}
    BY <2>1 DEF Range
  <2> QED BY <2>2 DEF IInv, PushInv
<1> QED BY <1>1, Invariance, PTL

-----------------------------------------------------------------------------
(* What the bits of a shard identifier say about accounts. *)

\* Shard identifiers are positive numbers of WordBits bits.
LEMMA WordSize == WordBits \in Nat /\ ShardBits \in Nat /\ \A x \in Word : x \in Nat /\ 0 < x /\ x < 2^WordBits
PROOF
  <1>1. WordBits \in Nat /\ ShardBits \in Nat
    BY ShardAssumption
  <1>2. 2^WordBits \in Nat
    BY <1>1, PowerPositive
  <1> QED BY <1>1, <1>2 DEF Word

\* TrailingZeros chooses the number of trailing zeros,
LEMMA TrailingZerosExist ==
  ASSUME NEW x \in Word
  PROVE  /\ TrailingZeros(x) \in 0..(WordBits - 1)
         /\ x % 2^TrailingZeros(x) = 0 /\ x % 2^(TrailingZeros(x) + 1) # 0
PROOF
  <1> DEFINE S == {k \in 0..WordBits : x % 2^k = 0}
  <1>1. x \in Nat /\ 0 < x /\ x < 2^WordBits /\ WordBits \in Nat /\ 2^WordBits \in Nat
    BY WordSize, PowerPositive
  <1>2. 0 \in S
    <2>1. x % 1 = 0
      BY <1>1
    <2> QED BY <1>1, <2>1, PowerZero
  <1>3. WordBits \notin S
    <2>1. x = 0 * 2^WordBits + x
      BY <1>1
    <2>2. x % 2^WordBits = x
      BY <1>1, <2>1, Quotient
    <2> QED BY <1>1, <2>2
  <1>4. Max(S) \in S /\ \A k \in S : k =< Max(S)
    <2>1. S \in SUBSET (0..WordBits) /\ S # {}
      BY <1>2
    <2> HIDE DEF S
    <2> QED BY <1>1, <2>1, MaxOfBounded
  <1> DEFINE m == Max(S)
  <1>5. m \in 0..(WordBits - 1) /\ x % 2^m = 0
    <2>1. m \in 0..WordBits /\ x % 2^m = 0
      BY <1>4
    <2>2. m # WordBits
      <3> HIDE DEF S
      <3> QED BY <1>3, <1>4
    <2> HIDE DEF m
    <2> QED BY <1>1, <2>1, <2>2
  <1>6. x % 2^(m + 1) # 0
    <2>1. m + 1 \in 0..WordBits /\ m + 1 \notin S
      <3> HIDE DEF S
      <3> QED BY <1>1, <1>4, <1>5
    <2> QED BY <2>1
  <1> HIDE DEF m, S
  <1> QED BY <1>5, <1>6 DEF TrailingZeros

\* and there is only one such number.
LEMMA TrailingZerosUnique ==
  ASSUME NEW x \in Word, NEW k \in 0..(WordBits - 1), x % 2^k = 0, x % 2^(k + 1) # 0
  PROVE  TrailingZeros(x) = k
PROOF
  <1> DEFINE t == TrailingZeros(x)
  <1>1. t \in 0..(WordBits - 1) /\ x % 2^t = 0 /\ x % 2^(t + 1) # 0
    BY TrailingZerosExist
  <1>2. x \in Nat /\ WordBits \in Nat
    BY WordSize
  <1> HIDE DEF t
  <1>3. ~(t < k)
    <2>1. t < k => k \in Nat /\ t + 1 \in 0..k
      BY <1>1, <1>2
    <2> QED BY <1>1, <1>2, <2>1, DivisibleBelow
  <1>4. ~(k < t)
    <2>1. k < t => t \in Nat /\ k + 1 \in 0..t
      BY <1>1, <1>2
    <2> QED BY <1>1, <1>2, <2>1, DivisibleBelow
  <1>5. t = k
    BY <1>1, <1>2, <1>3, <1>4
  <1> QED BY <1>5 DEF t

\* A shard identifier is a prefix j, a one and t zeros,
LEMMA ShardShape ==
  ASSUME NEW x \in Word, NEW t, t = TrailingZeros(x)
  PROVE  \E j \in Nat : x = j * 2^(t + 1) + 2^t
PROOF
  <1>1. t \in Nat /\ t + 1 \in Nat /\ x \in Nat /\ x % 2^t = 0 /\ x % 2^(t + 1) # 0
    BY TrailingZerosExist, WordSize
  <1> DEFINE e == 2^t
             c == 2^(t + 1)
             q == x \div e
             j == x \div c
             r == x % c
  <1>2. e \in Nat /\ e > 0 /\ c = 2 * e /\ c \in Nat /\ c > 0
    BY <1>1, PowerPositive, PowerStep
  <1>3. q \in Nat /\ x = q * e
    BY <1>1, <1>2, Division
  <1>4. j \in Nat /\ r \in Nat /\ r # 0 /\ r < c /\ x = j * c + r
    BY <1>1, <1>2, Division
  <1> HIDE DEF e, c, q, j, r
  <1> DEFINE a == 2 * j
  <1>5. a \in Nat /\ j * c = a * e /\ a * e \in Int /\ q * e \in Int
    BY <1>2, <1>3, <1>4
  <1>6. (a + 1) * e = a * e + e /\ (a + 2) * e = a * e + 2 * e
    BY <1>2, <1>5
  <1> HIDE DEF a
  <1>7. a * e < q * e /\ q * e < (a + 2) * e
    BY <1>2, <1>3, <1>4, <1>5, <1>6
  <1>8. a < q /\ q < a + 2
    <2>1. a \in Int /\ q \in Int /\ a + 2 \in Int
      BY <1>3, <1>5
    <2> QED BY ONLY <1>2, <1>7, <2>1, ProductOrder
  <1>9. q = a + 1
    BY <1>3, <1>5, <1>8
  <1>10. x = j * c + e
    BY <1>3, <1>5, <1>6, <1>9
  <1> QED BY <1>4, <1>10 DEF c, e

\* and whatever has this shape has t trailing zeros.
LEMMA ShapeZeros ==
  ASSUME NEW x \in Word, NEW t \in 0..(WordBits - 1), NEW j \in Nat, x = j * 2^(t + 1) + 2^t
  PROVE  TrailingZeros(x) = t
PROOF
  <1> DEFINE e == 2^t
             c == 2^(t + 1)
  <1>1. t \in Nat /\ t + 1 \in Nat /\ x \in Nat
    BY WordSize
  <1>2. e \in Nat /\ e > 0 /\ c = 2 * e /\ c \in Nat /\ c > 0
    BY <1>1, PowerPositive, PowerStep
  <1>3. x % e = 0 /\ x % c = e
    <2>1. x = j * c + e
      OBVIOUS
    <2> HIDE DEF e, c
    <2>2. x = (2 * j + 1) * e + 0
      BY <1>2, <2>1
    <2>3. 2 * j + 1 \in Int /\ j \in Int /\ 0 \in Nat /\ 0 < e /\ e < c
      BY <1>2
    <2> QED BY ONLY <1>1, <1>2, <2>1, <2>2, <2>3, Quotient
  <1>4. x % 2^t = 0 /\ x % 2^(t + 1) # 0
    BY <1>2, <1>3
  <1> QED BY <1>4, TrailingZerosUnique

-----------------------------------------------------------------------------
\* Two words agree in their first p bits when what is left of them after a
\* shift by the other bits is equal.
LEMMA LeadingEqualBitsAtLeast ==
  ASSUME NEW x \in Nat, x < 2^WordBits, NEW y \in Nat, y < 2^WordBits, NEW p \in 0..WordBits
  PROVE  LeadingEqualBits(x, y) >= p <=> x \div 2^(WordBits - p) = y \div 2^(WordBits - p)
PROOF
  <1> DEFINE Same(k) == x \div 2^(WordBits - k) = y \div 2^(WordBits - k)
             S == {k \in 0..WordBits : Same(k)}
             l == LeadingEqualBits(x, y)
  <1>1. WordBits \in Nat /\ 2^WordBits \in Nat /\ 2^WordBits > 0
    BY WordSize, PowerPositive
  <1>2. ASSUME NEW k \in 0..WordBits, NEW m \in 0..k, Same(k) PROVE Same(m)
    <2>1. WordBits - m \in Nat /\ WordBits - k \in 0..(WordBits - m)
      BY <1>1
    <2> QED BY <2>1, <1>2, SameQuotientBelow
  <1>3. 0 \in S
    <2>1. WordBits - 0 = WordBits
      BY <1>1
    <2>2. x = 0 * 2^WordBits + x /\ y = 0 * 2^WordBits + y
      BY <1>1
    <2>3. x \div 2^WordBits = 0 /\ y \div 2^WordBits = 0
      BY ONLY x \in Nat, y \in Nat, x < 2^WordBits, y < 2^WordBits, 0 \in Int, <1>1, <2>2, Quotient
    <2>4. Same(0)
      BY ONLY <2>1, <2>3, Zenon
    <2>5. 0 \in 0..WordBits
      BY <1>1
    <2> QED BY ONLY <2>4, <2>5
  <1>4. Max(S) \in S /\ \A k \in S : k =< Max(S)
    <2>1. S \in SUBSET (0..WordBits) /\ S # {}
      BY <1>3
    <2> HIDE DEF S
    <2> QED BY <1>1, <2>1, MaxOfBounded
  <1>5. \E k \in 0..WordBits : Same(k) /\ (k < WordBits => ~Same(k + 1))
    <2> DEFINE m == Max(S)
    <2>1. m \in 0..WordBits /\ Same(m)
      BY <1>4
    <2>2. m < WordBits => ~Same(m + 1)
      <3>1. m < WordBits => m + 1 \in 0..WordBits /\ m + 1 \notin S
        <4> HIDE DEF S
        <4> QED BY <1>1, <1>4, <2>1
      <3> QED BY <3>1
    <2> HIDE DEF m
    <2> QED BY <2>1, <2>2
  <1> DEFINE More(k) == x \div 2^(WordBits - k - 1) = y \div 2^(WordBits - k - 1)
  <1>6. ASSUME NEW k \in 0..WordBits PROVE More(k) <=> Same(k + 1)
    <2>1. WordBits - (k + 1) = WordBits - k - 1
      BY <1>1
    <2> QED BY <2>1
  <1>7. l \in 0..WordBits /\ Same(l) /\ (l < WordBits => ~Same(l + 1))
    <2>1. l = CHOOSE k \in 0..WordBits : Same(k) /\ (k < WordBits => ~More(k))
      BY DEF LeadingEqualBits
    <2> HIDE DEF Same, More, l
    <2>2. \E k \in 0..WordBits : Same(k) /\ (k < WordBits => ~More(k))
      BY <1>5, <1>6
    <2>3. l \in 0..WordBits /\ Same(l) /\ (l < WordBits => ~More(l))
      BY <2>1, <2>2
    <2> QED BY <1>6, <2>3
  <1> HIDE DEF Same, S, More
  <1> SUFFICES l >= p <=> Same(p)
    BY DEF Same
  <1> HIDE DEF l
  <1>8. ASSUME l >= p PROVE Same(p)
    <2>1. p \in 0..l
      BY <1>1, <1>7, <1>8
    <2> QED BY <1>2, <1>7, <2>1
  <1>9. ASSUME Same(p), ~(l >= p) PROVE FALSE
    <2>1. l + 1 \in 0..p /\ l < WordBits
      BY <1>1, <1>7, <1>9
    <2> QED BY <1>2, <1>7, <1>9, <2>1
  <1> QED BY <1>8, <1>9

\* The first account of the service's shard byte.
FirstAccount == Shard * 2^(WordBits - ShardBits)

LEMMA FirstIsWord == FirstAccount \in Nat /\ FirstAccount < 2^WordBits
PROOF
  <1> DEFINE a == 2^(WordBits - ShardBits)
             b == 2^ShardBits
  <1>1. /\ WordBits \in Nat /\ ShardBits \in Nat /\ WordBits - ShardBits \in Nat
        /\ ShardBits + (WordBits - ShardBits) = WordBits
        /\ Shard \in Nat /\ Shard < b
    BY ShardAssumption
  <1>2. a \in Nat /\ a > 0 /\ b \in Nat
    BY <1>1, PowerPositive
  <1>3. 2^WordBits = b * a
    <2>1. 2^(ShardBits + (WordBits - ShardBits)) = b * a
      BY ONLY <1>1, PowerSum
    <2> QED BY ONLY <1>1, <2>1, Zenon
  <1>4. Shard * a < b * a
    <2> HIDE DEF a, b
    <2>1. Shard \in Int /\ b \in Int
      BY <1>1, <1>2
    <2> QED BY ONLY <1>1, <1>2, <2>1, ProductOrder
  <1>5. Shard * a \in Nat
    <2> HIDE DEF a
    <2> QED BY <1>1, <1>2
  <1> QED BY ONLY <1>3, <1>4, <1>5 DEF FirstAccount

\* isInShard compares bits; what it decides is whether the first account of the
\* service lies in the shard.
LEMMA InShardContains ==
  ASSUME NEW s \in Word, NEW t, t = TrailingZeros(s)
  PROVE  IsInShard(s) <=> s - 2^t =< FirstAccount /\ FirstAccount < s + 2^t
PROOF
  <1>1. PICK j \in Nat : s = j * 2^(t + 1) + 2^t
    BY ShardShape
  <1> DEFINE e == 2^t
             c == 2^(t + 1)
             p == WordBits - 1 - t
  <1>2. /\ WordBits \in Nat /\ t \in Nat /\ t + 1 \in Nat /\ s \in Nat /\ s < 2^WordBits
        /\ p \in 0..WordBits /\ WordBits - p = t + 1
    BY WordSize, TrailingZerosExist
  <1>3. e \in Nat /\ e > 0 /\ c = 2 * e /\ c \in Nat /\ c > 0
    BY <1>2, PowerPositive, PowerStep
  <1>4. FirstAccount \in Nat /\ FirstAccount < 2^WordBits
    BY FirstIsWord
  <1>5. IsInShard(s) <=> FirstAccount \div c = s \div c
    <2>1. LeadingEqualBits(FirstAccount, s) >= p <=> FirstAccount \div 2^(WordBits - p) = s \div 2^(WordBits - p)
      <3> HIDE DEF p
      <3> QED BY ONLY <1>2, <1>4, LeadingEqualBitsAtLeast
    <2>2. IsInShard(s) <=> LeadingEqualBits(FirstAccount, s) >= p
      BY DEF IsInShard, PrefixLen, FirstAccount
    <2> QED BY ONLY <1>2, <2>1, <2>2, Zenon
  <1>6. s = j * c + e
    BY <1>1
  <1> HIDE DEF c, e, p
  <1>7. s \div c = j
    <2>1. j \in Int /\ e < c
      BY <1>3
    <2> QED BY ONLY <1>2, <1>3, <1>6, <2>1, Quotient
  <1>8. FirstAccount \div c = j <=> j * c =< FirstAccount /\ FirstAccount < (j + 1) * c
    <2>1. j \in Int
      OBVIOUS
    <2> QED BY ONLY <1>3, <1>4, <2>1, QuotientBounds
  <1>9. j * c = s - e /\ (j + 1) * c = s + e
    <2>1. j * c \in Int /\ (j + 1) * c = j * c + c
      BY <1>3
    <2> QED BY <1>2, <1>3, <1>6, <2>1
  <1> QED BY <1>5, <1>7, <1>8, <1>9 DEF e

\* The accounts of the service's byte are never divided by the boundaries of a
\* shard whose prefix is not longer than the byte.
LEMMA Aligned ==
  ASSUME NEW s \in Word, NEW t, t = TrailingZeros(s), PrefixLen(s) =< ShardBits
  PROVE  LET a == 2^(WordBits - ShardBits)
         IN  /\ FirstAccount < s - 2^t => FirstAccount + a =< s - 2^t
             /\ FirstAccount < s + 2^t => FirstAccount + a =< s + 2^t
PROOF
  <1>1. PICK j \in Nat : s = j * 2^(t + 1) + 2^t
    BY ShardShape
  <1> DEFINE a == 2^(WordBits - ShardBits)
             e == 2^t
             c == 2^(t + 1)
  <1>2. /\ t \in Nat /\ t + 1 \in Nat /\ s \in Nat
        /\ WordBits - ShardBits \in 0..(t + 1)
    BY WordSize, TrailingZerosExist, ShardAssumption DEF PrefixLen
  <1>3. e \in Nat /\ e > 0 /\ c = 2 * e /\ c \in Nat /\ c > 0
    BY <1>2, PowerPositive, PowerStep
  <1>4. PICK d \in Nat : d > 0 /\ c = d * a
    BY <1>2, PowerMultiple
  <1>5. a \in Nat /\ a > 0
    <2>1. WordBits - ShardBits \in Nat
      BY <1>2
    <2> QED BY <2>1, PowerPositive
  <1>6. Shard \in Nat /\ FirstAccount = Shard * a
    BY ShardAssumption DEF FirstAccount
  <1>7. s = j * c + e
    BY <1>1
  <1> HIDE DEF a, c, e
  <1>8. ASSUME NEW m \in Nat, FirstAccount < m * c PROVE FirstAccount + a =< m * c
    <2> DEFINE n == m * d
    <2>1. n \in Nat /\ m * c = n * a
      BY <1>4, <1>5
    <2> HIDE DEF n
    <2>2. Shard * a < n * a
      BY <1>6, <1>8, <2>1
    <2>3. Shard < n
      <3>1. Shard \in Int /\ n \in Int
        BY <1>6, <2>1
      <3> QED BY ONLY <1>5, <2>2, <3>1, ProductOrder
    <2>4. (Shard + 1) * a =< n * a /\ (Shard + 1) * a = Shard * a + a
      <3>1. Shard \in Int /\ Shard + 1 \in Int /\ n \in Int /\ Shard + 1 =< n
        BY <1>6, <2>1, <2>3
      <3> QED BY ONLY <1>5, <3>1, ProductOrder
    <2> QED BY ONLY <1>6, <2>1, <2>4
  <1>9. j * c = s - e /\ (j + 1) * c = s + e
    <2>1. j * c \in Int /\ (j + 1) * c = j * c + c
      BY <1>3
    <2> QED BY <1>2, <1>3, <1>7, <2>1
  <1>10. j + 1 \in Nat
    OBVIOUS
  <1> QED BY <1>8, <1>9, <1>10 DEF a, e

\* Of a shard and its halves, as a split or a merge relates them, the shard is
\* suitable exactly when one of the halves is.
LEMMA HalvesCover ==
  ASSUME NEW s \in Word, TrailingZeros(s) > 0, Halves(s) \subseteq Word
  PROVE  /\ \A h \in Halves(s) : TrailingZeros(h) = TrailingZeros(s) - 1
         /\ IsInShard(s) <=> \E h \in Halves(s) : IsInShard(h)
PROOF
  <1> DEFINE t == TrailingZeros(s)
             u == t - 1
             e == 2^u
  <1>1. PICK j \in Nat : s = j * 2^(t + 1) + 2^t
    BY ShardShape
  <1>2. /\ t \in Nat /\ t + 1 \in Nat /\ s \in Nat
        /\ u \in 0..(WordBits - 1) /\ u \in Nat /\ u + 1 = t
    BY WordSize, TrailingZerosExist
  <1>3. e \in Nat /\ e > 0
    BY <1>2, PowerPositive
  <1>4. 2^t = 2 * e /\ 2^(t + 1) = 2 * 2^t
    <2>1. 2^(u + 1) = 2 * e
      BY ONLY <1>2, PowerStep
    <2>2. 2^t = 2 * e
      BY ONLY <1>2, <2>1, Zenon
    <2> QED BY <1>2, <2>2, PowerStep
  <1>5. Halves(s) = {s - e, s + e}
    BY DEF Halves, HalfBit
  <1>6. s = j * (2 * (2 * e)) + 2 * e
    BY ONLY <1>1, <1>4, Zenon
  <1>7. 2^(u + 1) = 2 * e
    BY ONLY <1>2, <1>4, Zenon
  <1> DEFINE a == 2 * j
  <1>8. a \in Nat /\ a + 1 \in Nat /\ s - e = a * (2 * e) + e /\ s + e = (a + 1) * (2 * e) + e
    <2> HIDE DEF e
    <2> QED BY <1>2, <1>3, <1>6
  <1>9. s - e \in Word /\ s + e \in Word
    BY <1>5
  <1>10. TrailingZeros(s - e) = u /\ TrailingZeros(s + e) = u
    <2>1. s - e = a * 2^(u + 1) + 2^u /\ s + e = (a + 1) * 2^(u + 1) + 2^u
      BY ONLY <1>7, <1>8, Zenon
    <2> HIDE DEF a, u, e
    <2> QED BY <1>2, <1>8, <1>9, <2>1, ShapeZeros
  <1>11. IsInShard(s) <=> s - 2 * e =< FirstAccount /\ FirstAccount < s + 2 * e
    <2>1. IsInShard(s) <=> s - 2^t =< FirstAccount /\ FirstAccount < s + 2^t
      BY InShardContains
    <2> QED BY ONLY <1>4, <2>1, Zenon
  <1>12. /\ IsInShard(s - e) <=> (s - e) - e =< FirstAccount /\ FirstAccount < (s - e) + e
         /\ IsInShard(s + e) <=> (s + e) - e =< FirstAccount /\ FirstAccount < (s + e) + e
    <2> HIDE DEF u
    <2> QED BY <1>9, <1>10, InShardContains
  <1>13. IsInShard(s) <=> IsInShard(s - e) \/ IsInShard(s + e)
    <2> HIDE DEF e
    <2>1. FirstAccount \in Nat
      BY FirstIsWord
    <2>2. (s - e) - e = s - 2 * e /\ (s - e) + e = s /\ (s + e) - e = s /\ (s + e) + e = s + 2 * e
      BY <1>2, <1>3
    <2> QED BY <1>2, <1>3, <1>11, <1>12, <2>1, <2>2
  <1> HIDE DEF e
  <1> QED BY <1>5, <1>10, <1>13

-----------------------------------------------------------------------------
(* filterByShard always finds a suitable block. *)

\* No prefix is longer than the service's byte; a suitable block other than
\* the first one has a suitable parent; the newest blocks, and those of every
\* masterchain block, contain a suitable one; and the walk stays on suitable
\* blocks.
CoverInv ==
  /\ ~fatal
  /\ \A b \in Blocks :
       /\ PrefixLen(b.shard) =< ShardBits
       /\ b.seqno = 0 => b = Genesis
       /\ b # Genesis /\ IsInShard(b.shard) => Suitable(parents[b]) # {}
  /\ Suitable(tips) # {}
  /\ \A k \in 1..Len(masters) : Suitable(masters[k]) # {}
  /\ walking => IsInShard(cur.shard)

\* The first shard contains every account.
LEMMA GenesisCovers == PrefixLen(Genesis.shard) =< ShardBits /\ IsInShard(Genesis.shard)
PROOF
  <1> DEFINE t == WordBits - 1
             s == 2^t
  <1>1. WordBits \in Nat /\ ShardBits \in Nat /\ t \in Nat /\ t \in 0..(WordBits - 1) /\ t + 1 = WordBits
    BY ShardAssumption
  <1>2. Genesis.shard = s /\ s \in Word
    BY ShardAssumption DEF Genesis, Block
  <1>3. s \in Nat /\ 2^(t + 1) = 2 * s /\ 2^(t + 1) \in Nat
    BY <1>1, PowerPositive, PowerStep
  <1>4. TrailingZeros(s) = t
    <2>1. s = 0 * 2^(t + 1) + 2^t
      <3> HIDE DEF t
      <3> QED BY <1>3
    <2> HIDE DEF t, s
    <2> QED BY ONLY <1>1, <1>2, <2>1, 0 \in Nat, ShapeZeros
  <1>5. IsInShard(s) <=> s - s =< FirstAccount /\ FirstAccount < s + s
    <2> HIDE DEF t
    <2> QED BY <1>2, <1>4, InShardContains
  <1>6. FirstAccount \in Nat /\ FirstAccount < 2^(t + 1)
    <2> HIDE DEF t
    <2> QED BY ONLY <1>1, FirstIsWord
  <1>7. PrefixLen(s) = 0
    BY <1>1, <1>4 DEF PrefixLen
  <1> HIDE DEF s, t
  <1> QED BY <1>1, <1>2, <1>3, <1>5, <1>6, <1>7

LEMMA CoverInit == Init => CoverInv
PROOF
  <1> SUFFICES ASSUME Init PROVE CoverInv
    OBVIOUS
  <1>1. Suitable({Genesis}) # {}
    BY GenesisCovers DEF Suitable
  <1>2. Blocks = {Genesis} /\ tips = {Genesis} /\ masters = <<{Genesis}>> /\ ~walking /\ ~fatal
    BY DEF Init, Blocks
  <1> HIDE DEF Init
  <1>3. \A k \in 1..Len(masters) : masters[k] = {Genesis}
    BY <1>2
  <1> QED BY <1>1, <1>2, <1>3, GenesisCovers DEF CoverInv

\* New blocks that are suitable when one of their parents is.
LEMMA CoverAddBlocks ==
  ASSUME IInv, CoverInv, NEW new, NEW old \in SUBSET tips, AddBlocks(new, old),
         \A b \in new : PrefixLen(b.shard) =< ShardBits /\ b.seqno > 0,
         (\E b \in new : IsInShard(b.shard)) <=> \E p \in old : IsInShard(p.shard)
  PROVE  CoverInv'
PROOF
  <1>1. /\ Blocks' = Blocks \cup new
        /\ \A b \in Blocks : parents'[b] = parents[b]
        /\ \A b \in new : parents'[b] = old
        /\ new \cap Blocks = {}
    BY DEF AddBlocks, Blocks
  <1>2. tips' = (tips \ old) \cup new /\ UNCHANGED <<masters, cur, walking, fatal>>
    BY DEF AddBlocks, tracker
  <1>3. ASSUME NEW b \in Blocks'
        PROVE  /\ PrefixLen(b.shard) =< ShardBits
               /\ b.seqno = 0 => b = Genesis
               /\ b # Genesis /\ IsInShard(b.shard) => Suitable(parents'[b]) # {}
    <2>1. CASE b \in Blocks
      BY <1>1, <2>1 DEF CoverInv
    <2>2. CASE b \in new
      <3>1. IsInShard(b.shard) => Suitable(old) # {}
        BY <2>2 DEF Suitable
      <3> QED BY <1>1, <2>2, <3>1
    <2> QED BY <1>1, <2>1, <2>2
  <1>4. Suitable(tips') # {}
    <2>1. PICK p \in tips : IsInShard(p.shard)
      BY DEF CoverInv, Suitable
    <2>2. CASE p \in old
      BY <1>2, <2>1, <2>2 DEF Suitable
    <2>3. CASE p \notin old
      BY <1>2, <2>1, <2>3 DEF Suitable
    <2> QED BY <2>2, <2>3
  <1>5. \A S : Suitable(S)' = Suitable(S)
    BY DEF Suitable
  <1>6. /\ ~fatal' /\ (walking' => IsInShard(cur'.shard))
        /\ \A k \in 1..Len(masters') : Suitable(masters'[k]) # {}
    BY <1>2 DEF CoverInv
  <1> QED BY <1>3, <1>4, <1>6 DEF CoverInv, Suitable

LEMMA CoverChain == IInv /\ CoverInv /\ Chain => CoverInv'
PROOF
  <1> SUFFICES ASSUME IInv, CoverInv, Chain PROVE CoverInv'
    OBVIOUS
  <1>0. \A t \in tips : /\ t.seqno \in Nat /\ t.shard \in Word
                        /\ PrefixLen(t.shard) =< ShardBits
    BY DEF IInv, ChainInv, Block, CoverInv
  <1>1. ASSUME NEW t \in tips, Extend(t) PROVE CoverInv'
    <2> DEFINE new == {[shard |-> t.shard, seqno |-> t.seqno + 1]}
    <2>1. AddBlocks(new, {t})
      BY <1>1 DEF Extend
    <2>2. \A b \in new : b.shard = t.shard /\ b.seqno > 0
      BY <1>0
    <2>3. \E b \in new : b.shard = t.shard
      OBVIOUS
    <2> HIDE DEF new
    <2> QED BY <1>0, <2>1, <2>2, <2>3, CoverAddBlocks
  <1>2. ASSUME NEW t \in tips, Split(t) PROVE CoverInv'
    <2> DEFINE s == t.shard
               new == {[shard |-> h, seqno |-> t.seqno + 1] : h \in Halves(s)}
    <2>1. AddBlocks(new, {t}) /\ PrefixLen(s) < ShardBits
      BY <1>2 DEF Split
    <2>2. TrailingZeros(s) > 0 /\ TrailingZeros(s) \in Nat /\ WordBits \in Nat /\ ShardBits \in Nat
      BY <1>0, <2>1, TrailingZerosExist, WordSize, ShardAssumption DEF PrefixLen
    <2>3. Halves(s) \subseteq Word
      <3>1. \A h \in Halves(s) : [shard |-> h, seqno |-> t.seqno + 1] \in Block
        BY <2>1 DEF AddBlocks
      <3> QED BY <3>1 DEF Block
    <2>4. /\ \A h \in Halves(s) : TrailingZeros(h) = TrailingZeros(s) - 1
          /\ IsInShard(s) <=> \E h \in Halves(s) : IsInShard(h)
      BY <1>0, <2>2, <2>3, HalvesCover
    <2>5. \A b \in new : b.shard \in Halves(s) /\ b.seqno > 0
      BY <1>0
    <2>6. \A h \in Halves(s) : \E b \in new : b.shard = h
      <3>1. ASSUME NEW h \in Halves(s) PROVE \E b \in new : b.shard = h
        <4>1. [shard |-> h, seqno |-> t.seqno + 1] \in new
          OBVIOUS
        <4> QED BY <4>1
      <3> QED BY <3>1
    <2> HIDE DEF new
    <2>7. \A h \in Halves(s) : PrefixLen(h) =< ShardBits
      BY <2>1, <2>2, <2>4 DEF PrefixLen
    <2>8. (\E b \in new : IsInShard(b.shard)) <=> \E p \in {t} : IsInShard(p.shard)
      BY <2>4, <2>5, <2>6
    <2> QED BY <2>1, <2>5, <2>7, <2>8, CoverAddBlocks
  <1>3. ASSUME NEW s, NEW t \in tips, NEW u \in tips, Merge(s, t, u) PROVE CoverInv'
    <2> DEFINE new == {[shard |-> s, seqno |-> u.seqno + 1]}
    <2>1. /\ AddBlocks(new, {t, u})
          /\ TrailingZeros(s) > 0 /\ Halves(s) = {t.shard, u.shard}
      BY <1>3 DEF Merge
    <2>2. s \in Word
      BY <2>1 DEF AddBlocks, Block
    <2>3. /\ TrailingZeros(t.shard) = TrailingZeros(s) - 1
          /\ IsInShard(s) <=> IsInShard(t.shard) \/ IsInShard(u.shard)
      BY <1>0, <2>1, <2>2, HalvesCover
    <2>4. PrefixLen(s) =< ShardBits
      BY <1>0, <2>2, <2>3, TrailingZerosExist, WordSize DEF PrefixLen
    <2>5. \A b \in new : b.shard = s /\ b.seqno > 0
      BY <1>0
    <2>6. \E b \in new : b.shard = s
      OBVIOUS
    <2> HIDE DEF new
    <2> QED BY <2>1, <2>3, <2>4, <2>5, <2>6, CoverAddBlocks
  <1>4. ASSUME NewMasterBlock PROVE CoverInv'
    <2>1. masters' = Append(masters, tips) /\ UNCHANGED <<tips, parents, cur, walking, fatal>>
      BY <1>4 DEF NewMasterBlock, tracker
    <2>2. \A k \in 1..Len(masters') : masters'[k] = tips \/ (k \in 1..Len(masters) /\ masters'[k] = masters[k])
      BY <2>1 DEF IInv, ChainInv
    <2>3. \A k \in 1..Len(masters') : Suitable(masters'[k]) # {}
      BY <2>2 DEF CoverInv
    <2> QED BY <2>1, <2>3 DEF CoverInv, Suitable, Blocks
  <1> QED BY <1>1, <1>2, <1>3, <1>4 DEF Chain

LEMMA CoverNext == IInv /\ CoverInv /\ [Next]_vars => CoverInv'
PROOF
  <1> SUFFICES ASSUME IInv, CoverInv, [Next]_vars PROVE CoverInv'
    OBVIOUS
  <1>0. ASSUME UNCHANGED blockchain, ~fatal', walking' => IsInShard(cur'.shard) PROVE CoverInv'
    BY <1>0 DEF blockchain, CoverInv, Suitable, Blocks
  <1>1. ASSUME Chain PROVE CoverInv'
    BY <1>1, CoverChain
  <1>2. ASSUME NEW k \in 1..Len(masters), GetNextMasterBlockID(k) PROVE CoverInv'
    <2>1. cur' \in Suitable(masters[k]) /\ UNCHANGED <<blockchain, fatal>>
      BY <1>2 DEF GetNextMasterBlockID, CoverInv
    <2> QED BY <1>0, <2>1 DEF CoverInv, Suitable
  <1>3. ASSUME FirstBlock \/ BatchLoaded \/ DropBatch PROVE CoverInv'
    <2>1. ~walking' /\ UNCHANGED <<blockchain, fatal>>
      BY <1>3 DEF FirstBlock, BatchLoaded, DropBatch, EndWalk
    <2> QED BY <1>0, <2>1 DEF CoverInv
  <1>4. ASSUME GetShardBlocksHeader PROVE CoverInv'
    <2>1. walking /\ lastKnown # NoBlock /\ cur # lastKnown /\ ~(lastKnown.seqno > cur.seqno)
      BY <1>4 DEF GetShardBlocksHeader, IsKnown, IsOld
    <2>2. cur \in Blocks /\ lastKnown \in Blocks /\ IsInShard(cur.shard)
      BY <2>1 DEF IInv, WalkInv, StateInv, CoverInv
    <2>3. cur # Genesis
      <3>1. ASSUME cur = Genesis PROVE FALSE
        <4>1. cur.seqno = 0 /\ lastKnown.seqno \in Nat
          BY <2>2, <3>1 DEF Genesis, IInv, ChainInv, Block
        <4>2. lastKnown.seqno = 0
          BY <2>1, <4>1
        <4> QED BY <2>1, <2>2, <3>1, <4>2 DEF CoverInv
      <3> QED BY <3>1
    <2>4. Suitable(parents[cur]) # {}
      BY <2>2, <2>3 DEF CoverInv
    <2>5. cur' \in Suitable(parents[cur]) /\ UNCHANGED <<blockchain, fatal>>
      BY <1>4, <2>4 DEF GetShardBlocksHeader
    <2> QED BY <1>0, <2>5 DEF CoverInv, Suitable
  <1>5. ASSUME Scan PROVE CoverInv'
    <2>1. UNCHANGED <<blockchain, fatal, walking, cur>>
      BY <1>5 DEF Scan, GetNext, SaveBlock, Publish, BlockProcessed, tracker
    <2> QED BY <1>0, <2>1 DEF CoverInv
  <1>6. ASSUME Restart PROVE CoverInv'
    <2>1. ~walking' /\ UNCHANGED <<blockchain, fatal>>
      BY <1>6 DEF Restart, NewShardTracker
    <2> QED BY <1>0, <2>1 DEF CoverInv
  <1>7. ASSUME UNCHANGED vars PROVE CoverInv'
    BY <1>0, <1>7 DEF vars, tracker, CoverInv
  <1> QED BY <1>1, <1>2, <1>3, <1>4, <1>5, <1>6, <1>7 DEF Next, Walk

LEMMA CoverImplies == IInv /\ CoverInv => SuitableCoversShard
PROOF
  <1> SUFFICES ASSUME IInv, CoverInv PROVE SuitableCoversShard
    OBVIOUS
  <1> DEFINE a == 2^(WordBits - ShardBits)
             first == Shard * a
             last == first + a - 1
             half(b) == 2^TrailingZeros(b.shard)
  <1>1. FirstAccount \in Nat /\ a \in Nat
    <2>1. WordBits - ShardBits \in Nat
      BY ShardAssumption
    <2> QED BY <2>1, FirstIsWord, PowerPositive
  <1>2. first = FirstAccount
    BY DEF FirstAccount
  <1>3. ASSUME NEW b \in Blocks
        PROVE  IF IsInShard(b.shard)
               THEN b.shard - half(b) =< first /\ last < b.shard + half(b)
               ELSE last < b.shard - half(b) \/ b.shard + half(b) =< first
    <2> DEFINE s == b.shard
               e == half(b)
    <2>1. s \in Word /\ s \in Nat /\ PrefixLen(s) =< ShardBits
      BY WordSize DEF IInv, ChainInv, Block, CoverInv
    <2>2. e \in Nat
      <3>1. TrailingZeros(s) \in Nat
        BY <2>1, TrailingZerosExist
      <3> QED BY <3>1, PowerPositive
    <2>3. IsInShard(s) <=> s - e =< FirstAccount /\ FirstAccount < s + e
      BY <2>1, InShardContains
    <2>4. /\ FirstAccount < s - e => FirstAccount + a =< s - e
          /\ FirstAccount < s + e => FirstAccount + a =< s + e
      BY <2>1, Aligned
    <2>5. last = FirstAccount + a - 1
      BY ONLY <1>2, Zenon
    <2> HIDE DEF s, e, a, first, last
    <2>6. IF IsInShard(s) THEN s - e =< first /\ last < s + e ELSE last < s - e \/ s + e =< first
      BY <1>1, <1>2, <2>1, <2>2, <2>3, <2>4, <2>5
    <2> QED BY <2>6 DEF s, e
  <1>4. ~fatal
    BY DEF CoverInv
  <1> HIDE DEF IInv, CoverInv
  <1> QED BY <1>3, <1>4 DEF SuitableCoversShard, Blocks

\* isInShard is right about every block, for shard identifiers and service
\* bytes of any width, and filterByShard never ends the process: each block
\* of the chain contains the accounts of the service's byte or none of them,
\* and there is always a suitable block to go on with.
THEOREM ShardCovered == Spec => []SuitableCoversShard
PROOF
  <1>1. Init => CoverInv
    BY CoverInit
  <1>2. IInv /\ CoverInv /\ [Next]_vars => CoverInv'
    BY CoverNext
  <1>3. IInv /\ CoverInv => SuitableCoversShard
    BY CoverImplies
  <1> QED BY <1>1, <1>2, <1>3, Invariance, PTL DEF Spec
=============================================================================

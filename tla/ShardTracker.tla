---------------------------- MODULE ShardTracker ----------------------------
(***************************************************************************)
(* From the masterchain to block_data: the shard tracker walks back from   *)
(* the shard block of a masterchain block to the last block it knows and   *)
(* hands the blocks over oldest first; the block scanner saves each block  *)
(* and then pushes its notifications.  Meanwhile shards split and merge,   *)
(* nodes answer with old masterchain blocks and the process is restarted.  *)
(* The tracker runs inside the scanner's goroutine.                        *)
(***************************************************************************)
EXTENDS Integers, SequencesExt

CONSTANTS
  WordBits,     \* bits of a shard identifier (64 in the code)
  ShardBits,    \* bits of the service's shard byte (8 in the code)
  Shard,        \* the service's shard byte
  Notificators, \* number of notification channels
  NoBlock,      \* nil
  MaxSeqno,     \* bound on the seqno of shard blocks
  MaxMaster,    \* bound on the seqno of masterchain blocks
  MaxRestarts   \* bound on the restarts of the process

Word == 1..(2^WordBits - 1)

Block == [shard : Word, seqno : 0..MaxSeqno]

\* One shard with all accounts.
Genesis == [shard |-> 2^(WordBits - 1), seqno |-> 0]

ASSUME ShardAssumption ==
  /\ ShardBits \in Nat /\ WordBits \in Nat /\ ShardBits < WordBits
  /\ Shard \in Nat /\ Shard < 2^ShardBits
  /\ Notificators \in Nat /\ MaxRestarts \in Nat
  /\ MaxSeqno \in Nat /\ MaxMaster \in Nat \ {0}
  /\ Genesis \in Block /\ NoBlock \notin Block

VARIABLES
  (* the blockchain: a shard block is identified by its shard and its seqno *)
  tips,         \* the newest block of every shard
  parents,      \* parents[b]: the one or two blocks before b
  masters,      \* masters[k]: the shard blocks that masterchain block k names
  (* the tracker *)
  lastKnown, lastMaster, buffer,
  walking,      \* inside getShardBlocks
  cur, batch,   \* its i and its batch
  (* the scanner *)
  block,        \* the block being processed
  pushing,      \* the channel that is notified next, 0 outside pushNotifications
  pushed,       \* pushed[n]: the blocks whose incomes went to channel n
  (* the database *)
  saved,        \* rows of block_data in the order they were inserted
  restarts,
  fatal         \* the tracker met what it treats as impossible

blockchain == <<tips, parents, masters>>
tracker == <<lastKnown, lastMaster, buffer, walking, cur, batch>>
scanner == <<block, pushing, pushed, saved>>
vars == <<blockchain, tracker, scanner, restarts, fatal>>

-----------------------------------------------------------------------------
(* Shard identifiers: the prefix of the accounts, a one, and zeros. *)

TrailingZeros(x) ==
  CHOOSE k \in 0..(WordBits - 1) : x % 2^k = 0 /\ x % 2^(k + 1) # 0

\* The leading zeros of the exclusive or of x and y.
LeadingEqualBits(x, y) ==
  CHOOSE k \in 0..WordBits :
    /\ x \div 2^(WordBits - k) = y \div 2^(WordBits - k)
    /\ k < WordBits => x \div 2^(WordBits - k - 1) # y \div 2^(WordBits - k - 1)

PrefixLen(s) == WordBits - 1 - TrailingZeros(s)

\* (mutant: the insignificant bit is counted as part of the prefix)
IsInShardOneMoreBit(s) ==
  LeadingEqualBits(Shard * 2^(WordBits - ShardBits), s) >= PrefixLen(s) + 1

IsInShard(s) ==
  LeadingEqualBits(Shard * 2^(WordBits - ShardBits), s) >= PrefixLen(s)

Suitable(S) == {b \in S : IsInShard(b.shard)}

-----------------------------------------------------------------------------
(* The blockchain (external). *)

HalfBit(s) == 2^(TrailingZeros(s) - 1)

Halves(s) == {s - HalfBit(s), s + HalfBit(s)}

\* A block identifies one block for ever.
AddBlocks(new, old) ==
  /\ new \subseteq Block \ DOMAIN parents
  /\ tips' = (tips \ old) \cup new
  /\ parents' = [b \in DOMAIN parents \cup new |-> IF b \in new THEN old ELSE parents[b]]
  /\ UNCHANGED <<masters, tracker, scanner, restarts, fatal>>

Extend(t) == AddBlocks({[shard |-> t.shard, seqno |-> t.seqno + 1]}, {t})

\* There are at most 2^ShardBits shards.
Split(t) ==
  /\ PrefixLen(t.shard) < ShardBits
  /\ AddBlocks({[shard |-> s, seqno |-> t.seqno + 1] : s \in Halves(t.shard)}, {t})

\* t and u are the halves of the shard s.
Merge(s, t, u) ==
  /\ t # u /\ t.seqno =< u.seqno
  /\ TrailingZeros(s) > 0 /\ Halves(s) = {t.shard, u.shard}
  /\ AddBlocks({[shard |-> s, seqno |-> u.seqno + 1]}, {t, u})

NewMasterBlock ==
  /\ Len(masters) < MaxMaster
  /\ masters' = Append(masters, tips)
  /\ UNCHANGED <<tips, parents, tracker, scanner, restarts, fatal>>

-----------------------------------------------------------------------------
(* The tracker: NextBlock is called when the scanner has no block at hand. *)

Idle == block = NoBlock /\ ~walking

\* (mutant: the oldest saved block)
GetLastSavedBlockIDAscending ==
  IF saved = <<>> THEN NoBlock
  ELSE CHOOSE b \in Range(saved) : \A c \in Range(saved) : b.seqno =< c.seqno

GetLastSavedBlockID ==
  IF saved = <<>> THEN NoBlock
  ELSE CHOOSE b \in Range(saved) : \A c \in Range(saved) : c.seqno =< b.seqno

\* The goroutine's state when the process starts, from the last saved block.
NewShardTracker ==
  /\ lastKnown' = GetLastSavedBlockID /\ lastMaster' = 0 /\ buffer' = <<>>
  /\ walking' = FALSE /\ cur' = NoBlock /\ batch' = <<>>

NewBlockScanner == block' = NoBlock /\ pushing' = 0

\* The process may stop anywhere: a signal, an error, a timeout.  It does stop
\* when a block has no suitable block among its parents.
Restart ==
  /\ restarts < MaxRestarts
  /\ restarts' = restarts + 1
  /\ NewShardTracker /\ NewBlockScanner
  /\ UNCHANGED <<blockchain, pushed, saved, fatal>>

\* filterByShard finds no suitable block: log.Fatalf.
Fatal ==
  /\ fatal' = TRUE
  /\ NewShardTracker /\ NewBlockScanner
  /\ UNCHANGED <<blockchain, pushed, saved, restarts>>

\* A node names masterchain block k, not always the newest one.  The walk
\* starts at its suitable shard block.
GetNextMasterBlockID(k) ==
  /\ Idle /\ buffer = <<>>
  /\ k # lastMaster
  /\ \/ /\ cur' \in Suitable(masters[k])
        /\ lastMaster' = k /\ walking' = TRUE /\ batch' = <<>>
        /\ UNCHANGED <<lastKnown, buffer, blockchain, scanner, restarts, fatal>>
     \/ Suitable(masters[k]) = {} /\ Fatal

EndWalk ==
  /\ walking' = FALSE /\ cur' = NoBlock /\ batch' = <<>>
  /\ UNCHANGED <<lastMaster, blockchain, scanner, restarts, fatal>>

\* A service that never saved a block starts at the first one it sees.
FirstBlock ==
  /\ walking /\ lastKnown = NoBlock
  /\ lastKnown' = cur
  /\ EndWalk
  /\ UNCHANGED buffer

\* (mutant: a walk that arrives at the known block does not end there)
IsKnownAtOnce == cur = lastKnown /\ batch = <<>>

IsKnown == cur = lastKnown

\* (mutant: the blocks stay newest first)
OldestFirstNot(s) == s

OldestFirst(s) == Reverse(s)

BatchLoaded ==
  /\ walking /\ lastKnown # NoBlock /\ IsKnown
  /\ lastKnown' = IF batch = <<>> THEN lastKnown ELSE batch[1]
  /\ buffer' = buffer \o OldestFirst(batch)
  /\ EndWalk

\* The node named an old block.
IsOld == lastKnown.seqno > cur.seqno

DropBatch ==
  /\ walking /\ lastKnown # NoBlock /\ ~IsKnown /\ IsOld
  /\ EndWalk
  /\ UNCHANGED <<lastKnown, buffer>>

GetShardBlocksHeader ==
  /\ walking /\ lastKnown # NoBlock /\ ~IsKnown /\ ~IsOld
  /\ \/ /\ cur' \in Suitable(parents[cur])
        /\ batch' = Append(batch, cur)
        /\ UNCHANGED <<lastKnown, lastMaster, buffer, walking, blockchain, scanner, restarts, fatal>>
     \/ Suitable(parents[cur]) = {} /\ Fatal

GetNext ==
  /\ Idle /\ buffer # <<>>
  /\ block' = Head(buffer)
  /\ buffer' = Tail(buffer)
  /\ UNCHANGED <<lastKnown, lastMaster, walking, cur, batch, pushing, pushed, saved,
                 blockchain, restarts, fatal>>

-----------------------------------------------------------------------------
(* The scanner. *)

\* processBlock up to the commit of SaveParsedBlockData.
SaveBlock ==
  /\ block # NoBlock /\ pushing = 0
  /\ saved' = Append(saved, block)
  /\ pushing' = 1
  /\ UNCHANGED <<block, pushed, blockchain, tracker, restarts, fatal>>

\* (mutant: one channel too many)
PublishOneMore ==
  /\ pushing \in 1..(Notificators + 1)
  /\ pushed' = [pushed EXCEPT ![pushing] = Append(@, block)]
  /\ pushing' = pushing + 1
  /\ UNCHANGED <<block, saved, blockchain, tracker, restarts, fatal>>

Publish ==
  /\ pushing \in 1..Notificators
  /\ pushed' = [pushed EXCEPT ![pushing] = Append(@, block)]
  /\ pushing' = pushing + 1
  /\ UNCHANGED <<block, saved, blockchain, tracker, restarts, fatal>>

BlockProcessed ==
  /\ pushing > Notificators
  /\ block' = NoBlock /\ pushing' = 0
  /\ UNCHANGED <<pushed, saved, blockchain, tracker, restarts, fatal>>

-----------------------------------------------------------------------------
Init ==
  /\ tips = {Genesis} /\ parents = [b \in {Genesis} |-> {}] /\ masters = <<{Genesis}>>
  /\ lastKnown = NoBlock /\ lastMaster = 0 /\ buffer = <<>>
  /\ walking = FALSE /\ cur = NoBlock /\ batch = <<>>
  /\ block = NoBlock /\ pushing = 0 /\ pushed = [n \in 1..Notificators |-> <<>>]
  /\ saved = <<>>
  /\ restarts = 0 /\ fatal = FALSE

Chain ==
  \/ \E t \in tips : Extend(t) \/ Split(t)
  \/ \E t, u \in tips : Merge((t.shard + u.shard) \div 2, t, u)
  \/ NewMasterBlock

Walk == FirstBlock \/ BatchLoaded \/ DropBatch \/ GetShardBlocksHeader

Scan == GetNext \/ SaveBlock \/ Publish \/ BlockProcessed

Next ==
  \/ Chain
  \/ \E k \in 1..Len(masters) : GetNextMasterBlockID(k)
  \/ Walk \/ Scan
  \/ Restart

Spec == Init /\ [][Next]_vars

\* The scanner's goroutine does not stop, and a node that is asked again and
\* again names the newest masterchain block at some time.
FairSpec ==
  /\ Spec
  /\ WF_vars(Walk) /\ WF_vars(Scan)
  /\ SF_vars(GetNextMasterBlockID(Len(masters)))

-----------------------------------------------------------------------------
(* Properties. *)

\* Types of the chain, of the tracker's and the scanner's state and of block_data.
TypeOK ==
  /\ tips \subseteq Block /\ DOMAIN parents \subseteq Block
  /\ \A b \in DOMAIN parents : parents[b] \subseteq Block
  /\ masters \in Seq(SUBSET Block)
  /\ lastKnown \in Block \cup {NoBlock} /\ lastMaster \in 0..MaxMaster
  /\ buffer \in Seq(Block) /\ batch \in Seq(Block)
  /\ walking \in BOOLEAN /\ cur \in Block \cup {NoBlock}
  /\ block \in Block \cup {NoBlock} /\ pushing \in 0..(Notificators + 1)
  /\ pushed \in [1..Notificators -> Seq(Block)] /\ saved \in Seq(Block)
  /\ restarts \in 0..MaxRestarts /\ fatal \in BOOLEAN

\* The blocks of block_data are one line of the service's shard: the block
\* before a saved block is the suitable parent of that block.  No block is
\* skipped, repeated or saved too early by splits, merges, old answers of a
\* node or restarts.
SavedIsLineage ==
  \A i \in 2..Len(saved) : saved[i - 1] \in Suitable(parents[saved[i]])

\* isInShard is right about every block the chain produces: its accounts
\* contain all accounts of the service's shard byte, or none of them, and then
\* it is not suitable.  So there is always one suitable block and
\* filterByShard never ends the process ("must be at least one suitable shard
\* block").
SuitableCoversShard ==
  /\ ~fatal
  /\ \A b \in DOMAIN parents :
       LET first == Shard * 2^(WordBits - ShardBits)
           last == first + 2^(WordBits - ShardBits) - 1
           half == 2^TrailingZeros(b.shard)
       IN IF IsInShard(b.shard)
          THEN b.shard - half =< first /\ last < b.shard + half
          ELSE last < b.shard - half \/ b.shard + half =< first

\* Notifications follow the commit, so a channel gets those of a saved block at
\* most once and in the order of the blocks, whatever restarts lie between
\* ("prevents duplicate sending on restart").
NotifiedAtMostOnce ==
  \A n \in 1..Notificators :
    /\ Range(pushed[n]) \subseteq Range(saved)
    /\ \A i, j \in 1..Len(pushed[n]) : i < j => pushed[n][i].seqno < pushed[n][j].seqno

\* How far the service has come: the newest saved block, or the block it
\* started at.
Reached(b) ==
  IF saved # <<>> THEN b.seqno =< Last(saved).seqno
  ELSE Idle /\ buffer = <<>> /\ lastKnown # NoBlock /\ b.seqno =< lastKnown.seqno

\* The service catches up with every masterchain block, though nodes answer
\* with old ones in between, shards split and merge and the process restarts.
CatchesUp ==
  \A k \in 1..MaxMaster :
    k =< Len(masters) ~>
      k =< Len(masters) /\ \A b \in Suitable(masters[k]) : Reached(b)
=============================================================================

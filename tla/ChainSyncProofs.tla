--------------------------- MODULE ChainSyncProofs ---------------------------
(***************************************************************************)
(* Proofs about ChainSync for any number of synchronisations, rounds,      *)
(* blocks and faults and any batch size: no block is skipped, and the      *)
(* backend follows the log of the chain in order.                          *)
(*                                                                         *)
(* The cursor alone is not inductive.  A synchronisation keeps the cursor  *)
(* it read, and later the range it asked for, while others store blocks,   *)
(* fail, and write their own stale cursors back.  What carries over is     *)
(* that applied blocks are never unmarked: everything below a cursor that  *)
(* was once read, or below a range that was once asked for, stays applied. *)
(*                                                                         *)
(* Of what the blocks do, three things are shown, one after the other.     *)
(* Rewards: the credits are the allocations in the blocks taken in.        *)
(* Mirror: a round that no member touched has gone, block by block,        *)
(* through a sequence of states that ends with its contract, and its row   *)
(* shows the state after the blocks taken in.  Refusals: along the same    *)
(* sequence, every block finds rows that take it, as long as the contract  *)
(* let nobody vote twice and no merchant stand twice.                      *)
(***************************************************************************)
EXTENDS ChainSync, SumLemmas, SequenceTheorems

Logged == {log[b] : b \in DOMAIN log}

SyncerState ==
  [at : {"idle"}] \cup [at : {"fetch"}, synced : Nat]
  \cup [at : {"store"}, from : Nat, to : Nat]

SyncTyped ==
  /\ log \in Seq(Logged)
  /\ cursor \in 0..Latest
  /\ applied \subseteq Blocks
  /\ syncer \in [Syncers -> SyncerState]

(* Marks are set in order.                                                  *)
InOrder == \A b \in applied : \A a \in 1..b : a \in applied

(* A cursor that was read and a range that was asked for leave nothing out, *)
(* and do not point past the log.                                           *)
Below(n) == \A b \in Blocks : b < n => b \in applied

RangesSafe ==
  \A w \in Syncers :
    /\ syncer[w].at = "fetch" => syncer[w].synced <= Latest /\ Below(syncer[w].synced + 1)
    /\ syncer[w].at = "store" =>
         /\ syncer[w].from <= Latest + 1 /\ Below(syncer[w].from)
         /\ syncer[w].to <= Latest

IInv == SyncTyped /\ InOrder /\ CursorSafe /\ RangesSafe

-----------------------------------------------------------------------------
(* A log that is extended by one block is a longer log with the same head.  *)
LEMMA LogGrows ==
  ASSUME log \in Seq(Logged), NEW events, log' = Append(log, events)
  PROVE  /\ log' \in Seq(Logged')
         /\ Len(log) \in Nat /\ Len(log') = Len(log) + 1
         /\ DOMAIN log = 1..Len(log) /\ DOMAIN log' = 1..(Len(log) + 1)
         /\ log'[Len(log) + 1] = events
<1> DEFINE S == Logged \cup {events}
<1>1. log \in Seq(S)
  BY SeqDef DEF Logged
<1>2. /\ log' \in Seq(S) /\ Len(log) \in Nat /\ Len(log') = Len(log) + 1
      /\ log'[Len(log) + 1] = events
  BY <1>1, AppendProperties, LenProperties
<1>3. DOMAIN log = 1..Len(log) /\ DOMAIN log' = 1..(Len(log) + 1)
  BY <1>1, <1>2, LenProperties
<1>4. \A i \in 1..Len(log') : log'[i] \in Logged'
  BY <1>2, <1>3 DEF Logged
<1>5. log' \in Seq(Logged')
  BY <1>2, <1>3, <1>4, SeqDef, ElementOfSeq, LenProperties
<1> QED BY <1>2, <1>3, <1>5

LEMMA LogLength ==
  ASSUME log \in Seq(Logged)
  PROVE  Len(log) \in Nat /\ DOMAIN log = 1..Len(log)
BY LenProperties

-----------------------------------------------------------------------------
LEMMA InitIInv == Init => IInv
<1> SUFFICES ASSUME Init PROVE IInv OBVIOUS
<1>1. log = <<>> /\ Len(log) = 0
  BY EmptySeq DEF Init
<1>2. log \in Seq(Logged)
  BY <1>1, EmptySeq
<1>3. syncer \in [Syncers -> SyncerState] /\ \A w \in Syncers : syncer[w].at = "idle"
  BY DEF Init, SyncerState, Idle
<1>4. cursor = 0 /\ applied = {}
  BY DEF Init
<1>5. Blocks = {}
  BY <1>1, <1>2, LogLength DEF Blocks
<1> QED
  BY <1>1, <1>2, <1>3, <1>4, <1>5 DEF IInv, SyncTyped, Latest, InOrder, CursorSafe, RangesSafe

(* The chain grows and the database stays: the new block is above every     *)
(* cursor and every range only because these never point past the log.      *)
LEMMA EmitKeeps ==
  ASSUME IInv, NEW events, Emit(events)
  PROVE  IInv' /\ Follower!Mine
<1>1. /\ log' = Append(log, events) /\ cursor' = cursor /\ applied' = applied
      /\ syncer' = syncer
  BY DEF Emit, database
<1>2. /\ log' \in Seq(Logged') /\ Len(log) \in Nat /\ Len(log') = Len(log) + 1
      /\ Blocks = 1..Len(log) /\ Blocks' = 1..(Len(log) + 1)
      /\ log'[Len(log) + 1] = events
  BY <1>1, LogGrows DEF IInv, SyncTyped, Blocks
<1>3. SyncTyped'
  BY <1>1, <1>2 DEF IInv, SyncTyped, Latest
<1>4. InOrder'
  BY <1>1 DEF IInv, InOrder
<1>5. CursorSafe'
  BY <1>1, <1>2 DEF IInv, SyncTyped, CursorSafe, Latest
<1>6. RangesSafe'
  <2> SUFFICES ASSUME NEW w \in Syncers
               PROVE  /\ (syncer[w].at = "fetch" => syncer[w].synced <= Latest /\ Below(syncer[w].synced + 1))'
                      /\ (syncer[w].at = "store" =>
                           /\ syncer[w].from <= Latest + 1 /\ Below(syncer[w].from)
                           /\ syncer[w].to <= Latest)'
    BY DEF RangesSafe
  <2>1. ASSUME syncer[w].at = "fetch"
        PROVE  syncer[w].synced \in Nat /\ syncer[w].synced <= Latest
               /\ Below(syncer[w].synced + 1)
    BY <2>1 DEF IInv, SyncTyped, SyncerState, RangesSafe
  <2>2. ASSUME syncer[w].at = "store"
        PROVE  /\ syncer[w].from \in Nat /\ syncer[w].to \in Nat
               /\ syncer[w].from <= Latest + 1 /\ Below(syncer[w].from)
               /\ syncer[w].to <= Latest
    BY <2>2 DEF IInv, SyncTyped, SyncerState, RangesSafe
  <2>3. ASSUME syncer[w].at = "fetch"
        PROVE  (syncer[w].synced <= Latest /\ Below(syncer[w].synced + 1))'
    BY <2>1, <2>3, <1>1, <1>2 DEF Below, Latest
  <2>4. ASSUME syncer[w].at = "store"
        PROVE  (syncer[w].from <= Latest + 1 /\ Below(syncer[w].from) /\ syncer[w].to <= Latest)'
    BY <2>2, <2>4, <1>1, <1>2 DEF Below, Latest
  <2> QED BY <2>3, <2>4, <1>1
<1>7. Follower!Mine
  BY <1>1, <1>2 DEF Follower!Mine, Blocks
<1> QED BY <1>3, <1>4, <1>5, <1>6, <1>7 DEF IInv

(* A step that leaves log, cursor, marks and synchronisations alone.        *)
LEMMA NothingMoves ==
  ASSUME IInv, UNCHANGED <<log, cursor, applied, syncer>>
  PROVE  IInv' /\ UNCHANGED Follower!vars
<1>1. IInv'
  BY DEF IInv, SyncTyped, InOrder, CursorSafe, RangesSafe, Below, Logged, Blocks, Latest
<1> QED BY <1>1 DEF Follower!vars

(* Synchronisation w goes on with state s, the database may move back its   *)
(* cursor: what is known of w must hold of s, the others keep what they had.*)
LEMMA SyncerMoves ==
  ASSUME IInv, NEW w \in Syncers, NEW s \in SyncerState,
         UNCHANGED <<log, applied>>,
         syncer' = [syncer EXCEPT ![w] = s],
         NEW c \in 0..Latest, cursor' = c, Below(c + 1),
         s.at = "fetch" => s.synced <= Latest /\ Below(s.synced + 1),
         s.at = "store" => s.from <= Latest + 1 /\ Below(s.from) /\ s.to <= Latest
  PROVE  IInv' /\ UNCHANGED Follower!vars
<1>1. Blocks' = Blocks /\ Latest' = Latest /\ Logged' = Logged
  BY DEF Blocks, Latest, Logged
<1>2. \A n : Below(n)' <=> Below(n)
  BY <1>1 DEF Below
<1>3. SyncTyped'
  BY <1>1 DEF IInv, SyncTyped
<1>4. InOrder'
  BY DEF IInv, InOrder
<1>5. CursorSafe'
  <2>1. Latest \in Nat /\ Blocks = 1..Latest
    BY LogLength DEF IInv, SyncTyped, Blocks, Latest
  <2>2. \A b \in Blocks : b < c + 1 => b \in applied
    BY DEF Below
  <2>3. \A b \in Blocks : b <= c => b \in applied
    BY <2>1, <2>2
  <2>4. applied' = applied
    OBVIOUS
  <2> QED BY <1>1, <2>3, <2>4 DEF CursorSafe
<1>6. \A x \in Syncers : syncer'[x] = IF x = w THEN s ELSE syncer[x]
  BY DEF IInv, SyncTyped
<1>7. RangesSafe'
  BY <1>1, <1>2, <1>6 DEF IInv, RangesSafe
<1> QED BY <1>3, <1>4, <1>5, <1>7 DEF IInv, Follower!vars

-----------------------------------------------------------------------------
(* The range that is asked for starts right after the cursor that was read  *)
(* and ends at or below the last block.                                     *)
LEMMA RangeBounds ==
  ASSUME Latest \in Nat, NEW synced \in 0..Latest
  PROVE  /\ FromBlock(synced) \in 0..(synced + 1)
         /\ ToBlock(FromBlock(synced)) \in 0..Latest
BY SyncAssumption DEF FromBlock, ToBlock

LEMMA ReadStatusSafe ==
  ASSUME IInv, NEW w \in Syncers, ReadStatus(w)
  PROVE  IInv' /\ UNCHANGED Follower!vars
<1> DEFINE s == [at |-> "fetch", synced |-> cursor]
<1>1. Latest \in Nat /\ Blocks = 1..Latest
  BY LogLength DEF IInv, SyncTyped, Blocks, Latest
<1>2. /\ UNCHANGED <<log, applied>> /\ cursor' = cursor
      /\ syncer' = [syncer EXCEPT ![w] = s]
  BY DEF ReadStatus, chain, database
<1>3. s \in SyncerState /\ s.at = "fetch" /\ s.synced = cursor
  BY <1>1 DEF IInv, SyncTyped, SyncerState
<1>4. cursor \in 0..Latest /\ Below(cursor + 1)
  BY <1>1 DEF IInv, SyncTyped, CursorSafe, Below
<1>5. s.at # "store" /\ s.synced <= Latest /\ Below(s.synced + 1)
  BY <1>1, <1>3, <1>4
<1>6. cursor' \in 0..Latest /\ Below(cursor' + 1)
  BY <1>2, <1>4
<1> HIDE DEF s
<1> QED BY <1>2, <1>3, <1>5, <1>6, SyncerMoves

LEMMA SyncRangeSafe ==
  ASSUME IInv, NEW w \in Syncers, SyncRange(w)
  PROVE  IInv' /\ UNCHANGED Follower!vars
<1> DEFINE from == FromBlock(syncer[w].synced)
           s == [at |-> "store", from |-> from, to |-> ToBlock(from)]
<1>1. Latest \in Nat /\ Blocks = 1..Latest
  BY LogLength DEF IInv, SyncTyped, Blocks, Latest
<1>2. /\ UNCHANGED <<log, applied>> /\ cursor' = cursor
      /\ syncer[w].at = "fetch"
      /\ syncer' = [syncer EXCEPT ![w] = s]
  BY DEF SyncRange, chain, database
<1>3. syncer[w].synced \in 0..Latest /\ Below(syncer[w].synced + 1)
  BY <1>1, <1>2 DEF IInv, SyncTyped, SyncerState, RangesSafe
<1>4. from \in 0..(syncer[w].synced + 1) /\ ToBlock(from) \in 0..Latest
  BY <1>1, <1>3, RangeBounds
<1> HIDE DEF from
<1>5. s \in SyncerState /\ s.at = "store" /\ s.from = from /\ s.to = ToBlock(from)
  BY <1>1, <1>3, <1>4 DEF SyncerState
<1> HIDE DEF s
<1>6. s.from <= Latest + 1 /\ s.to <= Latest
  BY <1>1, <1>3, <1>4, <1>5
<1>7. Below(s.from)
  BY <1>1, <1>3, <1>4, <1>5 DEF Below
<1>8. cursor \in 0..Latest /\ Below(cursor + 1)
  BY <1>1 DEF IInv, SyncTyped, CursorSafe, Below
<1> QED BY <1>2, <1>5, <1>6, <1>7, <1>8, SyncerMoves

LEMMA SyncRangeFailsSafe ==
  ASSUME IInv, NEW w \in Syncers, SyncRangeFails(w)
  PROVE  IInv' /\ UNCHANGED Follower!vars
<1>1. Latest \in Nat /\ Blocks = 1..Latest
  BY LogLength DEF IInv, SyncTyped, Blocks, Latest
<1>2. /\ UNCHANGED <<log, applied>> /\ cursor' = syncer[w].synced
      /\ syncer[w].at = "fetch"
      /\ syncer' = [syncer EXCEPT ![w] = Idle]
  BY DEF SyncRangeFails, chain
<1>3. syncer[w].synced \in 0..Latest /\ Below(syncer[w].synced + 1)
  BY <1>1, <1>2 DEF IInv, SyncTyped, SyncerState, RangesSafe
<1>4. Idle \in SyncerState /\ Idle.at = "idle"
  BY DEF Idle, SyncerState
<1> QED BY <1>2, <1>3, <1>4, SyncerMoves

LEMMA StoreRefusedSafe ==
  ASSUME IInv, NEW w \in Syncers, StoreRefused(w)
  PROVE  IInv' /\ UNCHANGED Follower!vars
<1>1. Latest \in Nat /\ Blocks = 1..Latest
  BY LogLength DEF IInv, SyncTyped, Blocks, Latest
<1>2. /\ UNCHANGED <<log, applied>> /\ cursor' = cursor
      /\ syncer' = [syncer EXCEPT ![w] = Idle]
  BY DEF StoreRefused, chain, database
<1>3. cursor \in 0..Latest /\ Below(cursor + 1)
  BY <1>1 DEF IInv, SyncTyped, CursorSafe, Below
<1>4. Idle \in SyncerState /\ Idle.at = "idle"
  BY DEF Idle, SyncerState
<1> QED BY <1>2, <1>3, <1>4, SyncerMoves

LEMMA CrashSafe ==
  ASSUME IInv, Crash
  PROVE  IInv' /\ UNCHANGED Follower!vars
<1>1. /\ UNCHANGED <<log, cursor, applied>>
      /\ syncer' = [w \in Syncers |-> Idle]
  BY DEF Crash, chain, database
<1>2. Blocks' = Blocks /\ Latest' = Latest /\ Logged' = Logged
  BY <1>1 DEF Blocks, Latest, Logged
<1>3. SyncTyped'
  BY <1>1, <1>2 DEF IInv, SyncTyped, Idle, SyncerState
<1>4. InOrder' /\ CursorSafe'
  BY <1>1, <1>2 DEF IInv, InOrder, CursorSafe
<1>5. RangesSafe'
  BY <1>1 DEF RangesSafe, Idle
<1> QED BY <1>1, <1>3, <1>4, <1>5 DEF IInv, Follower!vars

(* The step that matters: a batch that was asked for some time ago is       *)
(* stored.  What lies below it is applied by now, and perhaps some of the   *)
(* batch and what lies above it; either the batch adds nothing, or the      *)
(* applied blocks are afterwards exactly those up to its end.               *)
LEMMA StoreSafe ==
  ASSUME IInv, NEW w \in Syncers, StoreChainEvents(w)
  PROVE  IInv' /\ (Follower!Follow \/ UNCHANGED Follower!vars)
<1> DEFINE from == syncer[w].from
           to == syncer[w].to
<1>1. Latest \in Nat /\ Blocks = 1..Latest /\ DOMAIN log = Blocks
  BY LogLength DEF IInv, SyncTyped, Blocks, Latest
<1>2. /\ log' = log /\ cursor' = to
      /\ syncer[w].at = "store"
      /\ applied' = applied \cup Batch(from, to)
      /\ syncer' = [syncer EXCEPT ![w] = Idle]
  BY DEF StoreChainEvents, chain
<1>3. from \in Nat /\ to \in 0..Latest /\ Below(from)
  BY <1>1, <1>2 DEF IInv, SyncTyped, SyncerState, RangesSafe
<1>4. Blocks' = Blocks /\ Latest' = Latest /\ Logged' = Logged
  BY <1>2 DEF Blocks, Latest, Logged
<1> HIDE DEF from, to
<1>5. applied \subseteq Blocks /\ InOrder
  BY DEF IInv, SyncTyped
<1>6. \A b \in Blocks : b <= to => b \in applied'
  BY <1>1, <1>2, <1>3 DEF Below, Batch
<1>7. \A b \in applied' : b \in applied \/ b <= to
  BY <1>2 DEF Batch
<1>8. applied \subseteq applied' /\ applied' \subseteq Blocks
  BY <1>2, <1>5 DEF Batch
<1>9. SyncTyped'
  <2>1. Idle \in SyncerState
    BY DEF Idle, SyncerState
  <2> QED BY <2>1, <1>2, <1>3, <1>4, <1>8 DEF IInv, SyncTyped
<1>10. InOrder'
  <2> SUFFICES ASSUME NEW b \in applied', NEW a \in 1..b PROVE a \in applied'
    BY DEF InOrder
  <2>1. CASE b \in applied
    BY <2>1, <1>5, <1>8 DEF InOrder
  <2>2. CASE b <= to
    BY <2>2, <1>1, <1>3, <1>6, <1>8
  <2> QED BY <2>1, <2>2, <1>7
<1>11. CursorSafe'
  BY <1>2, <1>4, <1>6 DEF CursorSafe
<1>12. \A n : Below(n) => Below(n)'
  BY <1>4, <1>8 DEF Below
<1>13. RangesSafe'
  <2>1. \A x \in Syncers : syncer'[x] = IF x = w THEN Idle ELSE syncer[x]
    BY <1>2 DEF IInv, SyncTyped
  <2>2. Idle.at = "idle"
    BY DEF Idle
  <2> QED BY <2>1, <2>2, <1>4, <1>12 DEF IInv, RangesSafe
<1>14. CASE to \in Blocks \ applied
  <2>1. \A b \in applied : b <= to
    BY <1>14, <1>1, <1>5 DEF InOrder
  <2>2. applied' = 1..to
    <3>1. ASSUME NEW b \in applied' PROVE b \in 1..to
      <4>1. b \in 1..Latest /\ b <= to
        BY <2>1, <1>1, <1>7, <1>8
      <4> QED BY <4>1, <1>3
    <3>2. ASSUME NEW b \in 1..to PROVE b \in applied'
      <4>1. b \in Blocks /\ b <= to
        BY <1>1, <1>3
      <4> QED BY <4>1, <1>6
    <3> QED BY <3>1, <3>2
  <2>3. Follower!Follow
    BY <2>2, <1>14, <1>1, <1>2 DEF Follower!Follow
  <2> QED BY <2>3, <1>9, <1>10, <1>11, <1>13 DEF IInv
<1>15. CASE to \notin Blocks \ applied
  <2>1. \A b \in Blocks : b <= to => b \in applied
    BY <1>15, <1>1, <1>3, <1>5 DEF InOrder
  <2>2. applied' = applied
    BY <2>1, <1>7, <1>8
  <2> QED BY <2>2, <1>2, <1>9, <1>10, <1>11, <1>13 DEF IInv, Follower!vars
<1> QED BY <1>14, <1>15

-----------------------------------------------------------------------------
(* One step: the chain mines, a batch is stored, or nothing is seen of it.  *)
LEMMA ChainStepSafe ==
  ASSUME IInv, NEW r \in Rounds, ChainStep(r)
  PROVE  IInv' /\ [Follower!Next]_(Follower!vars)
<1>1. CASE DeadlinePasses(r)
  BY <1>1, NothingMoves DEF DeadlinePasses, database
<1>2. CASE \E events : Emit(events)
  BY <1>2, EmitKeeps DEF Follower!Next
<1>3. CreateProposal(r) => \E events : Emit(events)
  BY DEF CreateProposal
<1>4. FinalizeVote(r) => \E events : Emit(events)
  BY DEF FinalizeVote
<1>5. SettleProposal(r) => \E events : Emit(events)
  BY DEF SettleProposal
<1>6. ASSUME NEW m \in Members
      PROVE  /\ \A x \in Merchants : AddOption(r, x, m) => \E events : Emit(events)
             /\ \A i \in DOMAIN contract[r].options, n \in Amounts :
                  Vote(r, i, m, n) => \E events : Emit(events)
             /\ \A b \in Baskets : PlaceOrder(r, m, b) => \E events : Emit(events)
             /\ CancelOrder(r, m) => \E events : Emit(events)
  BY DEF AddOption, Vote, PlaceOrder, CancelOrder
<1> QED BY <1>1, <1>2, <1>3, <1>4, <1>5, <1>6 DEF ChainStep

LEMMA LocalStepSafe ==
  ASSUME IInv, NEW r \in Rounds, LocalStep(r)
  PROVE  IInv' /\ UNCHANGED Follower!vars
<1>1. ASSUME NEW row, SetRow(r, row)
      PROVE  IInv' /\ UNCHANGED Follower!vars
  BY <1>1, NothingMoves DEF SetRow, chain
<1>2. LocalStep(r) => \E row : SetRow(r, row)
  BY DEF LocalStep, LinkProposalChain, DeleteProposalRound, RefreshProposalState,
         InsertProposalOption, LinkProposalOptionChain, RecordVote
<1> QED BY <1>1, <1>2

LEMMA StepSafe ==
  ASSUME IInv, [Next]_vars
  PROVE  IInv' /\ [Follower!Next]_(Follower!vars)
<1>1. CASE \E r \in Rounds : ChainStep(r)
  BY <1>1, ChainStepSafe
<1>2. CASE \E r \in Rounds : LocalStep(r)
  BY <1>2, LocalStepSafe
<1>3. CASE \E w \in Syncers : SyncStep(w) \/ SyncRangeFails(w)
  BY <1>3, ReadStatusSafe, SyncRangeSafe, SyncRangeFailsSafe, StoreSafe, StoreRefusedSafe
     DEF SyncStep, Follower!Next
<1>4. CASE Crash
  BY <1>4, CrashSafe
<1>5. CASE UNCHANGED vars
  BY <1>5, NothingMoves DEF vars, chain, database
<1> QED BY <1>1, <1>2, <1>3, <1>4, <1>5 DEF Next

(* What all of the theorems below rest on.                                  *)
LEMMA Invariance == Spec => []IInv
<1>1. Init => IInv
  BY InitIInv
<1>2. IInv /\ [Next]_vars => IInv'
  BY StepSafe
<1> QED BY <1>1, <1>2, PTL DEF Spec

(* No block at or below the cursor is ever left out, however many           *)
(* synchronisations overlap, fail and write their old cursor back           *)
(* (SyncChainOnStart, handleIndexerSync, StoreChainEvents).                 *)
THEOREM CursorIsSafe == Spec => []CursorSafe
<1>1. IInv => CursorSafe
  BY DEF IInv
<1> QED BY <1>1, Invariance, PTL

(* The blocks that were taken in are always the first ones of the chain:    *)
(* the marks, the cursor and the overlapping batches of StoreChainEvents    *)
(* implement a follower of the log that takes each block once, in order.    *)
THEOREM LogIsFollowed == Spec => FollowsTheLog
<1>1. Init => Follower!Init
  BY DEF Init, Follower!Init
<1>2. IInv /\ [Next]_vars => [Follower!Next]_(Follower!vars)
  BY StepSafe
<1> QED BY <1>1, <1>2, Invariance, PTL DEF Spec, FollowsTheLog, Follower!Spec

-----------------------------------------------------------------------------
(* What the two recursive functions of a store compute: f[n] are the tables *)
(* that the first n events, or blocks, may leave.                           *)

Results(S, e) == UNION {ApplyEvent(t, e) : t \in S}
ResultsOfAll(S, events) == UNION {ApplyAll(t, events) : t \in S}

AfterEvents(f, t, events, n) ==
  /\ f[0] = {t} /\ \A k \in 1..n : f[k] = Results(f[k - 1], events[k])

AfterBlocks(f, t, batch, n) ==
  /\ f[0] = {t}
  /\ \A k \in 1..n : f[k] = IF k \in batch THEN ResultsOfAll(f[k - 1], log[k]) ELSE f[k - 1]

LEMMA ApplyAllUnfolds ==
  ASSUME NEW t, NEW events, Len(events) \in Nat
  PROVE  \E f : AfterEvents(f, t, events, Len(events)) /\ ApplyAll(t, events) = f[Len(events)]
<1> DEFINE N == Len(events)
           Body(g) == [n \in 0..N |-> IF n = 0 THEN {t} ELSE Results(g[n - 1], events[n])]
           p == CHOOSE g : g = Body(g)
           G == {n \in 0..N : \E g : AfterEvents(g, t, events, n)}
<1>1. ApplyAll(t, events) = p[N]
  BY DEF ApplyAll, Results
<1>2. 0 \in G
  <2>1. AfterEvents([n \in {0} |-> {t}], t, events, 0)
    BY DEF AfterEvents
  <2> QED BY <2>1
<1>3. ASSUME NEW n \in 1..N, n - 1 \in G
      PROVE  n \in G
  <2>1. PICK g : AfterEvents(g, t, events, n - 1)
    BY <1>3
  <2> DEFINE h == [k \in 0..n |-> IF k = n THEN Results(g[n - 1], events[n]) ELSE g[k]]
  <2>2. h[0] = {t} /\ \A k \in 0..(n - 1) : h[k] = g[k]
    BY <2>1 DEF AfterEvents
  <2>3. h[n] = Results(g[n - 1], events[n])
    OBVIOUS
  <2>4. \A k \in 1..n : h[k] = Results(h[k - 1], events[k])
    <3> HIDE DEF h
    <3> SUFFICES ASSUME NEW k \in 1..n
                 PROVE  h[k] = Results(h[k - 1], events[k])
      OBVIOUS
    <3>1. k - 1 \in 0..(n - 1) /\ h[k - 1] = g[k - 1]
      BY <2>2
    <3>2. CASE k = n
      BY <2>3, <3>1, <3>2
    <3>3. CASE k # n
      <4>1. k \in 1..(n - 1) /\ k \in 0..(n - 1)
        BY <3>3
      <4> QED BY <2>1, <2>2, <3>1, <4>1 DEF AfterEvents
    <3> QED BY <3>2, <3>3
  <2>5. AfterEvents(h, t, events, n)
    <3> HIDE DEF h
    <3> QED BY <2>2, <2>4 DEF AfterEvents
  <2> QED BY <2>5
<1>4. N \in G
  <2> HIDE DEF G, N
  <2>1. N \in Nat
    BY DEF N
  <2>2. \A n \in 1..N : n - 1 \in G => n \in G
    BY <1>3
  <2>3. \A n \in 0..N : n \in G
    BY <1>2, <2>1, <2>2, UpTo
  <2> QED BY <2>1, <2>3
<1>5. PICK g : AfterEvents(g, t, events, N)
  BY <1>4
<1>6. \E h : h = Body(h)
  <2> DEFINE h == [n \in 0..N |-> g[n]]
  <2>1. \A n \in 0..N : h[n] = IF n = 0 THEN {t} ELSE Results(h[n - 1], events[n])
    <3> SUFFICES ASSUME NEW n \in 0..N, n # 0
                 PROVE  h[n] = Results(h[n - 1], events[n])
      BY <1>5 DEF AfterEvents
    <3>1. n \in 1..N /\ n - 1 \in 0..N /\ h[n - 1] = g[n - 1]
      OBVIOUS
    <3> QED BY <1>5, <3>1 DEF AfterEvents
  <2>2. h = Body(h)
    <3>1. Body(h) = [n \in 0..N |-> h[n]]
      BY <2>1
    <3> QED BY <3>1
  <2> QED BY <2>2
<1>7. p = Body(p)
  <2> HIDE DEF Body
  <2> QED BY <1>6
<1>8. \A n \in 0..N : p[n] = IF n = 0 THEN {t} ELSE Results(p[n - 1], events[n])
  <2> HIDE DEF p
  <2> QED BY <1>7
<1>9. AfterEvents(p, t, events, N)
  <2> HIDE DEF p
  <2>1. \A n \in 1..N : n \in 0..N /\ n # 0
    OBVIOUS
  <2> QED BY <1>8, <2>1 DEF AfterEvents
<1> QED BY <1>1, <1>9

LEMMA ApplyBlocksUnfolds ==
  ASSUME NEW batch, Latest \in Nat
  PROVE  \E f : AfterBlocks(f, tables, batch, Latest) /\ ApplyBlocks(batch) = f[Latest]
<1> DEFINE N == Latest
           Next1(S, n) == IF n \in batch THEN ResultsOfAll(S, log[n]) ELSE S
           Body(g) == [n \in 0..N |-> IF n = 0 THEN {tables} ELSE Next1(g[n - 1], n)]
           p == CHOOSE g : g = Body(g)
           G == {n \in 0..N : \E g : AfterBlocks(g, tables, batch, n)}
<1>1. ApplyBlocks(batch) = p[N]
  <2>1. \A g : Body(g) = [b \in 0..Latest |->
                 IF b = 0 THEN {tables}
                 ELSE IF b \in batch THEN UNION {ApplyAll(t, log[b]) : t \in g[b - 1]}
                 ELSE g[b - 1]]
    BY DEF ResultsOfAll
  <2> QED BY <2>1 DEF ApplyBlocks, ResultsOfAll
<1>2. 0 \in G
  <2>1. AfterBlocks([n \in {0} |-> {tables}], tables, batch, 0)
    BY DEF AfterBlocks
  <2> QED BY <2>1
<1>3. ASSUME NEW n \in 1..N, n - 1 \in G
      PROVE  n \in G
  <2>1. PICK g : AfterBlocks(g, tables, batch, n - 1)
    BY <1>3
  <2> DEFINE h == [k \in 0..n |-> IF k = n THEN Next1(g[n - 1], n) ELSE g[k]]
  <2>2. h[0] = {tables} /\ \A k \in 0..(n - 1) : h[k] = g[k]
    BY <2>1 DEF AfterBlocks
  <2>3. h[n] = Next1(g[n - 1], n)
    OBVIOUS
  <2>4. \A k \in 1..n : h[k] = Next1(h[k - 1], k)
    <3> HIDE DEF h
    <3> SUFFICES ASSUME NEW k \in 1..n
                 PROVE  h[k] = Next1(h[k - 1], k)
      OBVIOUS
    <3>1. k - 1 \in 0..(n - 1) /\ h[k - 1] = g[k - 1]
      BY <2>2
    <3>2. CASE k = n
      BY <2>3, <3>1, <3>2
    <3>3. CASE k # n
      <4>1. k \in 1..(n - 1) /\ k \in 0..(n - 1)
        BY <3>3
      <4> QED BY <2>1, <2>2, <3>1, <4>1 DEF AfterBlocks
    <3> QED BY <3>2, <3>3
  <2>5. AfterBlocks(h, tables, batch, n)
    <3> HIDE DEF h
    <3> QED BY <2>2, <2>4 DEF AfterBlocks
  <2> QED BY <2>5
<1>4. N \in G
  <2> HIDE DEF G, N
  <2>1. N \in Nat
    BY DEF N
  <2>2. \A n \in 1..N : n - 1 \in G => n \in G
    BY <1>3
  <2>3. \A n \in 0..N : n \in G
    BY <1>2, <2>1, <2>2, UpTo
  <2> QED BY <2>1, <2>3
<1>5. PICK g : AfterBlocks(g, tables, batch, N)
  BY <1>4
<1>6. \E h : h = Body(h)
  <2> DEFINE h == [n \in 0..N |-> g[n]]
  <2>1. \A n \in 0..N : h[n] = IF n = 0 THEN {tables} ELSE Next1(h[n - 1], n)
    <3> SUFFICES ASSUME NEW n \in 0..N, n # 0
                 PROVE  h[n] = Next1(h[n - 1], n)
      BY <1>5 DEF AfterBlocks
    <3>1. n \in 1..N /\ n - 1 \in 0..N /\ h[n - 1] = g[n - 1]
      OBVIOUS
    <3> QED BY <1>5, <3>1 DEF AfterBlocks
  <2>2. h = Body(h)
    <3>1. Body(h) = [n \in 0..N |-> h[n]]
      BY <2>1
    <3> QED BY <3>1
  <2> QED BY <2>2
<1>7. p = Body(p)
  <2> HIDE DEF Body
  <2> QED BY <1>6
<1>8. \A n \in 0..N : p[n] = IF n = 0 THEN {tables} ELSE Next1(p[n - 1], n)
  <2> HIDE DEF p, Next1
  <2> QED BY <1>7
<1>9. AfterBlocks(p, tables, batch, N)
  <2> HIDE DEF p
  <2>1. \A n \in 1..N : n \in 0..N /\ n # 0
    OBVIOUS
  <2> QED BY <1>8, <2>1 DEF AfterBlocks
<1> QED BY <1>1, <1>9

-----------------------------------------------------------------------------
(* The rewards that events add up to.                                       *)

Rewards(e, m) == e.name = "RewardAllocated" /\ e.member = m
Rewarded(events, n, m) == {i \in 1..n : Rewards(events[i], m)}
CountRewards(events, m) == Cardinality(Rewarded(events, Len(events), m))

IsTables(t) == t = [rows |-> t.rows, rewards |-> t.rewards]
Ledger(t) == IsTables(t) /\ t.rewards \in [Members -> Int]
Payable(e) == e.name = "RewardAllocated" => e.member \in Members

LEMMA EventPays ==
  ASSUME NEW t, Ledger(t), NEW e, Payable(e), NEW u \in ApplyEvent(t, e)
  PROVE  /\ Ledger(u)
         /\ \A m \in Members :
              u.rewards[m] = t.rewards[m] + (IF Rewards(e, m) THEN 1 ELSE 0)
<1>1. CASE e.name = "RewardAllocated"
  <2>1. u = [t EXCEPT !.rewards[e.member] = @ + 1]
    BY <1>1 DEF ApplyEvent
  <2>2. e.member \in Members
    BY <1>1 DEF Payable
  <2>3. u.rewards = [t.rewards EXCEPT ![e.member] = @ + 1] /\ IsTables(u)
    BY <2>1 DEF Ledger, IsTables
  <2> QED BY <1>1, <2>2, <2>3 DEF Ledger, Rewards
<1>2. CASE e.name # "RewardAllocated"
  <2>1. \/ \E row : u = [t EXCEPT !.rows[e.round] = row]
        \/ u = [t EXCEPT !.rows[e.round].settled = TRUE]
    <3>1. CASE e.name = "ProposalSettled"
      BY <3>1 DEF ApplyEvent
    <3>2. CASE e.name # "ProposalSettled"
      <4>1. u \in {[t EXCEPT !.rows[e.round] = row] :
                     row \in ApplyToRow(EnsureProposal(t, e.round), e)}
        BY <1>2, <3>2 DEF ApplyEvent
      <4> QED BY <4>1
    <3> QED BY <3>1, <3>2
  <2>2. u.rewards = t.rewards /\ IsTables(u)
    BY <2>1 DEF Ledger, IsTables
  <2>3. \A m : ~Rewards(e, m)
    BY <1>2 DEF Rewards
  <2> QED BY <2>2, <2>3 DEF Ledger
<1> QED BY <1>1, <1>2

LEMMA OneRewardMore ==
  ASSUME NEW events, NEW n \in Nat \ {0}, NEW m
  PROVE  /\ Cardinality(Rewarded(events, n, m)) \in Nat
         /\ Cardinality(Rewarded(events, n - 1, m)) \in Nat
         /\ Cardinality(Rewarded(events, n, m)) =
              Cardinality(Rewarded(events, n - 1, m))
                + (IF Rewards(events[n], m) THEN 1 ELSE 0)
<1> DEFINE S == Rewarded(events, n - 1, m)
<1>1. IsFiniteSet(S) /\ n \notin S
  <2>1. IsFiniteSet(1..(n - 1))
    BY FS_Interval
  <2> QED BY <2>1, FS_Subset DEF Rewarded
<1>2. CASE Rewards(events[n], m)
  <2>1. Rewarded(events, n, m) = S \cup {n}
    BY <1>2 DEF Rewarded
  <2> HIDE DEF S
  <2>2. Cardinality(S \cup {n}) = Cardinality(S) + 1 /\ Cardinality(S) \in Nat
    BY <1>1, FS_AddElement, FS_CardinalityType
  <2> QED BY <1>2, <2>1, <2>2 DEF S
<1>3. CASE ~Rewards(events[n], m)
  <2>1. Rewarded(events, n, m) = S
    BY <1>3 DEF Rewarded
  <2> QED BY <1>1, <1>3, <2>1, FS_CardinalityType
<1> QED BY <1>2, <1>3

LEMMA BlockPays ==
  ASSUME NEW t, Ledger(t), NEW events, Len(events) \in Nat,
         \A i \in 1..Len(events) : Payable(events[i]), NEW u \in ApplyAll(t, events)
  PROVE  /\ Ledger(u)
         /\ \A m \in Members : u.rewards[m] = t.rewards[m] + CountRewards(events, m)
<1> DEFINE N == Len(events)
           Paid(n, v) == \A m \in Members : v.rewards[m]
                           = t.rewards[m] + Cardinality(Rewarded(events, n, m))
<1>1. PICK f : AfterEvents(f, t, events, N) /\ ApplyAll(t, events) = f[N]
  BY ApplyAllUnfolds
<1> DEFINE G == {n \in 0..N : \A v \in f[n] : Ledger(v) /\ Paid(n, v)}
<1>2. 0 \in G
  <2>1. \A m : Rewarded(events, 0, m) = {}
    BY DEF Rewarded
  <2>2. \A m : Cardinality(Rewarded(events, 0, m)) = 0
    BY <2>1, FS_EmptySet
  <2>3. Paid(0, t)
    BY <2>2 DEF Ledger
  <2> QED BY <1>1, <2>3 DEF AfterEvents
<1>3. ASSUME NEW n \in 1..N, n - 1 \in G
      PROVE  n \in G
  <2> SUFFICES ASSUME NEW v \in f[n]
               PROVE  Ledger(v) /\ Paid(n, v)
    OBVIOUS
  <2>1. v \in Results(f[n - 1], events[n])
    BY <1>1 DEF AfterEvents
  <2>2. PICK x \in f[n - 1] : v \in ApplyEvent(x, events[n])
    BY <2>1 DEF Results
  <2>3. Ledger(x) /\ Paid(n - 1, x)
    BY <1>3, <2>2
  <2> HIDE DEF G
  <2>4. /\ Ledger(v)
        /\ \A m \in Members :
             v.rewards[m] = x.rewards[m] + (IF Rewards(events[n], m) THEN 1 ELSE 0)
    BY <2>2, <2>3, EventPays
  <2>5. ASSUME NEW m \in Members
        PROVE  v.rewards[m] = t.rewards[m] + Cardinality(Rewarded(events, n, m))
    <3>1. /\ v.rewards[m] = x.rewards[m] + (IF Rewards(events[n], m) THEN 1 ELSE 0)
          /\ x.rewards[m] = t.rewards[m] + Cardinality(Rewarded(events, n - 1, m))
          /\ t.rewards[m] \in Int
      BY <2>3, <2>4 DEF Ledger
    <3>2. /\ Cardinality(Rewarded(events, n - 1, m)) \in Nat
          /\ Cardinality(Rewarded(events, n, m)) =
               Cardinality(Rewarded(events, n - 1, m))
                 + (IF Rewards(events[n], m) THEN 1 ELSE 0)
      BY OneRewardMore
    <3> QED BY <3>1, <3>2
  <2> QED BY <2>4, <2>5
<1>4. N \in G
  <2> HIDE DEF G
  <2>1. \A n \in 0..N : n \in G
    <3>1. \A n \in 1..N : n - 1 \in G => n \in G
      BY <1>3
    <3> HIDE DEF N
    <3>2. N \in Nat
      BY DEF N
    <3> QED BY <1>2, <3>1, <3>2, UpTo
  <2> QED BY <2>1
<1>5. Ledger(u) /\ Paid(N, u)
  BY <1>1, <1>4
<1> QED BY <1>5 DEF CountRewards

(* The rewards that the blocks in S add up to.                              *)
BlockRewards(m) == [b \in Blocks |-> CountRewards(log[b], m)]
RewardsIn(S, m) == SumFunctionOnSet(BlockRewards(m), S)

LogPays ==
  \A b \in Blocks : /\ Len(log[b]) \in Nat
                    /\ \A i \in 1..Len(log[b]) : Payable(log[b][i])

LEMMA CountIsNumber ==
  ASSUME NEW events, Len(events) \in Nat, NEW m
  PROVE  CountRewards(events, m) \in Nat
<1>1. IsFiniteSet(1..Len(events))
  BY FS_Interval
<1>2. IsFiniteSet(Rewarded(events, Len(events), m))
  BY <1>1, FS_Subset DEF Rewarded
<1> QED BY <1>2, FS_CardinalityType DEF CountRewards

LEMMA BlocksFinite ==
  ASSUME log \in Seq(Logged)
  PROVE  IsFiniteSet(Blocks)
BY LogLength, FS_Interval DEF Blocks

LEMMA BatchPays ==
  ASSUME log \in Seq(Logged), LogPays, Ledger(tables), NEW batch \in SUBSET Blocks,
         NEW u \in ApplyBlocks(batch)
  PROVE  /\ Ledger(u)
         /\ \A m \in Members : /\ u.rewards[m] = tables.rewards[m] + RewardsIn(batch, m)
                               /\ RewardsIn(batch, m) \in Int
<1> DEFINE N == Latest
           B(n) == batch \cap (1..n)
           Paid(n, v) == \A m \in Members : v.rewards[m] = tables.rewards[m] + RewardsIn(B(n), m)
<1>0. N \in Nat /\ Blocks = 1..N
  BY LogLength DEF Blocks, Latest
<1>1. PICK f : AfterBlocks(f, tables, batch, N) /\ ApplyBlocks(batch) = f[N]
  BY <1>0, ApplyBlocksUnfolds
<1> DEFINE G == {n \in 0..N : \A v \in f[n] : Ledger(v) /\ Paid(n, v)}
<1>2. \A m : IntValued(BlockRewards(m), Blocks)
  BY CountIsNumber DEF IntValued, BlockRewards, LogPays
<1>3. 0 \in G
  <2>1. B(0) = {}
    OBVIOUS
  <2>2. \A m : RewardsIn(B(0), m) = 0
    BY <2>1, SumEmpty DEF RewardsIn
  <2>3. Paid(0, tables)
    BY <2>2 DEF Ledger
  <2> QED BY <1>0, <1>1, <2>3 DEF AfterBlocks
<1>4. ASSUME NEW n \in 1..N, n - 1 \in G
      PROVE  n \in G
  <2>0. n \in 0..N
    BY <1>0
  <2> SUFFICES ASSUME NEW v \in f[n]
               PROVE  Ledger(v) /\ Paid(n, v)
    BY <2>0
  <2>1. \A x \in f[n - 1] : Ledger(x) /\ Paid(n - 1, x)
    BY <1>4
  <2> HIDE DEF G
  <2>2. CASE n \notin batch
    <3>1. f[n] = f[n - 1]
      BY <1>1, <2>2 DEF AfterBlocks
    <3>2. B(n) = B(n - 1)
      BY <1>0, <2>2
    <3> QED BY <2>1, <3>1, <3>2
  <2>3. CASE n \in batch
    <3>1. v \in ResultsOfAll(f[n - 1], log[n])
      BY <1>1, <2>3 DEF AfterBlocks
    <3>2. PICK x \in f[n - 1] : v \in ApplyAll(x, log[n])
      BY <3>1 DEF ResultsOfAll
    <3>3. n \in Blocks
      BY <2>3
    <3>4. /\ Ledger(v)
          /\ \A m \in Members : v.rewards[m] = x.rewards[m] + CountRewards(log[n], m)
      <4>1. Ledger(x) /\ Len(log[n]) \in Nat /\ \A i \in 1..Len(log[n]) : Payable(log[n][i])
        BY <2>1, <3>2, <3>3 DEF LogPays
      <4> QED BY <3>2, <4>1, BlockPays
    <3>5. ASSUME NEW m \in Members
          PROVE  v.rewards[m] = tables.rewards[m] + RewardsIn(B(n), m)
      <4>1. x.rewards[m] = tables.rewards[m] + RewardsIn(B(n - 1), m)
        BY <2>1, <3>2
      <4>2. B(n) = B(n - 1) \cup {n} /\ n \notin B(n - 1) /\ B(n) \in SUBSET Blocks
        BY <1>0, <2>3
      <4>3. IsFiniteSet(B(n)) /\ IsFiniteSet(B(n - 1)) /\ B(n - 1) \in SUBSET Blocks
        BY <4>2, BlocksFinite, FS_Subset
      <4>4. IntValued(BlockRewards(m), B(n)) /\ IntValued(BlockRewards(m), B(n - 1))
        BY <1>2, <4>2, <4>3 DEF IntValued
      <4>5. RewardsIn(B(n), m) = RewardsIn(B(n - 1), m) + BlockRewards(m)[n]
        <5> HIDE DEF B
        <5>1. SumFunctionOnSet(BlockRewards(m), B(n - 1) \cup {n})
                = SumFunctionOnSet(BlockRewards(m), B(n - 1)) + BlockRewards(m)[n]
          <6>1. IsFiniteSet(B(n - 1))
            BY <4>3
          <6>2. n \notin B(n - 1)
            BY <4>2
          <6>3. IntValued(BlockRewards(m), B(n - 1) \cup {n})
            BY <4>2, <4>4
          <6>4. \A b \in B(n - 1) : BlockRewards(m)[b] = BlockRewards(m)[b]
            OBVIOUS
          <6> QED BY <6>1, <6>2, <6>3, <6>4, SumOneMore, Zenon
        <5> QED BY <4>2, <5>1 DEF RewardsIn
      <4>6. BlockRewards(m)[n] = CountRewards(log[n], m) /\ CountRewards(log[n], m) \in Int
        BY <3>3, CountIsNumber DEF BlockRewards, LogPays
      <4>7. RewardsIn(B(n - 1), m) \in Int /\ tables.rewards[m] \in Int
        <5> HIDE DEF B
        <5> QED BY <4>3, <4>4, SumStep DEF RewardsIn, Ledger
      <4> HIDE DEF B
      <4> QED BY <3>4, <4>1, <4>5, <4>6, <4>7
    <3> QED BY <3>4, <3>5
  <2> QED BY <2>2, <2>3
<1>5. N \in G
  <2> HIDE DEF G, N
  <2>1. \A n \in 1..N : n - 1 \in G => n \in G
    BY <1>4
  <2>2. \A n \in 0..N : n \in G
    BY <1>0, <1>3, <2>1, UpTo
  <2> QED BY <1>0, <2>2
<1>6. Ledger(u) /\ Paid(N, u)
  BY <1>1, <1>5
<1>7. B(N) = batch
  BY <1>0
<1>8. \A m : RewardsIn(batch, m) \in Int
  <2>1. IsFiniteSet(batch)
    BY BlocksFinite, FS_Subset
  <2>2. \A m : IntValued(BlockRewards(m), batch)
    BY <1>2 DEF IntValued
  <2> QED BY <2>1, <2>2, SumStep DEF RewardsIn
<1> QED BY <1>6, <1>7, <1>8

-----------------------------------------------------------------------------
(* What the contract has allocated.                                         *)

Choice == [merchant: Merchants, proposer: Members, votes: Nat, shares: Nat]
IsContract(c) == c = [options |-> c.options, winner |-> c.winner, orders |-> c.orders,
                      settled |-> c.settled]

ContractOK ==
  /\ stage \in [Rounds -> 0..4]
  /\ contract = [r \in Rounds |-> contract[r]]
  /\ \A r \in Rounds :
       /\ IsContract(contract[r])
       /\ contract[r].options \in Seq(Choice) /\ Len(contract[r].options) <= MaxOptions
       /\ contract[r].settled \in BOOLEAN /\ (contract[r].settled => stage[r] = 4)
       /\ stage[r] <= 2 => contract[r].winner = 0

MineOf(c, m) == {i \in DOMAIN c.options : c.options[i].proposer = m}
Due(m) ==
  {x \in Rounds \X (1..MaxOptions) :
     contract[x[1]].settled /\ x[2] \in MineOf(contract[x[1]], m)}

RewardsInv ==
  /\ ContractOK /\ LogPays /\ Ledger(tables)
  /\ \A m \in Members : /\ tables.rewards[m] = RewardsIn(applied, m)
                        /\ RewardsIn(Blocks, m) = Cardinality(Due(m))

LEMMA DueFinite ==
  ASSUME NEW m
  PROVE  IsFiniteSet(Due(m)) /\ Cardinality(Due(m)) \in Nat
<1>1. IsFiniteSet(1..MaxOptions)
  BY SyncAssumption, FS_Interval
<1>2. IsFiniteSet(Rounds \X (1..MaxOptions))
  BY <1>1, SyncAssumption, FS_Product
<1>3. IsFiniteSet(Due(m))
  BY <1>2, FS_Subset DEF Due
<1> QED BY <1>3, FS_CardinalityType

(* The chain grows by a block that allocates what the contract does.        *)
LEMMA EmitPays ==
  ASSUME IInv, RewardsInv, NEW events, Emit(events), ContractOK',
         Len(events) \in Nat, \A i \in 1..Len(events) : Payable(events[i]),
         \A m \in Members :
           Cardinality(Due(m)') = Cardinality(Due(m)) + CountRewards(events, m)
  PROVE  RewardsInv'
<1> DEFINE n == Len(log) + 1
<1>1. /\ log' = Append(log, events) /\ applied' = applied /\ tables' = tables
  BY DEF Emit, database
<1>2. log \in Seq(Logged) /\ applied \subseteq Blocks
  BY DEF IInv, SyncTyped
<1>3. /\ Blocks = 1..Len(log) /\ Blocks' = Blocks \cup {n} /\ n \notin Blocks
      /\ log'[n] = events /\ Len(log) \in Nat
      /\ \A b \in Blocks : log'[b] = log[b]
  <2>1. /\ Len(log) \in Nat /\ DOMAIN log = 1..Len(log) /\ DOMAIN log' = 1..n /\ log'[n] = events
    BY <1>1, <1>2, LogGrows
  <2>2. \A b \in 1..Len(log) : log'[b] = log[b]
    BY <1>1, <1>2, AppendProperties
  <2> QED BY <2>1, <2>2 DEF Blocks
<1> HIDE DEF n
<1>4. LogPays'
  BY <1>3 DEF RewardsInv, LogPays
<1>5. Ledger(tables)'
  BY <1>1 DEF RewardsInv, Ledger, IsTables
<1>6. ASSUME NEW m \in Members
      PROVE  /\ RewardsIn(applied, m)' = RewardsIn(applied, m)
             /\ RewardsIn(Blocks, m)' = RewardsIn(Blocks, m) + CountRewards(events, m)
  <2> DEFINE f == BlockRewards(m)
             g == BlockRewards(m)'
  <2>1. /\ \A b \in Blocks : g[b] = f[b]
        /\ g[n] = CountRewards(events, m)
    BY <1>3 DEF BlockRewards
  <2>2. IntValued(f, Blocks) /\ IntValued(g, Blocks \cup {n})
    BY <1>3, <1>4, CountIsNumber DEF IntValued, BlockRewards, LogPays, RewardsInv
  <2>3. /\ RewardsIn(applied, m)' = SumFunctionOnSet(g, applied)
        /\ RewardsIn(Blocks, m)' = SumFunctionOnSet(g, Blocks \cup {n})
        /\ RewardsIn(applied, m) = SumFunctionOnSet(f, applied)
        /\ RewardsIn(Blocks, m) = SumFunctionOnSet(f, Blocks)
    BY <1>1, <1>3 DEF RewardsIn
  <2>4. IsFiniteSet(Blocks) /\ IsFiniteSet(applied)
    BY <1>2, BlocksFinite, FS_Subset
  <2> HIDE DEF f, g
  <2>5. SumFunctionOnSet(g, Blocks \cup {n}) = SumFunctionOnSet(f, Blocks) + g[n]
    <3> SUFFICES ASSUME NEW S, S = Blocks, NEW k, k = n, NEW p, p = f, NEW q, q = g
                 PROVE  SumFunctionOnSet(q, S \cup {k}) = SumFunctionOnSet(p, S) + q[k]
      OBVIOUS
    <3>1. IsFiniteSet(S)
      BY <2>4
    <3>2. k \notin S
      BY <1>3
    <3>3. IntValued(q, S \cup {k})
      BY <2>2
    <3>4. \A b \in S : q[b] = p[b]
      BY <2>1
    <3> QED BY ONLY <3>1, <3>2, <3>3, <3>4, SumOneMore
  <2>6. SumFunctionOnSet(f, applied) = SumFunctionOnSet(g, applied)
    <3>1. IntValued(f, applied) /\ \A b \in applied : f[b] = g[b]
      BY <1>2, <2>1, <2>2 DEF IntValued
    <3> QED BY <2>4, <3>1, SumAgree
  <2> QED BY <2>1, <2>3, <2>5, <2>6
<1>7. \A m \in Members : /\ tables'.rewards[m] = RewardsIn(applied, m)'
                         /\ RewardsIn(Blocks, m)' = Cardinality(Due(m)')
  BY <1>1, <1>6 DEF RewardsInv
<1> QED BY <1>4, <1>5, <1>7 DEF RewardsInv

(* A block of a single event that allocates nothing.                        *)
LEMMA PlainEvent ==
  ASSUME NEW e, e.name # "RewardAllocated"
  PROVE  /\ Len(<<e>>) = 1 /\ \A i \in 1..1 : Payable(<<e>>[i])
         /\ \A m : CountRewards(<<e>>, m) = 0
<1>1. Len(<<e>>) = 1 /\ <<e>>[1] = e
  OBVIOUS
<1>2. \A m : Rewarded(<<e>>, 1, m) = {}
  BY <1>1 DEF Rewarded, Rewards
<1> QED BY <1>1, <1>2, FS_EmptySet DEF CountRewards, Payable

(* A round c of the contract becomes d, which allocates nothing yet.        *)
LEMMA PlainStep ==
  ASSUME IInv, RewardsInv, NEW r \in Rounds, NEW e, e.name # "RewardAllocated", Emit(<<e>>),
         UNCHANGED stage, NEW d, contract' = [contract EXCEPT ![r] = d],
         IsContract(d), d.options \in Seq(Choice), Len(d.options) <= MaxOptions,
         d.settled = contract[r].settled, stage[r] > 2 \/ d.winner = contract[r].winner,
         d.settled => \A m : MineOf(d, m) = MineOf(contract[r], m)
  PROVE  RewardsInv'
<1>1. /\ \A x \in Rounds : contract'[x] = IF x = r THEN d ELSE contract[x]
      /\ contract' = [x \in Rounds |-> contract'[x]]
  BY DEF RewardsInv, ContractOK
<1>2. ContractOK'
  BY <1>1 DEF RewardsInv, ContractOK
<1>3. \A m : Due(m)' = Due(m)
  BY <1>1 DEF Due
<1>4. Len(<<e>>) \in Nat /\ \A i \in 1..Len(<<e>>) : Payable(<<e>>[i])
  BY PlainEvent
<1>5. ASSUME NEW m \in Members
      PROVE  Cardinality(Due(m)') = Cardinality(Due(m)) + CountRewards(<<e>>, m)
  BY <1>3, PlainEvent, DueFinite
<1> QED BY <1>2, <1>4, <1>5, EmitPays

LEMMA CreateProposalPays ==
  ASSUME IInv, RewardsInv, NEW r \in Rounds, CreateProposal(r)
  PROVE  RewardsInv'
<1> DEFINE e == [name |-> "ProposalCreated", round |-> r]
<1>1. Emit(<<e>>) /\ contract' = contract /\ stage' = [stage EXCEPT ![r] = 1] /\ stage[r] = 0
  BY DEF CreateProposal
<1>2. ContractOK'
  BY <1>1 DEF RewardsInv, ContractOK
<1>3. \A m : Due(m)' = Due(m)
  BY <1>1 DEF Due
<1>4. e.name # "RewardAllocated"
  OBVIOUS
<1> HIDE DEF e
<1>5. Len(<<e>>) \in Nat /\ \A i \in 1..Len(<<e>>) : Payable(<<e>>[i])
  BY <1>4, PlainEvent
<1>6. \A m \in Members : Cardinality(Due(m)') = Cardinality(Due(m)) + CountRewards(<<e>>, m)
  BY <1>3, <1>4, PlainEvent, DueFinite
<1> QED BY <1>1, <1>2, <1>5, <1>6, EmitPays

LEMMA WithOptionIsContract ==
  ASSUME NEW c, IsContract(c), NEW x, NEW m
  PROVE  /\ IsContract(WithOption(c, x, m))
         /\ WithOption(c, x, m).options
              = Append(c.options, [merchant |-> x, proposer |-> m, votes |-> 0, shares |-> 0])
         /\ WithOption(c, x, m).settled = c.settled
         /\ WithOption(c, x, m).orders = c.orders /\ WithOption(c, x, m).winner = c.winner
<1> SUFFICES ASSUME NEW os, os = Append(c.options, [merchant |-> x, proposer |-> m,
                                                    votes |-> 0, shares |-> 0])
             PROVE  LET d == [c EXCEPT !.options = os]
                    IN  /\ IsContract(d) /\ d.options = os /\ d.settled = c.settled
                        /\ d.orders = c.orders /\ d.winner = c.winner
  BY DEF WithOption
<1> QED BY ONLY IsContract(c) DEF IsContract

LEMMA ConvertedIsNumber ==
  ASSUME NEW n \in Nat
  PROVE  NormalizeTokenAmountValue(n) \in Nat
<1>1. CASE n >= Unit
  <2>1. n \div Unit \in Nat
    BY UnitAssumption
  <2> QED BY <1>1, <2>1 DEF NormalizeTokenAmountValue
<1>2. CASE ~(n >= Unit)
  BY <1>2 DEF NormalizeTokenAmountValue
<1> QED BY <1>1, <1>2

LEMMA VotedForIsChoice ==
  ASSUME NEW o \in Choice, NEW n \in Nat
  PROVE  /\ VotedFor(o, n) \in Choice
         /\ VotedFor(o, n).merchant = o.merchant /\ VotedFor(o, n).proposer = o.proposer
         /\ VotedFor(o, n).shares = o.shares + NormalizeTokenAmountValue(n)
<1>1. PICK k \in Nat : k = NormalizeTokenAmountValue(n)
  BY ConvertedIsNumber
<1>2. PICK x \in Merchants, m \in Members, v \in Nat, s \in Nat :
        o = [merchant |-> x, proposer |-> m, votes |-> v, shares |-> s]
  BY DEF Choice
<1>3. VotedFor(o, n) = [merchant |-> x, proposer |-> m, votes |-> v + n, shares |-> s + k]
  <2>1. o.votes = v /\ o.shares = s
    BY <1>2
  <2>2. PICK a, b : a = v + n /\ b = s + k
    OBVIOUS
  <2>3. VotedFor(o, n) = [o EXCEPT !.votes = a, !.shares = b]
    BY <1>1, <2>1, <2>2 DEF VotedFor
  <2> QED BY ONLY <1>2, <2>2, <2>3
<1>4. v + n \in Nat /\ s + k \in Nat
  BY <1>1, <1>2
<1> QED BY <1>1, <1>2, <1>3, <1>4 DEF Choice

LEMMA WithVoteIsContract ==
  ASSUME NEW c, IsContract(c), NEW i, NEW n
  PROVE  /\ IsContract(WithVote(c, i, n))
         /\ WithVote(c, i, n).options = [c.options EXCEPT ![i] = VotedFor(c.options[i], n)]
         /\ WithVote(c, i, n).settled = c.settled
         /\ WithVote(c, i, n).orders = c.orders /\ WithVote(c, i, n).winner = c.winner
<1> SUFFICES ASSUME NEW os, os = [c.options EXCEPT ![i] = VotedFor(c.options[i], n)]
             PROVE  LET d == [c EXCEPT !.options = os]
                    IN  /\ IsContract(d) /\ d.options = os /\ d.settled = c.settled
                        /\ d.orders = c.orders /\ d.winner = c.winner
  BY DEF WithVote
<1> QED BY ONLY IsContract(c) DEF IsContract

LEMMA WithVoteKeeps ==
  ASSUME NEW c, IsContract(c), NEW i, NEW n
  PROVE  /\ WithVote(c, i, n).winner = c.winner
         /\ WithVote(c, i, n).orders = c.orders
         /\ WithVote(c, i, n).settled = c.settled
BY DEF IsContract, WithVote

LEMMA WithWinnerIsContract ==
  ASSUME NEW c, IsContract(c)
  PROVE  /\ IsContract(WithWinner(c)) /\ WithWinner(c).options = c.options
         /\ WithWinner(c).settled = c.settled /\ WithWinner(c).orders = c.orders
         /\ WithWinner(c).winner = BestOption(c.options)
<1> SUFFICES ASSUME NEW b, b = BestOption(c.options)
             PROVE  LET d == [c EXCEPT !.winner = b]
                    IN  /\ IsContract(d) /\ d.options = c.options /\ d.settled = c.settled
                        /\ d.orders = c.orders /\ d.winner = b
  BY DEF WithWinner
<1> QED BY DEF IsContract

LEMMA WithOrdersIsContract ==
  ASSUME NEW c, IsContract(c), NEW ms
  PROVE  /\ IsContract(WithOrders(c, ms)) /\ WithOrders(c, ms).options = c.options
         /\ WithOrders(c, ms).settled = c.settled /\ WithOrders(c, ms).orders = ms
         /\ WithOrders(c, ms).winner = c.winner
BY DEF IsContract, WithOrders

LEMMA SettledIsContract ==
  ASSUME NEW c, IsContract(c)
  PROVE  /\ IsContract(Settled(c)) /\ Settled(c).options = c.options
         /\ Settled(c).settled = TRUE /\ Settled(c).orders = c.orders
         /\ Settled(c).winner = IF c.winner = 0 THEN BestOption(c.options) ELSE c.winner
<1> DEFINE w == IF c.winner = 0 THEN WithWinner(c) ELSE c
<1>1. /\ IsContract(w) /\ w.options = c.options /\ w.orders = c.orders
      /\ w.winner = IF c.winner = 0 THEN BestOption(c.options) ELSE c.winner
  BY WithWinnerIsContract
<1>2. Settled(c) = [w EXCEPT !.settled = TRUE]
  BY DEF Settled
<1> HIDE DEF w
<1> QED BY <1>1, <1>2 DEF IsContract

LEMMA AddOptionPays ==
  ASSUME IInv, RewardsInv, NEW r \in Rounds, NEW x \in Merchants, NEW m \in Members,
         AddOption(r, x, m)
  PROVE  RewardsInv'
<1> DEFINE c == contract[r]
           d == WithOption(c, x, m)
           o == [merchant |-> x, proposer |-> m, votes |-> 0, shares |-> 0]
           e == [name |-> "OptionAdded", round |-> r, index |-> Len(c.options), merchant |-> x]
<1>1. /\ stage[r] = 1 /\ Len(c.options) < MaxOptions
      /\ contract' = [contract EXCEPT ![r] = d] /\ Emit(<<e>>) /\ UNCHANGED stage
  BY DEF AddOption
<1>2. IsContract(c) /\ c.options \in Seq(Choice) /\ ~c.settled
  BY <1>1 DEF RewardsInv, ContractOK
<1>3. o \in Choice
  BY DEF Choice
<1>4. /\ IsContract(d) /\ d.options = Append(c.options, o) /\ d.settled = c.settled
      /\ d.winner = c.winner
  BY <1>2, WithOptionIsContract
<1>5. d.options \in Seq(Choice) /\ Len(d.options) <= MaxOptions
  <2>1. /\ d.options \in Seq(Choice) /\ Len(d.options) = Len(c.options) + 1
        /\ Len(c.options) \in Nat
    BY <1>2, <1>3, <1>4, AppendProperties, LenProperties
  <2> QED BY <1>1, <2>1, SyncAssumption
<1>6. e.name # "RewardAllocated"
  OBVIOUS
<1> HIDE DEF d, e
<1> QED BY <1>1, <1>2, <1>4, <1>5, <1>6, PlainStep

LEMMA VotePays ==
  ASSUME IInv, RewardsInv, NEW r \in Rounds, NEW m \in Members,
         NEW i \in DOMAIN contract[r].options, NEW n \in Amounts, Vote(r, i, m, n)
  PROVE  RewardsInv'
<1> DEFINE c == contract[r]
           d == WithVote(c, i, n)
           o == VotedFor(c.options[i], n)
           e == [name |-> "Voted", round |-> r, index |-> i - 1, member |-> m, weight |-> n]
<1>1. /\ stage[r] = 2 /\ contract' = [contract EXCEPT ![r] = d] /\ Emit(<<e>>) /\ UNCHANGED stage
  BY DEF Vote
<1>2. /\ IsContract(c) /\ c.options \in Seq(Choice) /\ ~c.settled
      /\ Len(c.options) <= MaxOptions
  BY <1>1 DEF RewardsInv, ContractOK
<1>3. i \in 1..Len(c.options) /\ c.options[i] \in Choice
  BY <1>2, LenProperties, ElementOfSeq
<1>4. o \in Choice
  BY <1>3, SyncAssumption, VotedForIsChoice
<1>5. /\ IsContract(d) /\ d.settled = c.settled /\ d.options = [c.options EXCEPT ![i] = o]
  BY <1>2, WithVoteIsContract
<1>5w. d.winner = c.winner
  BY <1>2, WithVoteIsContract
<1>6. d.options \in Seq(Choice) /\ Len(d.options) = Len(c.options)
  BY <1>2, <1>3, <1>4, <1>5, ExceptSeq
<1>7. e.name # "RewardAllocated"
  OBVIOUS
<1> HIDE DEF d, e
<1> QED BY <1>1, <1>2, <1>5, <1>5w, <1>6, <1>7, PlainStep

(* A winner or an order changes no option.                                  *)
LEMMA SameOptionsPay ==
  ASSUME IInv, RewardsInv, NEW r \in Rounds, NEW e, e.name # "RewardAllocated", Emit(<<e>>),
         UNCHANGED stage, NEW d, contract' = [contract EXCEPT ![r] = d],
         IsContract(d), d.options = contract[r].options, d.settled = contract[r].settled,
         stage[r] > 2
  PROVE  RewardsInv'
<1>1. d.options \in Seq(Choice) /\ Len(d.options) <= MaxOptions
  BY DEF RewardsInv, ContractOK
<1>2. \A m : MineOf(d, m) = MineOf(contract[r], m)
  BY DEF MineOf
<1> QED BY <1>1, <1>2, PlainStep

LEMMA FinalizeOrOrderPays ==
  ASSUME IInv, RewardsInv, NEW r \in Rounds, NEW m, NEW b,
         FinalizeVote(r) \/ PlaceOrder(r, m, b) \/ CancelOrder(r, m)
  PROVE  RewardsInv'
<1> DEFINE c == contract[r]
<1>1. IsContract(c)
  BY DEF RewardsInv, ContractOK
<1>2. PICK e, d : /\ e.name # "RewardAllocated" /\ Emit(<<e>>)
                  /\ contract' = [contract EXCEPT ![r] = d]
                  /\ d = WithWinner(c) \/ \E ms : d = WithOrders(c, ms)
  <2>1. CASE FinalizeVote(r)
    BY <2>1 DEF FinalizeVote, Finalized
  <2>2. CASE PlaceOrder(r, m, b)
    BY <2>2 DEF PlaceOrder
  <2>3. CASE CancelOrder(r, m)
    BY <2>3 DEF CancelOrder
  <2> QED BY <2>1, <2>2, <2>3
<1>3. IsContract(d) /\ d.options = c.options /\ d.settled = c.settled
  BY <1>1, <1>2, WithWinnerIsContract, WithOrdersIsContract
<1>4. UNCHANGED stage /\ stage[r] > 2
  BY DEF FinalizeVote, PlaceOrder, CancelOrder
<1> QED BY <1>2, <1>3, <1>4, SameOptionsPay

(* A set of numbers, each moved up by k, has as many elements.              *)
LEMMA Shifted ==
  ASSUME NEW S, IsFiniteSet(S), S \subseteq Nat, NEW k \in Nat
  PROVE  Cardinality({i + k : i \in S}) = Cardinality(S)
<1> DEFINE T == {i + k : i \in S}
           f == [i \in S |-> i + k]
<1>1. f \in Bijection(S, T)
  <2>1. f \in Injection(S, T)
    BY DEF Injection, IsInjective
  <2>2. f \in Surjection(S, T)
    BY DEF Surjection
  <2> QED BY <2>1, <2>2 DEF Bijection
<1>2. ExistsBijection(S, T)
  BY <1>1 DEF ExistsBijection
<1> HIDE DEF T
<1>3. Cardinality(T) = Cardinality(S)
  BY <1>2, FS_Bijection
<1> QED BY <1>3 DEF T

LEMMA ThreeParts ==
  ASSUME NEW S, NEW f \in Seq(S), NEW g \in Seq(S), NEW x \in S, NEW k, k = Len(f), NEW n, n = Len(g)
  PROVE  /\ k \in Nat /\ n \in Nat /\ Len(f \o g \o <<x>>) = k + n + 1
         /\ \A i \in 1..k : (f \o g \o <<x>>)[i] = f[i]
         /\ \A i \in 1..n : (f \o g \o <<x>>)[i + k] = g[i]
         /\ (f \o g \o <<x>>)[k + n + 1] = x
<1>1. k \in Nat /\ n \in Nat
  BY LenProperties
<1>2. PICK h : h = f \o g
  OBVIOUS
<1>3. /\ h \in Seq(S) /\ Len(h) = k + n
      /\ \A i \in 1..(k + n) : h[i] = IF i <= k THEN f[i] ELSE g[i - k]
  BY <1>2, ConcatProperties
<1>4. PICK e : e = f \o g \o <<x>>
  OBVIOUS
<1>5. e = Append(h, x)
  BY <1>2, <1>3, <1>4, AppendIsConcat
<1>6. /\ Len(e) = k + n + 1 /\ e[k + n + 1] = x
      /\ \A i \in 1..(k + n) : e[i] = h[i]
  <2>1. /\ Len(Append(h, x)) = Len(h) + 1 /\ Append(h, x)[Len(h) + 1] = x
        /\ \A i \in 1..Len(h) : Append(h, x)[i] = h[i]
    <3>1. h \in Seq(S) /\ x \in S
      BY <1>3
    <3> QED BY ONLY <3>1, AppendProperties
  <2> QED BY <1>3, <1>5, <2>1
<1>7. \A i \in 1..k : e[i] = f[i]
  BY <1>1, <1>3, <1>6
<1>8. \A i \in 1..n : e[i + k] = g[i]
  <2> SUFFICES ASSUME NEW i \in 1..n PROVE e[i + k] = g[i]
    OBVIOUS
  <2>1. i + k \in 1..(k + n) /\ ~(i + k <= k) /\ (i + k) - k = i
    BY <1>1
  <2> QED BY <1>3, <1>6, <2>1
<1> QED BY <1>1, <1>4, <1>6, <1>7, <1>8

(* The block of a settlement: perhaps the result of the vote, then a reward *)
(* for the proposer of each option, then the settlement itself.             *)
Settlement(c, events) ==
  \E first, last, f :
    /\ first.name # "RewardAllocated" /\ last.name # "RewardAllocated"
    /\ f = <<>> \/ f = <<first>>
    /\ events = f \o [i \in DOMAIN c.options |->
                         [name |-> "RewardAllocated", member |-> c.options[i].proposer]]
                  \o <<last>>

(* The same by position, with k = 1 if the vote is closed in it.            *)
Parts(c, first, last, events, k) ==
  /\ k \in {0, 1} /\ Len(events) = k + Len(c.options) + 1
  /\ k = 1 => events[1] = first
  /\ \A i \in 1..Len(c.options) : /\ events[i + k].name = "RewardAllocated"
                                  /\ events[i + k].member = c.options[i].proposer
  /\ events[k + Len(c.options) + 1] = last

LEMMA SettlementParts ==
  ASSUME NEW c, c.options \in Seq(Choice), NEW first, NEW last, NEW f,
         f = <<>> \/ f = <<first>>, NEW rewards,
         rewards = [i \in DOMAIN c.options |->
                      [name |-> "RewardAllocated", member |-> c.options[i].proposer]],
         NEW events, events = f \o rewards \o <<last>>
  PROVE  Parts(c, first, last, events, Len(f)) /\ (Len(f) = 0 <=> f = <<>>)
<1> DEFINE n == Len(c.options)
           k == Len(f)
           S == {first, last} \cup {rewards[i] : i \in 1..n}
<1>1. n \in Nat /\ DOMAIN c.options = 1..n
  BY LenProperties
<1>2. f \in Seq(S) /\ k \in {0, 1} /\ (k = 1 => f[1] = first) /\ (k = 0 <=> f = <<>>)
  <2>1. CASE f = <<>>
    BY <2>1, EmptySeq
  <2>2. CASE f = <<first>>
    <3>1. Len(<<first>>) = 1 /\ <<first>>[1] = first /\ <<first>> \in Seq({first})
      OBVIOUS
    <3>2. <<first>> \in Seq(S)
      <4>1. <<first>> \in [1..1 -> S]
        OBVIOUS
      <4> QED BY <4>1, SeqDef
    <3>3. Len(<<>>) = 0
      OBVIOUS
    <3> QED BY <2>2, <3>1, <3>2, <3>3
  <2> QED BY <2>1, <2>2
<1> HIDE DEF n
<1>3. rewards \in Seq(S) /\ Len(rewards) = n
  <2>1. rewards \in [1..n -> S] /\ DOMAIN rewards = 1..n
    BY <1>1
  <2> HIDE DEF S
  <2>2. rewards \in Seq(S)
    BY <1>1, <2>1, SeqDef
  <2>3. Len(rewards) \in Nat /\ 1..Len(rewards) = 1..n
    BY <2>1, <2>2, LenProperties
  <2> QED BY <1>1, <2>2, <2>3
<1>4. \A i \in 1..n : rewards[i].name = "RewardAllocated" /\ rewards[i].member = c.options[i].proposer
  BY <1>1
<1>5. last \in S
  OBVIOUS
<1> HIDE DEF S, k
<1>6. /\ Len(events) = k + n + 1
      /\ \A i \in 1..k : events[i] = f[i]
      /\ \A i \in 1..n : events[i + k] = rewards[i]
      /\ events[k + n + 1] = last
  <2>1. f \in Seq(S) /\ rewards \in Seq(S) /\ last \in S /\ k = Len(f) /\ n = Len(rewards)
    BY <1>2, <1>3, <1>5 DEF k
  <2>2. events = f \o rewards \o <<last>>
    OBVIOUS
  <2> QED BY ONLY <2>1, <2>2, ThreeParts
<1>7. k = 1 => events[1] = first
  BY <1>2, <1>6
<1>8. \A i \in 1..n : /\ events[i + k].name = "RewardAllocated"
                      /\ events[i + k].member = c.options[i].proposer
  BY <1>4, <1>6
<1>9. Parts(c, first, last, events, k)
  BY <1>2, <1>6, <1>7, <1>8 DEF Parts, n
<1> QED BY <1>2, <1>9 DEF k

LEMMA SettlementCounts ==
  ASSUME NEW c, c.options \in Seq(Choice), NEW events, Settlement(c, events)
  PROVE  /\ Len(events) \in Nat /\ \A i \in 1..Len(events) : Payable(events[i])
         /\ \A m : CountRewards(events, m) = Cardinality(MineOf(c, m))
<1> DEFINE n == Len(c.options)
<1>a. PICK rewards : rewards = [i \in DOMAIN c.options |->
                        [name |-> "RewardAllocated", member |-> c.options[i].proposer]]
  OBVIOUS
<1>b. PICK first, last, f :
        /\ first.name # "RewardAllocated" /\ last.name # "RewardAllocated"
        /\ f = <<>> \/ f = <<first>>
        /\ events = f \o rewards \o <<last>>
  BY <1>a DEF Settlement
<1>1. n \in Nat /\ DOMAIN c.options = 1..n /\ \A i \in 1..n : c.options[i].proposer \in Members
  <2>1. n \in Nat /\ DOMAIN c.options = 1..n /\ \A i \in 1..n : c.options[i] \in Choice
    BY LenProperties, ElementOfSeq
  <2> QED BY <2>1 DEF Choice
<1>2. PICK k : Parts(c, first, last, events, k)
  BY <1>a, <1>b, SettlementParts
<1>3. k \in {0, 1}
  BY <1>2 DEF Parts
<1>6. Len(events) = k + n + 1 /\ events[k + n + 1] = last
  BY <1>2 DEF Parts
<1>7. /\ k = 1 => events[1] = first
      /\ \A i \in 1..n : /\ events[i + k].name = "RewardAllocated"
                         /\ events[i + k].member = c.options[i].proposer
  BY <1>2 DEF Parts
<1> HIDE DEF n
<1>8. \A i \in 1..Len(events) :
        (i = 1 /\ k = 1) \/ (\E j \in 1..n : i = j + k) \/ i = k + n + 1
  <2> SUFFICES ASSUME NEW i \in 1..(k + n + 1), ~(i = 1 /\ k = 1), i # k + n + 1
               PROVE  \E j \in 1..n : i = j + k
    BY <1>6
  <2>1. i - k \in 1..n /\ i = (i - k) + k
    BY <1>1, <1>3
  <2> QED BY <2>1
<1>9. \A i \in 1..Len(events) : Payable(events[i])
  BY <1>b, <1>1, <1>6, <1>7, <1>8 DEF Payable
<1>10. ASSUME NEW m
       PROVE  CountRewards(events, m) = Cardinality(MineOf(c, m))
  <2>1. MineOf(c, m) \subseteq 1..n /\ IsFiniteSet(MineOf(c, m))
    <3>1. IsFiniteSet(1..n)
      BY <1>1, FS_Interval
    <3>2. MineOf(c, m) \subseteq 1..n
      BY <1>1 DEF MineOf
    <3> QED BY <3>1, <3>2, FS_Subset
  <2>2. Rewarded(events, Len(events), m) = {i + k : i \in MineOf(c, m)}
    <3>1. ASSUME NEW i \in Rewarded(events, Len(events), m)
          PROVE  i \in {j + k : j \in MineOf(c, m)}
      <4>1. i \in 1..Len(events) /\ events[i].name = "RewardAllocated" /\ events[i].member = m
        BY DEF Rewarded, Rewards
      <4>2. PICK j \in 1..n : i = j + k
        BY <1>b, <1>6, <1>7, <1>8, <4>1
      <4>3. c.options[j].proposer = m
        BY <1>7, <4>1, <4>2
      <4> QED BY <1>1, <4>2, <4>3 DEF MineOf
    <3>2. ASSUME NEW j \in MineOf(c, m)
          PROVE  j + k \in Rewarded(events, Len(events), m)
      <4>1. j \in 1..n /\ c.options[j].proposer = m
        BY <1>1 DEF MineOf
      <4>2. j + k \in 1..Len(events)
        BY <1>1, <1>3, <1>6, <4>1
      <4>3. events[j + k].name = "RewardAllocated" /\ events[j + k].member = m
        BY <1>7, <4>1
      <4> QED BY <4>2, <4>3 DEF Rewarded, Rewards
    <3> QED BY <3>1, <3>2
  <2>3. k \in Nat /\ MineOf(c, m) \subseteq Nat
    BY <1>1, <1>3, <2>1
  <2> QED BY <2>1, <2>2, <2>3, Shifted DEF CountRewards
<1>11. Len(events) \in Nat
  BY <1>1, <1>3, <1>6
<1> QED BY <1>9, <1>10, <1>11

(* What becomes due when a round is settled.                                *)
LEMMA SettledIsDue ==
  ASSUME RewardsInv, NEW r \in Rounds, ~contract[r].settled, NEW m,
         contract' = [contract EXCEPT ![r] = Settled(contract[r])]
  PROVE  Cardinality(Due(m)') = Cardinality(Due(m)) + Cardinality(MineOf(contract[r], m))
<1> DEFINE c == contract[r]
           New == {r} \X MineOf(c, m)
<1>1. /\ \A x \in Rounds : contract'[x] = IF x = r THEN Settled(c) ELSE contract[x]
      /\ IsContract(c) /\ c.options \in Seq(Choice) /\ Len(c.options) <= MaxOptions
  BY DEF RewardsInv, ContractOK
<1>2. Settled(c).options = c.options /\ Settled(c).settled
  BY <1>1, SettledIsContract
<1>3. MineOf(Settled(c), m) = MineOf(c, m)
  BY <1>2 DEF MineOf
<1>4. MineOf(c, m) \subseteq 1..MaxOptions /\ MineOf(c, m) \subseteq 1..Len(c.options)
  <2>1. DOMAIN c.options = 1..Len(c.options) /\ Len(c.options) \in Nat
    BY <1>1, LenProperties
  <2> QED BY <1>1, <2>1, SyncAssumption DEF MineOf
<1> HIDE DEF c
<1>5. Due(m)' = Due(m) \cup New
  BY <1>1, <1>2, <1>3, <1>4 DEF Due, c
<1>6. Due(m) \cap New = {}
  BY DEF Due, c
<1>7. IsFiniteSet(MineOf(c, m)) /\ IsFiniteSet(New)
      /\ Cardinality(New) = Cardinality(MineOf(c, m))
      /\ Cardinality(New) \in Nat
  <2>1. IsFiniteSet(1..MaxOptions)
    BY SyncAssumption, FS_Interval
  <2>2. IsFiniteSet(MineOf(c, m))
    BY <1>4, <2>1, FS_Subset
  <2>3. IsFiniteSet({r}) /\ Cardinality({r}) = 1
    BY FS_Singleton
  <2>4. IsFiniteSet(New) /\ Cardinality(New) = 1 * Cardinality(MineOf(c, m))
    BY <2>2, <2>3, FS_Product
  <2>5. Cardinality(MineOf(c, m)) \in Nat
    BY <2>2, FS_CardinalityType
  <2> QED BY <2>2, <2>4, <2>5
<1>8. IsFiniteSet(Due(m)) /\ Cardinality(Due(m)) \in Nat
  BY DueFinite
<1> HIDE DEF New
<1>9. Cardinality(Due(m) \cup New) = Cardinality(Due(m)) + Cardinality(New)
  <2>1. Cardinality(Due(m) \cup New)
          = Cardinality(Due(m)) + Cardinality(New) - Cardinality(Due(m) \cap New)
    BY <1>7, <1>8, FS_Union
  <2>2. Cardinality(Due(m) \cap New) = 0
    BY <1>6, FS_EmptySet
  <2> QED BY <1>7, <1>8, <2>1, <2>2
<1> QED BY <1>5, <1>7, <1>9 DEF c

LEMMA SettleProposalPays ==
  ASSUME IInv, RewardsInv, NEW r \in Rounds, SettleProposal(r)
  PROVE  RewardsInv'
<1> DEFINE c == contract[r]
           first == Finalized(r)
           finalize == IF c.winner = 0 THEN <<first>> ELSE <<>>
           rewards == [i \in DOMAIN c.options |->
                         [name |-> "RewardAllocated", member |-> c.options[i].proposer]]
           last == [name |-> "ProposalSettled", round |-> r]
           events == finalize \o rewards \o <<last>>
<1>1. /\ stage[r] = 4 /\ ~c.settled /\ Emit(events) /\ UNCHANGED stage
      /\ contract' = [contract EXCEPT ![r] = Settled(c)]
  BY DEF SettleProposal
<1>2. /\ IsContract(c) /\ c.options \in Seq(Choice) /\ Len(c.options) <= MaxOptions
      /\ contract = [x \in Rounds |-> contract[x]]
  BY DEF RewardsInv, ContractOK
<1>3. first.name # "RewardAllocated" /\ last.name # "RewardAllocated"
  BY DEF Finalized
<1>4. finalize = <<>> \/ finalize = <<first>>
  OBVIOUS
<1>5. \A x \in Rounds : contract'[x] = IF x = r THEN Settled(c) ELSE contract[x]
  BY <1>1, <1>2
<1>6. /\ IsContract(Settled(c)) /\ Settled(c).options = c.options
      /\ Settled(c).settled = TRUE
  BY <1>2, SettledIsContract
<1>7. ContractOK'
  <2>1. contract' = [x \in Rounds |-> contract'[x]]
    BY <1>1, <1>2
  <2> HIDE DEF c, events
  <2>2. \A x \in Rounds : stage[x] <= 2 => contract'[x].winner = 0
    BY <1>1, <1>2 DEF RewardsInv, ContractOK
  <2> QED BY <2>1, <2>2, <1>1, <1>2, <1>5, <1>6 DEF RewardsInv, ContractOK
<1>8. \A m : Cardinality(Due(m)') = Cardinality(Due(m)) + Cardinality(MineOf(c, m))
  BY <1>1, SettledIsDue
<1>9. /\ Len(events) \in Nat /\ \A i \in 1..Len(events) : Payable(events[i])
      /\ \A m : CountRewards(events, m) = Cardinality(MineOf(c, m))
  <2>1. Settlement(c, events)
    BY <1>3, <1>4 DEF Settlement
  <2> HIDE DEF events
  <2> QED BY <1>2, <2>1, SettlementCounts
<1> HIDE DEF c, events
<1>10. \A m \in Members :
         Cardinality(Due(m)') = Cardinality(Due(m)) + CountRewards(events, m)
  BY <1>8, <1>9
<1> QED BY <1>1, <1>7, <1>9, <1>10, EmitPays

(* The tables may change, their rewards and what is taken in may not.       *)
LEMMA RewardsStay ==
  ASSUME RewardsInv, UNCHANGED <<contract, log, applied>>, ContractOK',
         IsTables(tables'), tables'.rewards = tables.rewards
  PROVE  RewardsInv'
<1>1. LogPays'
  BY DEF RewardsInv, LogPays, Blocks
<1>2. \A S, m : RewardsIn(S, m)' = RewardsIn(S, m)
  BY DEF RewardsIn, BlockRewards, Blocks
<1>3. \A m : Due(m)' = Due(m)
  BY DEF Due
<1>4. Ledger(tables)'
  BY DEF RewardsInv, Ledger, IsTables
<1>5. Blocks' = Blocks
  BY DEF Blocks
<1>6. \A m \in Members : /\ tables'.rewards[m] = RewardsIn(applied, m)'
                         /\ RewardsIn(Blocks, m)' = Cardinality(Due(m)')
  BY <1>2, <1>3, <1>5 DEF RewardsInv
<1> QED BY <1>1, <1>4, <1>6 DEF RewardsInv

LEMMA DeadlinePays ==
  ASSUME RewardsInv, NEW r \in Rounds, DeadlinePasses(r)
  PROVE  RewardsInv'
<1>1. /\ UNCHANGED <<contract, log, applied, tables>> /\ stage[r] \in 1..3
      /\ stage' = [stage EXCEPT ![r] = @ + 1]
  BY DEF DeadlinePasses, database
<1>2. ContractOK'
  BY <1>1 DEF RewardsInv, ContractOK
<1>3. IsTables(tables)
  BY DEF RewardsInv, Ledger
<1> QED BY <1>1, <1>2, <1>3, RewardsStay DEF IsTables

LEMMA ChainStepPays ==
  ASSUME IInv, RewardsInv, NEW r \in Rounds, ChainStep(r)
  PROVE  RewardsInv'
<1>1. CASE CreateProposal(r)
  BY <1>1, CreateProposalPays
<1>2. CASE FinalizeVote(r)
  BY <1>2, FinalizeOrOrderPays
<1>3. CASE SettleProposal(r)
  BY <1>3, SettleProposalPays
<1>4. CASE DeadlinePasses(r)
  BY <1>4, DeadlinePays
<1>5. ASSUME NEW m \in Members, NEW x \in Merchants, AddOption(r, x, m)
      PROVE  RewardsInv'
  BY <1>5, AddOptionPays
<1>6. ASSUME NEW m \in Members, NEW i \in DOMAIN contract[r].options, NEW n \in Amounts,
             Vote(r, i, m, n)
      PROVE  RewardsInv'
  BY <1>6, VotePays
<1>7. ASSUME NEW m \in Members, NEW b, PlaceOrder(r, m, b) \/ CancelOrder(r, m)
      PROVE  RewardsInv'
  BY <1>7, FinalizeOrOrderPays
<1> QED BY <1>1, <1>2, <1>3, <1>4, <1>5, <1>6, <1>7 DEF ChainStep

LEMMA LocalStepPays ==
  ASSUME RewardsInv, NEW r \in Rounds, LocalStep(r)
  PROVE  RewardsInv'
<1>1. ASSUME NEW row, SetRow(r, row)
      PROVE  RewardsInv'
  <2>1. /\ UNCHANGED <<stage, contract, log, applied>>
        /\ tables' = [tables EXCEPT !.rows[r] = row]
    BY <1>1 DEF SetRow, chain
  <2>2. IsTables(tables)
    BY DEF RewardsInv, Ledger
  <2>3. IsTables(tables') /\ tables'.rewards = tables.rewards
    BY <2>1, <2>2 DEF IsTables
  <2>4. ContractOK'
    BY <2>1 DEF RewardsInv, ContractOK
  <2> QED BY <2>1, <2>3, <2>4, RewardsStay
<1>2. LocalStep(r) => \E row : SetRow(r, row)
  BY DEF LocalStep, LinkProposalChain, DeleteProposalRound, RefreshProposalState,
         InsertProposalOption, LinkProposalOptionChain, RecordVote
<1> QED BY <1>1, <1>2

(* A batch adds to the rewards what its blocks that were not yet marked     *)
(* allocate, so that all marked blocks are paid for, each once.             *)
LEMMA StorePays ==
  ASSUME IInv, RewardsInv, NEW w \in Syncers, StoreChainEvents(w)
  PROVE  RewardsInv'
<1> DEFINE batch == Batch(syncer[w].from, syncer[w].to)
           new == Unapplied(batch)
<1>1. /\ UNCHANGED <<stage, contract, log>> /\ applied' = applied \cup batch
      /\ \E t \in ApplyBlocks(new) : tables' = t
  BY DEF StoreChainEvents, chain
<1>2. /\ log \in Seq(Logged) /\ applied \subseteq Blocks
      /\ new \in SUBSET Blocks /\ applied' = applied \cup new /\ applied \cap new = {}
  BY <1>1 DEF IInv, SyncTyped, Batch, Unapplied
<1> HIDE DEF batch, new
<1>3. LogPays /\ Ledger(tables)
  BY DEF RewardsInv
<1>4. PICK u \in ApplyBlocks(new) : tables' = u
  BY <1>1
<1>5. /\ Ledger(u)
      /\ \A m \in Members : /\ u.rewards[m] = tables.rewards[m] + RewardsIn(new, m)
                            /\ RewardsIn(new, m) \in Int
  BY <1>2, <1>3, <1>4, BatchPays
<1>6. ASSUME NEW m \in Members
      PROVE  RewardsIn(applied \cup new, m) = RewardsIn(applied, m) + RewardsIn(new, m)
  <2>1. IntValued(BlockRewards(m), applied \cup new)
    BY <1>2, <1>3, CountIsNumber DEF IntValued, BlockRewards, LogPays
  <2>2. IsFiniteSet(applied) /\ IsFiniteSet(new)
    BY <1>2, BlocksFinite, FS_Subset
  <2>3. applied \cap new = {}
    BY <1>2
  <2> SUFFICES ASSUME NEW S, S = applied, NEW f, f = BlockRewards(m)
               PROVE  SumFunctionOnSet(f, S \cup new) = SumFunctionOnSet(f, S) + SumFunctionOnSet(f, new)
    BY DEF RewardsIn
  <2>4. IsFiniteSet(S) /\ IsFiniteSet(new) /\ S \cap new = {} /\ IntValued(f, S \cup new)
    BY <2>1, <2>2, <2>3
  <2> QED BY <2>4, SumApart
<1>7. \A S, m : RewardsIn(S, m)' = RewardsIn(S, m)
  BY <1>1 DEF RewardsIn, BlockRewards, Blocks
<1>8. ContractOK' /\ LogPays' /\ Blocks' = Blocks /\ \A m : Due(m)' = Due(m)
  BY <1>1 DEF RewardsInv, ContractOK, LogPays, Due, Blocks
<1>9. \A m \in Members : /\ tables'.rewards[m] = RewardsIn(applied, m)'
                         /\ RewardsIn(Blocks, m)' = Cardinality(Due(m)')
  BY <1>2, <1>4, <1>5, <1>6, <1>7, <1>8 DEF RewardsInv
<1>10. Ledger(tables)'
  BY <1>4, <1>5 DEF Ledger, IsTables
<1> QED BY <1>8, <1>9, <1>10 DEF RewardsInv

LEMMA InitPays == Init => RewardsInv
<1> SUFFICES ASSUME Init PROVE RewardsInv OBVIOUS
<1>1. /\ log = <<>> /\ applied = {} /\ stage = [r \in Rounds |-> 0]
      /\ contract = [r \in Rounds |-> NewRound]
      /\ tables = [rows |-> [r \in Rounds |-> NoRow], rewards |-> [m \in Members |-> 0]]
  BY DEF Init
<1>2. Blocks = {}
  BY <1>1 DEF Blocks
<1>3. /\ IsContract(NewRound) /\ NewRound.options \in Seq(Choice)
      /\ Len(NewRound.options) = 0 /\ NewRound.settled = FALSE
  BY EmptySeq DEF IsContract, NewRound
<1>4. ContractOK
  <2>1. Len(NewRound.options) <= MaxOptions
    BY <1>3, SyncAssumption
  <2>2. stage \in [Rounds -> 0..4] /\ \A r \in Rounds : contract[r] = NewRound
    BY <1>1
  <2>3. contract = [r \in Rounds |-> contract[r]]
    BY <1>1
  <2>4. NewRound.winner = 0
    BY DEF NewRound
  <2> QED BY <1>3, <2>1, <2>2, <2>3, <2>4 DEF ContractOK
<1>5. LogPays
  BY <1>2 DEF LogPays
<1>6. Ledger(tables)
  BY <1>1 DEF Ledger, IsTables
<1>7. \A m : Due(m) = {} /\ Cardinality(Due(m)) = 0
  BY <1>1, <1>3, FS_EmptySet DEF Due
<1>8. \A m : RewardsIn({}, m) = 0
  BY SumEmpty DEF RewardsIn
<1> QED BY <1>1, <1>2, <1>4, <1>5, <1>6, <1>7, <1>8 DEF RewardsInv

LEMMA StepPays ==
  ASSUME IInv, RewardsInv, [Next]_vars
  PROVE  RewardsInv'
<1>1. CASE \E r \in Rounds : ChainStep(r)
  BY <1>1, ChainStepPays
<1>2. CASE \E r \in Rounds : LocalStep(r)
  BY <1>2, LocalStepPays
<1>3. CASE \E w \in Syncers : StoreChainEvents(w)
  BY <1>3, StorePays
<1>4. CASE UNCHANGED <<stage, contract, log, applied, tables>>
  <2>1. ContractOK' /\ IsTables(tables')
    BY <1>4 DEF RewardsInv, ContractOK, Ledger, IsTables
  <2> QED BY <1>4, <2>1, RewardsStay
<1>5. ASSUME NEW w \in Syncers,
             ReadStatus(w) \/ SyncRange(w) \/ StoreRefused(w) \/ SyncRangeFails(w)
      PROVE  UNCHANGED <<stage, contract, log, applied, tables>>
  BY <1>5 DEF ReadStatus, SyncRange, StoreRefused, SyncRangeFails, chain, database
<1>6. CASE Crash \/ UNCHANGED vars
  BY <1>4, <1>6 DEF Crash, vars, chain, database
<1> QED BY <1>1, <1>2, <1>3, <1>4, <1>5, <1>6 DEF Next, SyncStep

(* The rewards credited to members are those that the blocks taken in      *)
(* allocate, and all blocks together allocate what the settled rounds of    *)
(* the contract owe to the proposers of their options: caught up, each has  *)
(* been credited once (applyChainEventTxGorm, StoreChainEvents).            *)
THEOREM RewardsAreOnce == Spec => []RewardsOnce
<1>1. Init => RewardsInv
  BY InitPays
<1>2. IInv /\ RewardsInv /\ [Next]_vars => RewardsInv'
  BY StepPays
<1>3. RewardsInv => RewardsOnce
  <2> SUFFICES ASSUME RewardsInv, CaughtUp, NEW m \in Members
               PROVE  tables.rewards[m] =
                 Cardinality({x \in Rounds \X (1..MaxOptions) :
                   /\ contract[x[1]].settled /\ x[2] \in DOMAIN contract[x[1]].options
                   /\ contract[x[1]].options[x[2]].proposer = m})
    BY DEF RewardsOnce
  <2>1. Due(m) = {x \in Rounds \X (1..MaxOptions) :
                    /\ contract[x[1]].settled /\ x[2] \in DOMAIN contract[x[1]].options
                    /\ contract[x[1]].options[x[2]].proposer = m}
    BY DEF Due, MineOf
  <2> QED BY <2>1 DEF RewardsInv, CaughtUp
<1> QED BY <1>1, <1>2, <1>3, Invariance, PTL DEF Spec

-----------------------------------------------------------------------------
(* What a row shows of a round of the contract.                             *)

Sound(c) == IsContract(c) /\ c.options \in Seq(Choice)

IsRow(row) ==
  row = [options |-> row.options, winner |-> row.winner, voters |-> row.voters,
         counted |-> row.counted, orders |-> row.orders, settled |-> row.settled,
         failed |-> row.failed, grouped |-> row.grouped]

Copies(c) ==
  [o \in 1..Len(c.options) |-> [merchant |-> c.options[o].merchant, index |-> o - 1,
                                weight |-> Shown(c, o)]]
Payers(row) == {x.member : x \in {y \in row.orders : y.paid}}

Shows(row, c) ==
  /\ IsRow(row) /\ row.options = Copies(c) /\ row.winner = c.winner
  /\ row.orders \subseteq Order /\ Payers(row) = c.orders
  /\ c.settled => row.settled
  /\ row.counted = 0 /\ row.grouped = FALSE

(* One event of a round changes c to d.                                     *)
Announces(e, c) ==
  LET i == BestOption(c.options) IN e.index = i - 1 /\ e.weight = c.options[i].votes

Changes(c, e, d) ==
  \/ /\ e.name = "OptionAdded" /\ e.index = Len(c.options) /\ e.merchant \in Merchants
     /\ c.winner = 0 /\ \E m \in Members : d = WithOption(c, e.merchant, m)
  \/ /\ e.name = "Voted" /\ c.winner = 0 /\ e.weight \in Nat
     /\ \E i \in DOMAIN c.options : e.index = i - 1 /\ d = WithVote(c, i, e.weight)
  \/ /\ e.name = "VoteFinalized" /\ c.winner = 0 /\ c.options # <<>>
     /\ Announces(e, c) /\ d = WithWinner(c)
  \/ /\ e.name = "OrderPlaced" /\ e.member \in Members /\ e.basket \in Baskets
     /\ d = WithOrders(c, c.orders \cup {e.member})
  \/ e.name = "OrderCancelled" /\ d = WithOrders(c, c.orders \ {e.member})

LEMMA RowIsThere ==
  ASSUME NEW row, IsRow(row)
  PROVE  row # NoRow
<1>1. "winner" \in DOMAIN row
  BY DEF IsRow
<1>2. "winner" \notin DOMAIN NoRow
  BY DEF NoRow
<1> QED BY <1>1, <1>2

LEMMA SoundTypes ==
  ASSUME NEW c, Sound(c)
  PROVE  /\ Len(c.options) \in Nat /\ DOMAIN c.options = 1..Len(c.options)
         /\ \A i \in 1..Len(c.options) : c.options[i] \in Choice /\ c.options[i].votes \in Nat
<1>1. Len(c.options) \in Nat /\ DOMAIN c.options = 1..Len(c.options)
  BY LenProperties DEF Sound
<1>2. \A i \in 1..Len(c.options) : c.options[i] \in Choice
  BY ElementOfSeq DEF Sound
<1> QED BY <1>1, <1>2 DEF Choice

(* The first of the options with most votes.                                *)
LEMMA BestOptionExists ==
  ASSUME NEW c, Sound(c), c.options # <<>>
  PROVE  BestOption(c.options) \in 1..Len(c.options)
<1> DEFINE D == DOMAIN c.options
           v(i) == c.options[i].votes
           R == {x \in D \X D : v(x[1]) > v(x[2]) \/ (v(x[1]) = v(x[2]) /\ x[1] <= x[2])}
<1>1. D = 1..Len(c.options) /\ Len(c.options) \in Nat /\ \A i \in D : v(i) \in Nat
  BY SoundTypes
<1>2. IsFiniteSet(D) /\ D # {}
  <2>1. Len(c.options) # 0
    BY EmptySeq, LenProperties DEF Sound
  <2>2. IsFiniteSet(1..Len(c.options)) /\ 1 \in 1..Len(c.options)
    BY <1>1, <2>1, FS_Interval
  <2> QED BY <1>1, <2>2
<1>3. \A i, j \in D : <<i, j>> \in R <=> v(i) > v(j) \/ (v(i) = v(j) /\ i <= j)
  OBVIOUS
<1>4. R \in SUBSET (D \X D)
  OBVIOUS
<1> HIDE DEF R, D, v
<1>5. \A i, j \in D : <<i, j>> \in R \/ <<j, i>> \in R
  <2> SUFFICES ASSUME NEW i \in D, NEW j \in D PROVE <<i, j>> \in R \/ <<j, i>> \in R
    OBVIOUS
  <2>1. v(i) \in Nat /\ v(j) \in Nat /\ i \in Nat /\ j \in Nat
    BY <1>1
  <2>2. (v(i) > v(j) \/ (v(i) = v(j) /\ i <= j)) \/ (v(j) > v(i) \/ (v(j) = v(i) /\ j <= i))
    BY <2>1
  <2> QED BY <1>3, <2>2
<1>6. \A i, j, k \in D : <<i, j>> \in R /\ <<j, k>> \in R => <<i, k>> \in R
  <2> SUFFICES ASSUME NEW i \in D, NEW j \in D, NEW k \in D, <<i, j>> \in R, <<j, k>> \in R
               PROVE  <<i, k>> \in R
    OBVIOUS
  <2>1. v(i) > v(j) \/ (v(i) = v(j) /\ i <= j)
    BY <1>3
  <2>2. v(j) > v(k) \/ (v(j) = v(k) /\ j <= k)
    BY <1>3
  <2>3. v(i) \in Nat /\ v(j) \in Nat /\ v(k) \in Nat /\ i \in Nat /\ j \in Nat /\ k \in Nat
    BY <1>1
  <2>4. v(i) > v(k) \/ (v(i) = v(k) /\ i <= k)
    BY <2>1, <2>2, <2>3
  <2> QED BY <1>3, <2>4
<1>7. PICK i \in D : \A j \in D : <<i, j>> \in R
  <2> SUFFICES ASSUME NEW S, S = D, NEW T, T = R PROVE \E i \in S : \A j \in S : <<i, j>> \in T
    OBVIOUS
  <2>1. IsFiniteSet(S) /\ S # {} /\ T \in SUBSET (S \X S)
    BY <1>2, <1>4
  <2>2. \A x, j \in S : <<x, j>> \in T \/ <<j, x>> \in T
    BY <1>5
  <2>3. \A x, j, k \in S : <<x, j>> \in T /\ <<j, k>> \in T => <<x, k>> \in T
    BY <1>6
  <2> QED BY ONLY <2>1, <2>2, <2>3, BestExists
<1>8. \A j \in D : v(j) <= v(i) /\ (j < i => v(j) < v(i))
  <2> SUFFICES ASSUME NEW j \in D PROVE v(j) <= v(i) /\ (j < i => v(j) < v(i))
    OBVIOUS
  <2>1. v(i) > v(j) \/ (v(i) = v(j) /\ i <= j)
    BY <1>3, <1>7
  <2> QED BY <1>1, <1>7, <2>1
<1>9. \E x \in DOMAIN c.options :
        \A j \in DOMAIN c.options : /\ c.options[j].votes <= c.options[x].votes
                                    /\ j < x => c.options[j].votes < c.options[x].votes
  BY <1>7, <1>8 DEF D, v
<1>10. BestOption(c.options) \in D
  BY <1>9 DEF BestOption, D
<1> QED BY <1>1, <1>10

(* The row of option i carries its chain index.                             *)
LEMMA MappedOption ==
  ASSUME NEW c, Sound(c), NEW row, Shows(row, c), NEW k
  PROVE  /\ OptionIds(row) = 1..Len(c.options)
         /\ \A i \in 1..Len(c.options) : k = i - 1 => MappedTo(row, k) = {i}
         /\ k = Len(c.options) => MappedTo(row, k) = {}
<1>1. Len(c.options) \in Nat
  BY SoundTypes
<1>2. OptionIds(row) = 1..Len(c.options)
  BY DEF Shows, Copies, OptionIds
<1>3. \A o \in 1..Len(c.options) : row.options[o].index = o - 1
  BY DEF Shows, Copies
<1>4. MappedTo(row, k) = {o \in 1..Len(c.options) : o - 1 = k}
  BY <1>2, <1>3 DEF MappedTo
<1> QED BY <1>1, <1>2, <1>4

LEMMA WeighedRow ==
  ASSUME NEW row, IsRow(row), NEW o, NEW w
  PROVE  /\ IsRow(Weigh(row, o, w))
         /\ Weigh(row, o, w).options = [row.options EXCEPT ![o] = [row.options[o] EXCEPT !.weight = w]]
         /\ Weigh(row, o, w).winner = row.winner /\ Weigh(row, o, w).voters = row.voters
         /\ Weigh(row, o, w).counted = row.counted /\ Weigh(row, o, w).orders = row.orders
         /\ Weigh(row, o, w).settled = row.settled /\ Weigh(row, o, w).failed = row.failed
         /\ Weigh(row, o, w).grouped = row.grouped
<1> SUFFICES ASSUME NEW os, os = [row.options EXCEPT ![o] = [row.options[o] EXCEPT !.weight = w]]
             PROVE  LET d == [row EXCEPT !.options = os]
                    IN  /\ IsRow(d) /\ d.options = os /\ d.winner = row.winner
                        /\ d.voters = row.voters /\ d.counted = row.counted
                        /\ d.orders = row.orders /\ d.settled = row.settled
                        /\ d.failed = row.failed /\ d.grouped = row.grouped
  BY DEF Weigh
<1> QED BY DEF IsRow

-----------------------------------------------------------------------------
LEMMA WeighedKeeps ==
  ASSUME NEW row, IsRow(row), NEW o, NEW w
  PROVE  /\ Weigh(row, o, w).winner = row.winner
         /\ Weigh(row, o, w).orders = row.orders
         /\ Weigh(row, o, w).settled = row.settled
         /\ Weigh(row, o, w).counted = row.counted
         /\ Weigh(row, o, w).grouped = row.grouped
BY DEF IsRow, Weigh

LEMMA UnderVote ==
  ASSUME NEW c, c.winner = 0, NEW i \in 1..Len(c.options)
  PROVE  Copies(c)[i] = [merchant |-> c.options[i].merchant, index |-> i - 1,
                         weight |-> c.options[i].shares]
BY DEF Copies, Shown

LEMMA CopiesAppend ==
  ASSUME NEW c, Sound(c), c.winner = 0, NEW x, NEW m
  PROVE  Copies(WithOption(c, x, m))
           = Append(Copies(c), [merchant |-> x, index |-> Len(c.options), weight |-> 0])
<1> DEFINE n == Len(c.options)
           o == [merchant |-> x, proposer |-> m, votes |-> 0, shares |-> 0]
           p == [merchant |-> x, index |-> n, weight |-> 0]
           d == WithOption(c, x, m)
           S == {Copies(c)[i] : i \in 1..n} \cup {p}
           T == {c.options[i] : i \in 1..n} \cup {o}
<1>1. n \in Nat /\ DOMAIN c.options = 1..n
  BY SoundTypes
<1>2. c.options \in Seq(T) /\ Len(c.options) = n
  <2>1. c.options \in [1..n -> T]
    BY <1>1, LenProperties DEF Sound
  <2> QED BY <1>1, <2>1, SeqDef
<1>3. Copies(c) \in Seq(S) /\ Len(Copies(c)) = n
  <2>1. Copies(c) \in [1..n -> S]
    BY DEF Copies
  <2>2. Copies(c) \in Seq(S)
    BY <1>1, <2>1, SeqDef
  <2> QED BY <1>1, <2>1, <2>2, LenProperties
<1>4. d.options = Append(c.options, o) /\ d.winner = 0
  BY WithOptionIsContract DEF Sound
<1>5. p \in S /\ o \in T
  OBVIOUS
<1> HIDE DEF S, T, o, p, d
<1>6. /\ Len(d.options) = n + 1 /\ d.options[n + 1] = o
      /\ \A i \in 1..n : d.options[i] = c.options[i]
  BY <1>2, <1>4, <1>5, AppendProperties
<1>7. /\ Append(Copies(c), p) \in Seq(S) /\ Len(Append(Copies(c), p)) = n + 1
      /\ Append(Copies(c), p)[n + 1] = p
      /\ \A i \in 1..n : Append(Copies(c), p)[i] = Copies(c)[i]
  BY <1>3, <1>5, AppendProperties
<1>8. Append(Copies(c), p) = [i \in 1..(n + 1) |-> Append(Copies(c), p)[i]]
  BY <1>7, LenProperties
<1>9. ASSUME NEW i \in 1..(n + 1)
      PROVE  Append(Copies(c), p)[i] = [merchant |-> d.options[i].merchant, index |-> i - 1,
                                        weight |-> d.options[i].shares]
  <2>1. CASE i = n + 1
    BY <2>1, <1>1, <1>6, <1>7 DEF o, p
  <2>2. CASE i # n + 1
    <3>1. i \in 1..n
      BY <2>2, <1>1
    <3>2. Copies(c)[i] = [merchant |-> c.options[i].merchant, index |-> i - 1,
                          weight |-> c.options[i].shares]
      BY <3>1, UnderVote
    <3> QED BY <3>1, <3>2, <1>6, <1>7
  <2> QED BY <2>1, <2>2
<1>10. Copies(d) = [i \in 1..(n + 1) |-> Append(Copies(c), p)[i]]
  <2>1. \A i \in 1..(n + 1) : Shown(d, i) = d.options[i].shares
    BY <1>1, <1>4 DEF Shown
  <2> QED BY <1>6, <1>9, <2>1 DEF Copies
<1> QED BY <1>8, <1>10 DEF d, p

LEMMA CopiesVote ==
  ASSUME NEW c, Sound(c), c.winner = 0, NEW i \in 1..Len(c.options), NEW n \in Nat
  PROVE  Copies(WithVote(c, i, n)) =
           [Copies(c) EXCEPT ![i] = [Copies(c)[i] EXCEPT !.weight =
              Copies(c)[i].weight + NormalizeTokenAmountValue(n)]]
<1> DEFINE d == WithVote(c, i, n)
           o == VotedFor(c.options[i], n)
           k == NormalizeTokenAmountValue(n)
<1>1. /\ Len(c.options) \in Nat /\ DOMAIN c.options = 1..Len(c.options)
      /\ c.options[i] \in Choice
  BY SoundTypes
<1>2. d.options = [c.options EXCEPT ![i] = o] /\ d.winner = 0
  BY WithVoteIsContract DEF Sound
<1>3. o \in Choice /\ o.merchant = c.options[i].merchant /\ o.shares = c.options[i].shares + k
  BY <1>1, VotedForIsChoice
<1> HIDE DEF o, d, k
<1>4. /\ Len(d.options) = Len(c.options)
      /\ \A j \in 1..Len(c.options) : d.options[j] = IF j = i THEN o ELSE c.options[j]
  <2>2. Len(d.options) = Len(c.options)
    BY <1>2, <1>3, ExceptSeq DEF Sound
  <2> QED BY <1>1, <1>2, <2>2
<1>5. Copies(d) = [j \in 1..Len(c.options) |->
                     [merchant |-> c.options[j].merchant, index |-> j - 1,
                      weight |-> IF j = i THEN c.options[i].shares + k ELSE c.options[j].shares]]
  <2>1. \A j \in 1..Len(c.options) : Shown(d, j) = d.options[j].shares
    BY <1>1, <1>2 DEF Shown
  <2> QED BY <1>3, <1>4, <2>1 DEF Copies
<1>6. Copies(c) = [j \in 1..Len(c.options) |->
                     [merchant |-> c.options[j].merchant, index |-> j - 1,
                      weight |-> c.options[j].shares]]
  BY <1>1 DEF Copies, Shown
<1>7. [Copies(c)[i] EXCEPT !.weight = Copies(c)[i].weight + k]
        = [merchant |-> c.options[i].merchant, index |-> i - 1,
           weight |-> c.options[i].shares + k]
  BY <1>6
<1>8. PICK f : f = [merchant |-> c.options[i].merchant, index |-> i - 1,
                   weight |-> c.options[i].shares + k]
  OBVIOUS
<1>9. Copies(d) = [j \in 1..Len(c.options) |-> IF j = i THEN f ELSE Copies(c)[j]]
  BY <1>5, <1>6, <1>8
<1>10. DOMAIN Copies(c) = 1..Len(c.options)
  BY <1>6
<1>11. PICK s : s = Copies(c)
  OBVIOUS
<1>12. Copies(d) = [s EXCEPT ![i] = f]
  <2>1. s = [j \in 1..Len(c.options) |-> s[j]]
    BY <1>6, <1>11
  <2> QED BY ONLY <1>9, <1>11, <2>1
<1> QED BY ONLY <1>7, <1>8, <1>11, <1>12 DEF d, k

LEMMA CopiesFinal ==
  ASSUME NEW c, Sound(c), c.winner = 0, NEW i \in 1..Len(c.options),
         NEW d, d.options = c.options, d.winner = i
  PROVE  Copies(d) = [Copies(c) EXCEPT ![i] = [Copies(c)[i] EXCEPT !.weight =
                        NormalizeTokenAmountValue(c.options[i].votes)]]
<1>1. Len(c.options) \in Nat
  BY SoundTypes
<1>2. Copies(c) = [j \in 1..Len(c.options) |->
                     [merchant |-> c.options[j].merchant, index |-> j - 1,
                      weight |-> c.options[j].shares]]
  BY <1>1 DEF Copies, Shown
<1>3. PICK k : k = NormalizeTokenAmountValue(c.options[i].votes)
  OBVIOUS
<1>4. Copies(d) = [j \in 1..Len(c.options) |->
                     [merchant |-> c.options[j].merchant, index |-> j - 1,
                      weight |-> IF j = i THEN k ELSE c.options[j].shares]]
  BY <1>3 DEF Copies, Shown
<1>5. [Copies(c)[i] EXCEPT !.weight = k]
        = [merchant |-> c.options[i].merchant, index |-> i - 1, weight |-> k]
  BY <1>2
<1>6. PICK f, s : /\ s = Copies(c)
                  /\ f = [merchant |-> c.options[i].merchant, index |-> i - 1, weight |-> k]
  OBVIOUS
<1>7. Copies(d) = [j \in 1..Len(c.options) |-> IF j = i THEN f ELSE s[j]]
  BY <1>2, <1>4, <1>6
<1>8. s = [j \in 1..Len(c.options) |-> s[j]]
  BY <1>2, <1>6
<1>9. Copies(d) = [s EXCEPT ![i] = f]
  BY ONLY <1>7, <1>8
<1> QED BY ONLY <1>3, <1>5, <1>6, <1>9

(* What each event makes of a row.                                          *)
Relisted(row, os) == [row EXCEPT !.options = os]

LEMMA RelistedRow ==
  ASSUME NEW row, IsRow(row), NEW os
  PROVE  /\ IsRow(Relisted(row, os)) /\ Relisted(row, os).options = os
         /\ Relisted(row, os).winner = row.winner /\ Relisted(row, os).orders = row.orders
         /\ Relisted(row, os).settled = row.settled /\ Relisted(row, os).counted = row.counted
         /\ Relisted(row, os).grouped = row.grouped /\ Relisted(row, os).voters = row.voters
BY DEF IsRow, Relisted

LEMMA WithOptionKeeps ==
  ASSUME NEW c, IsContract(c), NEW x, NEW m, NEW d, d = WithOption(c, x, m)
  PROVE  d.winner = c.winner /\ d.orders = c.orders /\ d.settled = c.settled
<1>1. PICK os : os = Append(c.options, [merchant |-> x, proposer |-> m, votes |-> 0, shares |-> 0])
  OBVIOUS
<1>2. d = [c EXCEPT !.options = os]
  BY <1>1 DEF WithOption
<1> QED BY ONLY <1>2, IsContract(c) DEF IsContract

LEMMA OptionShown ==
  ASSUME NEW c, Sound(c), c.winner = 0, NEW row, Shows(row, c), NEW x, NEW m,
         NEW u \in EnsureOption(row, Len(c.options), x)
  PROVE  Shows(u, WithOption(c, x, m))
<1> DEFINE p == [merchant |-> x, index |-> Len(c.options), weight |-> 0]
<1>1. MappedTo(row, Len(c.options)) = {}
  BY MappedOption
<1>2. u = [row EXCEPT !.options = Append(@, p)]
  BY <1>1 DEF EnsureOption
<1>3. PICK os : os = Append(row.options, p)
  OBVIOUS
<1>4. u = [row EXCEPT !.options = os] /\ os = Copies(WithOption(c, x, m))
  <2>1. row.options = Copies(c)
    BY DEF Shows
  <2>2. Copies(WithOption(c, x, m)) = Append(Copies(c), p)
    BY CopiesAppend
  <2>3. u = [row EXCEPT !.options = os]
    BY ONLY <1>2, <1>3
  <2> QED BY ONLY <1>3, <2>1, <2>2, <2>3
<1>5. PICK d : d = WithOption(c, x, m)
  OBVIOUS
<1>6. d.winner = c.winner /\ d.orders = c.orders /\ d.settled = c.settled
  BY <1>5, WithOptionKeeps DEF Sound
<1>7. /\ IsRow(u) /\ u.options = os /\ u.winner = row.winner /\ u.orders = row.orders
      /\ u.settled = row.settled /\ u.counted = row.counted /\ u.grouped = row.grouped
  <2>1. IsRow(row)
    BY DEF Shows
  <2>2. u = Relisted(row, os)
    BY <1>4 DEF Relisted
  <2> QED BY <2>1, <2>2, RelistedRow
<1> QED BY <1>4, <1>5, <1>6, <1>7 DEF Shows, Payers

LEMMA KnownOption ==
  ASSUME NEW c, Sound(c), NEW row, Shows(row, c), NEW i \in 1..Len(c.options), NEW x
  PROVE  /\ EnsureOption(row, i - 1, x) = {row}
         /\ (CHOOSE y \in MappedTo(row, i - 1) : TRUE) = i
<1>1. MappedTo(row, i - 1) = {i}
  BY MappedOption
<1> QED BY <1>1 DEF EnsureOption

LEMMA VoteShown ==
  ASSUME NEW c, Sound(c), c.winner = 0, NEW row, Shows(row, c),
         NEW i, i \in 1..Len(c.options),
         NEW e, e.index = i - 1, e.weight \in Nat, NEW u \in ApplyVoted(row, e)
  PROVE  Shows(u, WithVote(c, i, e.weight))
<1>1. EnsureOption(row, e.index, Nobody) = {row} /\ (CHOOSE y \in MappedTo(row, e.index) : TRUE) = i
  BY KnownOption
<1>2. u = [Weigh(row, i, row.options[i].weight + NormalizeTokenAmountValue(e.weight))
             EXCEPT !.voters = @ \cup {e.member}]
  BY <1>1 DEF ApplyVoted
<1>3. PICK w, k : /\ k = row.options[i].weight + NormalizeTokenAmountValue(e.weight)
                  /\ w = Weigh(row, i, k)
  OBVIOUS
<1>4. /\ IsRow(w) /\ w.winner = row.winner /\ w.orders = row.orders
      /\ w.options = [row.options EXCEPT ![i] = [row.options[i] EXCEPT !.weight = k]]
      /\ w.settled = row.settled /\ w.counted = row.counted /\ w.grouped = row.grouped
  <2>1. IsRow(row)
    BY DEF Shows
  <2>2. w = Weigh(row, i, k)
    BY <1>3
  <2>3. /\ IsRow(Weigh(row, i, k)) /\ Weigh(row, i, k).winner = row.winner
        /\ Weigh(row, i, k).orders = row.orders
        /\ Weigh(row, i, k).options
             = [row.options EXCEPT ![i] = [row.options[i] EXCEPT !.weight = k]]
        /\ Weigh(row, i, k).settled = row.settled /\ Weigh(row, i, k).counted = row.counted
        /\ Weigh(row, i, k).grouped = row.grouped
    <3>1. /\ Weigh(row, i, k).winner = row.winner /\ Weigh(row, i, k).orders = row.orders
          /\ Weigh(row, i, k).settled = row.settled /\ Weigh(row, i, k).counted = row.counted
          /\ Weigh(row, i, k).grouped = row.grouped
      BY ONLY <2>1, WeighedKeeps
    <3>2. /\ IsRow(Weigh(row, i, k))
          /\ Weigh(row, i, k).options
               = [row.options EXCEPT ![i] = [row.options[i] EXCEPT !.weight = k]]
      BY ONLY <2>1, WeighedRow
    <3> QED BY ONLY <3>1, <3>2
  <2> QED BY ONLY <2>2, <2>3
<1>5. PICK vs : u = [w EXCEPT !.voters = vs]
  BY <1>2, <1>3
<1>6. /\ IsRow(u) /\ u.options = w.options /\ u.winner = w.winner /\ u.orders = w.orders
      /\ u.settled = w.settled /\ u.counted = w.counted /\ u.grouped = w.grouped
  BY <1>4, <1>5 DEF IsRow
<1>7. w.options = Copies(WithVote(c, i, e.weight))
  <2>1. row.options = Copies(c)
    BY DEF Shows
  <2>2. PICK n \in Nat : n = e.weight
    OBVIOUS
  <2>3. Copies(WithVote(c, i, n)) =
          [Copies(c) EXCEPT ![i] = [Copies(c)[i] EXCEPT !.weight =
             Copies(c)[i].weight + NormalizeTokenAmountValue(n)]]
    BY CopiesVote
  <2>4. k = Copies(c)[i].weight + NormalizeTokenAmountValue(n)
    BY <1>3, <2>1, <2>2
  <2> QED BY ONLY <1>4, <2>1, <2>2, <2>3, <2>4
<1>8. PICK d, n : n = e.weight /\ d = WithVote(c, i, n)
  OBVIOUS
<1>9. d.winner = c.winner /\ d.orders = c.orders /\ d.settled = c.settled
  <2>1. IsContract(c)
    BY DEF Sound
  <2>2. /\ WithVote(c, i, n).winner = c.winner /\ WithVote(c, i, n).orders = c.orders
        /\ WithVote(c, i, n).settled = c.settled
    BY ONLY <2>1, WithVoteKeeps
  <2> QED BY ONLY <1>8, <2>2
<1> QED BY <1>4, <1>6, <1>7, <1>8, <1>9 DEF Shows, Payers

LEMMA FinalShown ==
  ASSUME NEW c, Sound(c), c.winner = 0, c.options # <<>>, NEW row, Shows(row, c),
         NEW e, Announces(e, c), NEW u \in ApplyVoteFinalized(row, e)
  PROVE  Shows(u, WithWinner(c))
<1> DEFINE i == BestOption(c.options)
<1>0. i \in 1..Len(c.options)
  BY BestOptionExists
<1> HIDE DEF i
<1>1. EnsureOption(row, e.index, e.merchant) = {row}
      /\ (CHOOSE y \in MappedTo(row, e.index) : TRUE) = i
  BY <1>0, KnownOption DEF Announces, i
<1>2. u = [Weigh(row, i, NormalizeTokenAmountValue(e.weight)) EXCEPT !.winner = i]
  BY <1>1 DEF ApplyVoteFinalized
<1>3. PICK w, k : k = NormalizeTokenAmountValue(e.weight) /\ w = Weigh(row, i, k)
  OBVIOUS
<1>4. /\ IsRow(w) /\ w.orders = row.orders
      /\ w.options = [row.options EXCEPT ![i] = [row.options[i] EXCEPT !.weight = k]]
      /\ w.settled = row.settled /\ w.counted = row.counted /\ w.grouped = row.grouped
  BY <1>3, WeighedRow DEF Shows
<1>5. u = [w EXCEPT !.winner = i]
  BY <1>2, <1>3
<1>6. /\ IsRow(u) /\ u.options = w.options /\ u.winner = i /\ u.orders = w.orders
      /\ u.settled = w.settled /\ u.counted = w.counted /\ u.grouped = w.grouped
  BY <1>4, <1>5 DEF IsRow
<1>8. PICK d : d = WithWinner(c)
  OBVIOUS
<1>9. d.winner = i /\ d.orders = c.orders /\ d.settled = c.settled /\ d.options = c.options
  BY <1>8, WithWinnerIsContract DEF Sound, i
<1>10. w.options = Copies(d)
  <2>1. e.weight = c.options[i].votes
    BY DEF Announces, i
  <2>2. row.options = Copies(c)
    BY DEF Shows
  <2> QED BY <1>0, <1>3, <1>4, <1>9, <2>1, <2>2, CopiesFinal
<1> QED BY <1>4, <1>6, <1>8, <1>9, <1>10 DEF Shows, Payers

LEMMA OrdersShown ==
  ASSUME NEW c, Sound(c), NEW row, Shows(row, c), NEW os, NEW ms,
         NEW u, u = [row EXCEPT !.orders = os], os \subseteq Order,
         {x.member : x \in {y \in os : y.paid}} = ms
  PROVE  Shows(u, WithOrders(c, ms))
<1>1. /\ IsRow(u) /\ u.options = row.options /\ u.winner = row.winner /\ u.orders = os
      /\ u.settled = row.settled /\ u.counted = row.counted /\ u.grouped = row.grouped
  BY DEF IsRow, Shows
<1>2. PICK d : d = WithOrders(c, ms)
  OBVIOUS
<1>3. d.winner = c.winner /\ d.orders = ms /\ d.settled = c.settled /\ d.options = c.options
  BY <1>2, WithOrdersIsContract DEF Sound
<1>4. Copies(d) = Copies(c)
  BY <1>3 DEF Copies, Shown
<1> QED BY <1>1, <1>2, <1>3, <1>4 DEF Shows, Payers

LEMMA PlacedShown ==
  ASSUME NEW c, Sound(c), NEW row, Shows(row, c), NEW e,
         e.member \in Members, e.basket \in Baskets, NEW u \in ApplyOrderPlaced(row, e)
  PROVE  Shows(u, WithOrders(c, c.orders \cup {e.member}))
<1> DEFINE same == {x \in row.orders : x.member = e.member /\ x.basket = e.basket}
           paid == [member |-> e.member, basket |-> e.basket, paid |-> TRUE]
           os == (row.orders \ same) \cup {paid}
<1>1. u = [row EXCEPT !.orders = os]
  BY DEF ApplyOrderPlaced
<1>2. paid \in Order /\ paid.paid /\ paid.member = e.member
  BY DEF Order
<1>3. os \subseteq Order
  BY <1>2 DEF Shows
<1>4. {x.member : x \in {y \in os : y.paid}} = c.orders \cup {e.member}
  <2>1. c.orders = {x.member : x \in {y \in row.orders : y.paid}}
    BY DEF Shows, Payers
  <2> HIDE DEF paid
  <2>2. ASSUME NEW y \in os, y.paid PROVE y.member \in c.orders \cup {e.member}
    BY <1>2, <2>1, <2>2
  <2>3. ASSUME NEW y \in row.orders, y.paid
        PROVE  \E z \in os : z.paid /\ z.member = y.member
    BY <1>2, <2>3
  <2>4. ASSUME NEW k \in c.orders \cup {e.member}
        PROVE  \E z \in os : z.paid /\ z.member = k
    BY <1>2, <2>1, <2>3
  <2> HIDE DEF os
  <2> QED BY <2>2, <2>4
<1> HIDE DEF os
<1> QED BY <1>1, <1>3, <1>4, OrdersShown

LEMMA CancelledShown ==
  ASSUME NEW c, Sound(c), NEW row, Shows(row, c), NEW e, NEW u \in ApplyOrderCancelled(row, e)
  PROVE  Shows(u, WithOrders(c, c.orders \ {e.member}))
<1> DEFINE f(x) == IF x.member = e.member THEN [x EXCEPT !.paid = FALSE] ELSE x
           os == {f(x) : x \in row.orders}
<1>1. u = [row EXCEPT !.orders = os]
  BY DEF ApplyOrderCancelled
<1>2. ASSUME NEW x \in row.orders
      PROVE  /\ f(x) \in Order /\ f(x).member = x.member
             /\ f(x).paid <=> x.paid /\ x.member # e.member
  <2>1. x \in Order
    BY DEF Shows
  <2> QED BY <2>1 DEF Order
<1> HIDE DEF f
<1>3. os \subseteq Order
  BY <1>2
<1>4. {x.member : x \in {y \in os : y.paid}} = c.orders \ {e.member}
  <2>1. c.orders = {x.member : x \in {y \in row.orders : y.paid}}
    BY DEF Shows, Payers
  <2>2. ASSUME NEW y \in os, y.paid PROVE y.member \in c.orders \ {e.member}
    BY <1>2, <2>1, <2>2
  <2>3. ASSUME NEW k \in c.orders \ {e.member}
        PROVE  \E z \in os : z.paid /\ z.member = k
    <3>1. PICK y \in row.orders : y.paid /\ y.member = k
      BY <2>1, <2>3
    <3>2. f(y) \in os /\ f(y).paid /\ f(y).member = k
      BY <1>2, <2>3, <3>1
    <3> QED BY <3>2
  <2> HIDE DEF os
  <2> QED BY <2>2, <2>3
<1> HIDE DEF os
<1> QED BY <1>1, <1>3, <1>4, OrdersShown

-----------------------------------------------------------------------------
LEMMA ChangeShown ==
  ASSUME NEW c, Sound(c), NEW row, Shows(row, c), NEW e, NEW d, Changes(c, e, d),
         NEW u \in ApplyToRow(row, e)
  PROVE  Shows(u, d)
<1>1. CASE e.name = "OptionAdded"
  <2>1. /\ e.index = Len(c.options) /\ c.winner = 0
        /\ \E m \in Members : d = WithOption(c, e.merchant, m)
    BY <1>1 DEF Changes
  <2>2. u \in EnsureOption(row, Len(c.options), e.merchant)
    BY <1>1, <2>1 DEF ApplyToRow
  <2> QED BY <2>1, <2>2, OptionShown
<1>2. CASE e.name = "Voted"
  <2>1. PICK i \in DOMAIN c.options :
          e.index = i - 1 /\ d = WithVote(c, i, e.weight) /\ c.winner = 0 /\ e.weight \in Nat
    BY <1>2 DEF Changes
  <2>2. i \in 1..Len(c.options)
    BY SoundTypes
  <2>3. u \in ApplyVoted(row, e)
    BY <1>2 DEF ApplyToRow
  <2> QED BY <2>1, <2>2, <2>3, VoteShown
<1>3. CASE e.name = "VoteFinalized"
  <2>1. c.winner = 0 /\ c.options # <<>> /\ Announces(e, c) /\ d = WithWinner(c)
    BY <1>3 DEF Changes
  <2>2. u \in ApplyVoteFinalized(row, e)
    BY <1>3 DEF ApplyToRow
  <2> QED BY <2>1, <2>2, FinalShown
<1>4. CASE e.name = "OrderPlaced"
  <2>1. e.member \in Members /\ e.basket \in Baskets /\ d = WithOrders(c, c.orders \cup {e.member})
    BY <1>4 DEF Changes
  <2>2. u \in ApplyOrderPlaced(row, e)
    BY <1>4 DEF ApplyToRow
  <2> QED BY <2>1, <2>2, PlacedShown
<1>5. CASE e.name = "OrderCancelled"
  <2>1. d = WithOrders(c, c.orders \ {e.member})
    BY <1>5 DEF Changes
  <2>2. u \in ApplyOrderCancelled(row, e)
    BY <1>5 DEF ApplyToRow
  <2> QED BY <2>1, <2>2, CancelledShown
<1> QED BY <1>1, <1>2, <1>3, <1>4, <1>5 DEF Changes

-----------------------------------------------------------------------------
(* Where a round is: not yet created, or with what the contract holds of it.*)
About(e, r) == e.name # "RewardAllocated" /\ e.round = r
Place(p) == p.born => Sound(p.c)
Closed(c) == [c EXCEPT !.settled = TRUE]

(* What one event does to a round.                                          *)
Moves(r, p, e, q) ==
  /\ Place(p) /\ Place(q)
  /\ \/ ~About(e, r) /\ q = p
     \/ About(e, r) /\ e.name = "ProposalCreated" /\ ~p.born /\ q.born /\ q.c = NewRound
     \/ About(e, r) /\ p.born /\ q.born /\ Changes(p.c, e, q.c)
     \/ About(e, r) /\ e.name = "ProposalSettled" /\ p.born /\ q.born /\ q.c = Closed(p.c)

(* What the events of a block do to it, one after the other.                *)
Leads(r, p, events, q) ==
  \E g : /\ g[0] = p /\ g[Len(events)] = q
         /\ \A n \in 1..Len(events) : Moves(r, g[n - 1], events[n], g[n])

Reflects(row, p) == IF p.born THEN Shows(row, p.c) ELSE row = NoRow
Tables(t) == IsTables(t) /\ t.rows = [r \in Rounds |-> t.rows[r]]

Written(t, x, row) == [t EXCEPT !.rows[x] = row]

LEMMA RowWritten ==
  ASSUME NEW t, Tables(t), NEW x, NEW row
  PROVE  /\ Tables(Written(t, x, row))
         /\ \A r \in Rounds : Written(t, x, row).rows[r] = IF r = x THEN row ELSE t.rows[r]
<1> DEFINE u == [t EXCEPT !.rows[x] = row]
           rs == [t.rows EXCEPT ![x] = row]
<1>1. rs = [r \in Rounds |-> rs[r]]
  BY DEF Tables
<1>2. \A r \in Rounds : rs[r] = IF r = x THEN row ELSE t.rows[r]
  BY DEF Tables
<1>3. u = [t EXCEPT !.rows = rs]
  OBVIOUS
<1> HIDE DEF rs, u
<1>4. u.rows = rs /\ IsTables(u)
  BY <1>3 DEF Tables, IsTables
<1>5. Tables(u)
  BY <1>1, <1>4 DEF Tables
<1> QED BY <1>2, <1>4, <1>5 DEF u, Written

LEMMA EventWrites ==
  ASSUME NEW t, Tables(t), NEW e, NEW u \in ApplyEvent(t, e)
  PROVE  /\ Tables(u)
         /\ \A r \in Rounds : ~About(e, r) => u.rows[r] = t.rows[r]
<1>1. CASE e.name = "RewardAllocated"
  <2>1. u = [t EXCEPT !.rewards[e.member] = @ + 1]
    BY <1>1 DEF ApplyEvent
  <2>2. PICK rw : u = [t EXCEPT !.rewards = rw]
    BY <2>1
  <2>3. u.rows = t.rows /\ IsTables(u)
    BY <2>2 DEF Tables, IsTables
  <2> QED BY <2>3 DEF Tables
<1>2. CASE e.name # "RewardAllocated"
  <2>1. \E row : u = Written(t, e.round, row)
    <3>1. CASE e.name = "ProposalSettled"
      <4>1. u = [t EXCEPT !.rows[e.round].settled = TRUE]
        BY <3>1 DEF ApplyEvent
      <4>2. u = [t EXCEPT !.rows[e.round] = [t.rows[e.round] EXCEPT !.settled = TRUE]]
        BY <4>1
      <4> QED BY <4>2 DEF Written
    <3>2. CASE e.name # "ProposalSettled"
      <4>1. u \in {[t EXCEPT !.rows[e.round] = row] :
                     row \in ApplyToRow(EnsureProposal(t, e.round), e)}
        BY <1>2, <3>2 DEF ApplyEvent
      <4> QED BY <4>1 DEF Written
    <3> QED BY <3>1, <3>2
  <2>2. PICK row : u = Written(t, e.round, row)
    BY <2>1
  <2>3. Tables(u) /\ \A r \in Rounds : u.rows[r] = IF r = e.round THEN row ELSE t.rows[r]
    BY <2>2, RowWritten
  <2> QED BY <1>2, <2>3 DEF About
<1> QED BY <1>1, <1>2

LEMMA EventShown ==
  ASSUME NEW t, Tables(t), NEW r \in Rounds, NEW p, Reflects(t.rows[r], p),
         NEW e, NEW q, Moves(r, p, e, q), NEW u \in ApplyEvent(t, e)
  PROVE  Tables(u) /\ Reflects(u.rows[r], q)
<1>0. Tables(u)
  BY EventWrites
<1>1. CASE ~About(e, r)
  <2>1. u.rows[r] = t.rows[r]
    BY <1>1, EventWrites
  <2>2. q = p
    BY <1>1 DEF Moves
  <2> QED BY <1>0, <2>1, <2>2
<1>2. CASE About(e, r) /\ e.name = "ProposalSettled"
  <2>1. p.born /\ q.born /\ q.c = Closed(p.c) /\ Sound(p.c)
    BY <1>2 DEF Moves, Changes, Place
  <2>2. u = [t EXCEPT !.rows[r].settled = TRUE]
    BY <1>2 DEF ApplyEvent, About
  <2>3. PICK row : row = [t.rows[r] EXCEPT !.settled = TRUE]
    OBVIOUS
  <2>4. u = Written(t, r, row)
    BY <2>2, <2>3 DEF Written
  <2>5. u.rows[r] = row
    BY <2>4, RowWritten
  <2>6. PICK o, c : o = t.rows[r] /\ c = p.c
    OBVIOUS
  <2>7. Shows(o, c) /\ Sound(c)
    BY <2>1, <2>6 DEF Reflects
  <2>8. /\ IsRow(row) /\ row.options = o.options /\ row.winner = o.winner /\ row.orders = o.orders
        /\ row.settled = TRUE /\ row.counted = o.counted /\ row.grouped = o.grouped
    <3>1. IsRow(o) /\ row = [o EXCEPT !.settled = TRUE]
      BY <2>3, <2>6, <2>7 DEF Shows
    <3> QED BY <3>1 DEF IsRow
  <2>9. PICK d : d = Closed(c)
    OBVIOUS
  <2>10. d.options = c.options /\ d.winner = c.winner /\ d.orders = c.orders
    BY <2>7, <2>9 DEF Sound, IsContract, Closed
  <2>11. Copies(d) = Copies(c)
    BY <2>10 DEF Copies, Shown
  <2>12. Shows(row, d)
    BY <2>7, <2>8, <2>10, <2>11 DEF Shows, Payers
  <2> QED BY <1>0, <2>1, <2>5, <2>6, <2>9, <2>12 DEF Reflects
<1>3. CASE About(e, r) /\ e.name # "ProposalSettled"
  <2> DEFINE old == EnsureProposal(t, r)
  <2>1. PICK row \in ApplyToRow(old, e) : u = Written(t, r, row)
    <3>1. u \in {[t EXCEPT !.rows[e.round] = x] : x \in ApplyToRow(EnsureProposal(t, e.round), e)}
      BY <1>3 DEF ApplyEvent, About
    <3> QED BY <1>3, <3>1 DEF About, Written
  <2>2. u.rows[r] = row
    BY <2>1, RowWritten
  <2>3. CASE e.name = "ProposalCreated"
    <3>1. ~p.born /\ q.born /\ q.c = NewRound
      BY <1>3, <2>3 DEF Moves, Changes
    <3>2. row = NewRow(FALSE)
      BY <2>1, <2>3, <3>1 DEF ApplyToRow, Reflects, EnsureProposal
    <3>3. Shows(NewRow(FALSE), NewRound)
      BY EmptySeq DEF Shows, NewRow, NewRound, IsRow, Copies, Payers
    <3> QED BY <1>0, <2>2, <3>1, <3>2, <3>3 DEF Reflects
  <2>4. CASE e.name # "ProposalCreated"
    <3>1. p.born /\ q.born /\ Changes(p.c, e, q.c) /\ Sound(p.c)
      BY <1>3, <2>4 DEF Moves, Place
    <3>2. Shows(t.rows[r], p.c)
      BY <3>1 DEF Reflects
    <3>3. old = t.rows[r]
      BY <3>2, RowIsThere DEF EnsureProposal, Shows
    <3>4. Shows(row, q.c)
      BY <2>1, <3>1, <3>2, <3>3, ChangeShown
    <3> QED BY <1>0, <2>2, <3>1, <3>4 DEF Reflects
  <2> QED BY <2>3, <2>4
<1> QED BY <1>1, <1>2, <1>3

LEMMA BlockShown ==
  ASSUME NEW t, Tables(t), NEW r \in Rounds, NEW p, Reflects(t.rows[r], p),
         NEW events, Len(events) \in Nat, NEW q, Leads(r, p, events, q),
         NEW u \in ApplyAll(t, events)
  PROVE  Tables(u) /\ Reflects(u.rows[r], q)
<1> DEFINE N == Len(events)
<1>1. PICK f : AfterEvents(f, t, events, N) /\ ApplyAll(t, events) = f[N]
  BY ApplyAllUnfolds
<1>2. PICK g : /\ g[0] = p /\ g[N] = q
               /\ \A n \in 1..N : Moves(r, g[n - 1], events[n], g[n])
  BY DEF Leads
<1> DEFINE G == {n \in 0..N : \A v \in f[n] : Tables(v) /\ Reflects(v.rows[r], g[n])}
<1>3. 0 \in G
  BY <1>1, <1>2 DEF AfterEvents
<1>4. ASSUME NEW n \in 1..N, n - 1 \in G
      PROVE  n \in G
  <2> SUFFICES ASSUME NEW v \in f[n] PROVE Tables(v) /\ Reflects(v.rows[r], g[n])
    OBVIOUS
  <2>1. v \in Results(f[n - 1], events[n])
    BY <1>1 DEF AfterEvents
  <2>2. PICK x \in f[n - 1] : v \in ApplyEvent(x, events[n])
    BY <2>1 DEF Results
  <2>3. Tables(x) /\ Reflects(x.rows[r], g[n - 1])
    BY <1>4, <2>2
  <2>4. Moves(r, g[n - 1], events[n], g[n])
    BY <1>2
  <2> HIDE DEF G
  <2> QED BY <2>2, <2>3, <2>4, EventShown
<1>5. N \in G
  <2> HIDE DEF G, N
  <2>1. N \in Nat
    BY DEF N
  <2>2. \A n \in 1..N : n - 1 \in G => n \in G
    BY <1>4
  <2>3. \A n \in 0..N : n \in G
    BY <1>3, <2>1, <2>2, UpTo
  <2> QED BY <2>1, <2>3
<1> QED BY <1>1, <1>2, <1>5

-----------------------------------------------------------------------------
Now(r) == [born |-> stage[r] # 0, c |-> contract[r]]

Traced(r, h, k) ==
  /\ k \in 0..Latest /\ applied = 1..k
  /\ \A b \in 1..Latest : Leads(r, h[b - 1], log[b], h[b])
  /\ h[Latest] = Now(r)
  /\ Tables(tables) /\ Reflects(tables.rows[r], h[k])

MirrorInv ==
  /\ \A r \in Rounds : stage[r] = 0 => contract[r] = NewRound
  /\ \A r \in Rounds \ touched : \E h, k : Traced(r, h, k)

LEMMA PrefixExists ==
  ASSUME NEW N \in Nat, NEW S \in SUBSET (1..N), \A b \in S : \A a \in 1..b : a \in S
  PROVE  \E k \in 0..N : S = 1..k
<1> DEFINE B == {n \in 0..N : n + 1 \notin S}
<1>1. N \in B
  OBVIOUS
<1>2. PICK k \in B : \A n \in B : k <= n
  <2> HIDE DEF B
  <2>1. B \in SUBSET (0..N) /\ B # {}
    BY <1>1 DEF B
  <2> QED BY <2>1, LeastExists
<1>3. \A i \in 1..k : i \in S
  <2> SUFFICES ASSUME NEW i \in 1..k, i \notin S PROVE FALSE
    OBVIOUS
  <2>1. i - 1 \in 0..N /\ (i - 1) + 1 = i /\ i - 1 < k
    BY <1>2
  <2>2. i - 1 \in B
    BY <2>1
  <2> QED BY <1>2, <2>1, <2>2
<1>4. \A i \in S : i \in 1..k
  <2> SUFFICES ASSUME NEW i \in S, i \notin 1..k PROVE FALSE
    OBVIOUS
  <2>1. i \in 1..N /\ k + 1 \in 1..i
    BY <1>2
  <2>2. k + 1 \in S
    BY <2>1
  <2> QED BY <1>2, <2>2
<1>5. S = 1..k
  BY <1>3, <1>4
<1> QED BY <1>5

LEMMA TakenIsPrefix ==
  ASSUME IInv
  PROVE  Latest \in Nat /\ Blocks = 1..Latest /\ \E k \in 0..Latest : applied = 1..k
<1>1. Latest \in Nat /\ Blocks = 1..Latest /\ applied \in SUBSET (1..Latest)
  BY LogLength DEF IInv, SyncTyped, Blocks, Latest
<1>2. \A b \in applied : \A a \in 1..b : a \in applied
  BY DEF IInv, InOrder
<1> QED BY <1>1, <1>2, PrefixExists

LEMMA LeadsNowhere ==
  ASSUME NEW r, NEW p, Place(p), NEW events, Len(events) \in Nat,
         \A n \in 1..Len(events) : ~About(events[n], r)
  PROVE  Leads(r, p, events, p)
<1> DEFINE g == [n \in 0..Len(events) |-> p]
<1>1. g[0] = p /\ g[Len(events)] = p
  OBVIOUS
<1>2. \A n \in 1..Len(events) : g[n - 1] = p /\ g[n] = p
  OBVIOUS
<1> HIDE DEF g
<1> QED BY <1>1, <1>2 DEF Leads, Moves

LEMMA LeadsOnce ==
  ASSUME NEW r, NEW p, NEW e, NEW q, Moves(r, p, e, q)
  PROVE  Leads(r, p, <<e>>, q)
<1> DEFINE g == [n \in 0..1 |-> IF n = 0 THEN p ELSE q]
<1>1. g[0] = p /\ g[1] = q /\ 1 - 1 = 0
  OBVIOUS
<1>2. Len(<<e>>) = 1 /\ <<e>>[1] = e /\ 1..1 = {1}
  OBVIOUS
<1> HIDE DEF g
<1> QED BY <1>1, <1>2 DEF Leads

(* The chain grows by a block that leads every round to where it is then.   *)
LEMMA EmitMirrors ==
  ASSUME IInv, MirrorInv, NEW events, Emit(events),
         \A r \in Rounds : Leads(r, Now(r), events, Now(r)'),
         \A r \in Rounds : stage'[r] = 0 => contract'[r] = NewRound
  PROVE  MirrorInv'
<1> DEFINE N == Len(log)
<1>1. log' = Append(log, events) /\ applied' = applied /\ tables' = tables /\ touched' = touched
  BY DEF Emit, database
<1>2. log \in Seq(Logged)
  BY DEF IInv, SyncTyped
<1>3. /\ N \in Nat /\ Len(log') = N + 1 /\ log'[N + 1] = events
      /\ \A b \in 1..N : log'[b] = log[b]
  <2>1. N \in Nat /\ Len(log') = N + 1 /\ log'[N + 1] = events
    BY <1>1, <1>2, LogGrows
  <2>2. \A b \in 1..N : log'[b] = log[b]
    BY <1>1, <1>2, AppendProperties
  <2> QED BY <2>1, <2>2
<1>4. ASSUME NEW r \in Rounds \ touched
      PROVE  \E h, k : Traced(r, h, k)'
  <2>1. PICK h, k : Traced(r, h, k)
    BY DEF MirrorInv
  <2>2. PICK p, q : p = Now(r) /\ q = Now(r)'
    OBVIOUS
  <2>3. k \in 0..N /\ applied = 1..k /\ h[N] = p /\ Reflects(tables.rows[r], h[k])
    BY <2>1, <2>2 DEF Traced, Latest
  <2>4. PICK g : g[N + 1] = q /\ \A n \in 0..N : g[n] = h[n]
    <3> DEFINE g == [n \in 0..(N + 1) |-> IF n = N + 1 THEN q ELSE h[n]]
    <3>1. g[N + 1] = q /\ \A n \in 0..N : g[n] = h[n]
      BY <1>3
    <3> QED BY <3>1
  <2> HIDE DEF N
  <2>5. ASSUME NEW b \in 1..(N + 1)
        PROVE  Leads(r, g[b - 1], log'[b], g[b])
    <3>1. CASE b = N + 1
      <4>1. b - 1 = N /\ N \in 0..N
        BY <1>3, <3>1
      <4>2. g[b - 1] = p
        BY <2>3, <2>4, <4>1
      <4>3. log'[b] = events /\ g[b] = q
        BY <1>3, <2>4, <3>1
      <4> QED BY <2>2, <4>2, <4>3
    <3>2. CASE b # N + 1
      <4>1. b \in 1..N /\ b \in 0..N /\ b - 1 \in 0..N
        BY <1>3, <3>2
      <4>2. Leads(r, h[b - 1], log[b], h[b])
        BY <2>1, <4>1 DEF Traced, Latest, N
      <4> QED BY <1>3, <2>4, <4>1, <4>2
    <3> QED BY <3>1, <3>2
  <2>6. k \in 0..(N + 1) /\ g[k] = h[k]
    BY <1>3, <2>3, <2>4
  <2>7. Latest' = N + 1
    BY <1>3 DEF Latest
  <2>8. N + 1 \in Nat /\ g[N + 1] = Now(r)' /\ Reflects(tables'.rows[r], g[k]) /\ applied' = 1..k
    BY <1>1, <1>3, <2>2, <2>3, <2>4, <2>6
  <2>10. Tables(tables)'
    BY <1>1, <2>1 DEF Traced, Tables, IsTables
  <2>9. \A b \in 1..Latest' : Leads(r, g[b - 1], log'[b], g[b])
    BY <2>5, <2>7
  <2>11. Traced(r, g, k)'
    BY <2>6, <2>7, <2>8, <2>9, <2>10 DEF Traced
  <2> QED BY <2>11
<1> QED BY <1>1, <1>4 DEF MirrorInv

LEMMA SoundContract ==
  ASSUME ContractOK, NEW r \in Rounds
  PROVE  Sound(contract[r]) /\ Place(Now(r)) /\ contract = [x \in Rounds |-> contract[x]]
         /\ stage = [x \in Rounds |-> stage[x]]
BY DEF ContractOK, Sound, Place, Now

(* A block of events that are all about one round, or about none.           *)
LEMMA OneRoundMirrors ==
  ASSUME IInv, MirrorInv, ContractOK, NEW events, Emit(events), Len(events) \in Nat,
         NEW r \in Rounds, \A n \in 1..Len(events) : \A x \in Rounds \ {r} : ~About(events[n], x),
         \A x \in Rounds \ {r} : stage'[x] = stage[x] /\ contract'[x] = contract[x],
         Leads(r, Now(r), events, Now(r)'), stage'[r] # 0
  PROVE  MirrorInv'
<1>1. ASSUME NEW x \in Rounds
      PROVE  Leads(x, Now(x), events, Now(x)')
  <2>1. CASE x # r
    <3>1. Now(x)' = Now(x)
      BY <2>1 DEF Now
    <3>2. PICK p : p = Now(x)
      OBVIOUS
    <3>3. Place(p)
      BY <3>2, SoundContract
    <3>4. Leads(x, p, events, p)
      BY <2>1, <3>3, LeadsNowhere
    <3> QED BY <3>1, <3>2, <3>4
  <2> QED BY <2>1
<1>2. \A x \in Rounds : stage'[x] = 0 => contract'[x] = NewRound
  BY DEF MirrorInv
<1> QED BY <1>1, <1>2, EmitMirrors

LEMMA EventMirrors ==
  ASSUME IInv, MirrorInv, ContractOK, ContractOK', NEW r \in Rounds, NEW e, About(e, r),
         Emit(<<e>>), \A x \in Rounds \ {r} : stage'[x] = stage[x] /\ contract'[x] = contract[x],
         Moves(r, Now(r), e, Now(r)'), stage'[r] # 0
  PROVE  MirrorInv'
<1>1. Len(<<e>>) = 1 /\ 1 \in Nat /\ <<e>>[1] = e
  OBVIOUS
<1>2. \A n \in 1..Len(<<e>>) : \A x \in Rounds \ {r} : ~About(<<e>>[n], x)
  BY <1>1 DEF About
<1>3. Leads(r, Now(r), <<e>>, Now(r)')
  <2> SUFFICES ASSUME NEW p, p = Now(r), NEW q, q = Now(r)' PROVE Leads(r, p, <<e>>, q)
    OBVIOUS
  <2> QED BY LeadsOnce
<1>4. PICK ev : ev = <<e>>
  OBVIOUS
<1> QED BY <1>1, <1>2, <1>3, <1>4, OneRoundMirrors

LEMMA ChangeMirrors ==
  ASSUME IInv, MirrorInv, ContractOK, ContractOK', NEW r \in Rounds, NEW e, About(e, r),
         Emit(<<e>>), UNCHANGED stage, stage[r] # 0,
         NEW d, contract' = [contract EXCEPT ![r] = d], Changes(contract[r], e, d)
  PROVE  MirrorInv'
<1>1. \A x \in Rounds \ {r} : stage'[x] = stage[x] /\ contract'[x] = contract[x]
  BY SoundContract
<1>2. contract'[r] = d
  BY SoundContract
<1>3. Sound(contract[r]) /\ Sound(contract'[r])
  BY DEF ContractOK, Sound
<1>4. Moves(r, Now(r), e, Now(r)')
  BY <1>2, <1>3 DEF Moves, Place, Now
<1> QED BY <1>1, <1>4, EventMirrors

LEMMA CreateProposalMirrors ==
  ASSUME IInv, MirrorInv, ContractOK, ContractOK', NEW r \in Rounds, CreateProposal(r)
  PROVE  MirrorInv'
<1> DEFINE e == [name |-> "ProposalCreated", round |-> r]
<1>1. stage[r] = 0 /\ stage' = [stage EXCEPT ![r] = 1] /\ Emit(<<e>>) /\ contract' = contract
  BY DEF CreateProposal
<1>2. /\ \A x \in Rounds \ {r} : stage'[x] = stage[x] /\ contract'[x] = contract[x]
      /\ stage'[r] = 1
  BY <1>1, SoundContract
<1>3. contract[r] = NewRound
  BY <1>1 DEF MirrorInv
<1>4. About(e, r) /\ e.name = "ProposalCreated"
  BY DEF About
<1>5. Sound(contract[r])
  BY DEF ContractOK, Sound
<1> HIDE DEF e
<1>6. Moves(r, Now(r), e, Now(r)')
  <2> SUFFICES ASSUME NEW p, p = Now(r), NEW q, q = Now(r)' PROVE Moves(r, p, e, q)
    OBVIOUS
  <2>1. ~p.born /\ p.c = NewRound
    BY <1>1, <1>3 DEF Now
  <2>2. q.born = (stage'[r] # 0) /\ q.c = contract'[r]
    BY DEF Now
  <2>3. (stage'[r] # 0) = TRUE
    BY <1>2
  <2>4. q.born
    BY <2>2, <2>3, Zenon
  <2>5. q.c = NewRound
    BY <1>1, <1>3, <2>2
  <2> QED BY <1>3, <1>4, <1>5, <2>1, <2>4, <2>5 DEF Moves, Place
<1> QED BY <1>1, <1>2, <1>4, <1>6, EventMirrors

LEMMA AddOptionMirrors ==
  ASSUME IInv, MirrorInv, ContractOK, ContractOK', NEW r \in Rounds, NEW x \in Merchants,
         NEW m \in Members, AddOption(r, x, m)
  PROVE  MirrorInv'
<1> DEFINE e == [name |-> "OptionAdded", round |-> r, index |-> Len(contract[r].options), merchant |-> x]
           d == WithOption(contract[r], x, m)
<1>1. /\ stage[r] # 0 /\ Emit(<<e>>) /\ UNCHANGED stage
      /\ contract' = [contract EXCEPT ![r] = d]
  BY DEF AddOption
<1>2. About(e, r) /\ Changes(contract[r], e, d)
  <2>1. contract[r].winner = 0
    BY DEF AddOption, ContractOK
  <2> QED BY <2>1 DEF About, Changes
<1> HIDE DEF e, d
<1> QED BY <1>1, <1>2, ChangeMirrors

LEMMA VoteMirrors ==
  ASSUME IInv, MirrorInv, ContractOK, ContractOK', NEW r \in Rounds, NEW i \in DOMAIN contract[r].options,
         NEW m \in Members, NEW n \in Amounts, Vote(r, i, m, n)
  PROVE  MirrorInv'
<1> DEFINE e == [name |-> "Voted", round |-> r, index |-> i - 1, member |-> m, weight |-> n]
           d == WithVote(contract[r], i, n)
<1>1. /\ stage[r] # 0 /\ Emit(<<e>>) /\ UNCHANGED stage
      /\ contract' = [contract EXCEPT ![r] = d]
  BY DEF Vote
<1>2. About(e, r) /\ Changes(contract[r], e, d)
  <2>1. contract[r].winner = 0
    BY DEF Vote, ContractOK
  <2>2. n \in Nat
    BY SyncAssumption
  <2> QED BY <2>1, <2>2 DEF About, Changes
<1> HIDE DEF e, d
<1> QED BY <1>1, <1>2, ChangeMirrors

LEMMA FinalizedAnnounces ==
  ASSUME NEW r
  PROVE  /\ About(Finalized(r), r) /\ Finalized(r).name = "VoteFinalized"
         /\ Announces(Finalized(r), contract[r]) /\ Finalized(r).round = r
BY DEF About, Announces, Finalized

LEMMA FinalizeVoteMirrors ==
  ASSUME IInv, MirrorInv, ContractOK, ContractOK', NEW r \in Rounds, FinalizeVote(r)
  PROVE  MirrorInv'
<1> DEFINE e == Finalized(r)
           d == WithWinner(contract[r])
<1>1. /\ stage[r] > 2 /\ contract[r].winner = 0 /\ contract[r].options # <<>>
      /\ Emit(<<e>>) /\ UNCHANGED stage
      /\ contract' = [contract EXCEPT ![r] = d]
  BY DEF FinalizeVote
<1>2. About(e, r) /\ Changes(contract[r], e, d)
  BY <1>1, FinalizedAnnounces DEF Changes
<1>3. stage[r] # 0
  BY <1>1 DEF ContractOK
<1> HIDE DEF e, d
<1> QED BY <1>1, <1>2, <1>3, ChangeMirrors

LEMMA PlaceOrderMirrors ==
  ASSUME IInv, MirrorInv, ContractOK, ContractOK', NEW r \in Rounds, NEW m \in Members,
         NEW b \in Baskets, PlaceOrder(r, m, b)
  PROVE  MirrorInv'
<1> DEFINE e == [name |-> "OrderPlaced", round |-> r, member |-> m, basket |-> b]
           d == WithOrders(contract[r], contract[r].orders \cup {m})
<1>1. /\ stage[r] # 0 /\ Emit(<<e>>) /\ UNCHANGED stage
      /\ contract' = [contract EXCEPT ![r] = d]
  BY DEF PlaceOrder
<1>2. About(e, r) /\ Changes(contract[r], e, d)
  BY DEF About, Changes
<1> HIDE DEF e, d
<1> QED BY <1>1, <1>2, ChangeMirrors

LEMMA CancelOrderMirrors ==
  ASSUME IInv, MirrorInv, ContractOK, ContractOK', NEW r \in Rounds, NEW m \in Members,
         CancelOrder(r, m)
  PROVE  MirrorInv'
<1> DEFINE e == [name |-> "OrderCancelled", round |-> r, member |-> m]
           d == WithOrders(contract[r], contract[r].orders \ {m})
<1>1. /\ stage[r] # 0 /\ Emit(<<e>>) /\ UNCHANGED stage
      /\ contract' = [contract EXCEPT ![r] = d]
  BY DEF CancelOrder
<1>2. About(e, r) /\ Changes(contract[r], e, d)
  BY DEF About, Changes
<1> HIDE DEF e, d
<1> QED BY <1>1, <1>2, ChangeMirrors

-----------------------------------------------------------------------------
(* A settlement closes the vote if that is still to do, allocates rewards,  *)
(* which are no business of the round, and settles it.                      *)
LEMMA SettlementLeads ==
  ASSUME NEW r, NEW c, Sound(c), c.options # <<>>, NEW first, first.name = "VoteFinalized",
         About(first, r), Announces(first, c), NEW last, last.name = "ProposalSettled",
         About(last, r), NEW events, NEW k, Parts(c, first, last, events, k),
         k = 0 <=> c.winner # 0,
         NEW p, p.born, p.c = c, NEW q, q.born, q.c = Settled(c)
  PROVE  /\ Len(events) \in Nat /\ Leads(r, p, events, q)
         /\ \A x : x # r => \A i \in 1..Len(events) : ~About(events[i], x)
<1> DEFINE n == Len(c.options)
           N == Len(events)
<1>1. n \in Nat /\ k \in {0, 1} /\ N = k + n + 1 /\ N \in Nat
  BY SoundTypes DEF Parts
<1>2. n # 0
  BY EmptySeq, LenProperties DEF Sound
<1>3. /\ k = 1 => events[1] = first
      /\ \A i \in 1..n : events[i + k].name = "RewardAllocated"
      /\ events[N] = last
  BY <1>1 DEF Parts
<1> HIDE DEF n, N
<1>4. \A i \in 1..N :
        \/ (i = 1 /\ k = 1) \/ i = N
        \/ (i > k /\ i < N /\ events[i].name = "RewardAllocated")
  <2> SUFFICES ASSUME NEW i \in 1..N, ~(i = 1 /\ k = 1), i # N
               PROVE  i > k /\ i < N /\ events[i].name = "RewardAllocated"
    OBVIOUS
  <2>1. i - k \in 1..n /\ i = (i - k) + k /\ i > k /\ i < N
    BY <1>1
  <2> QED BY <1>3, <2>1
<1>5. PICK d : d = IF c.winner = 0 THEN WithWinner(c) ELSE c
  OBVIOUS
<1>6. PICK w : w = IF k = 1 THEN [born |-> TRUE, c |-> d] ELSE p
  OBVIOUS
<1>7. w.born /\ w.c = d
  BY <1>1, <1>5, <1>6
<1>8. Sound(d) /\ Sound(Settled(c)) /\ Settled(c) = Closed(d)
  <2>1. IsContract(WithWinner(c)) /\ WithWinner(c).options = c.options
    BY WithWinnerIsContract DEF Sound
  <2>2. IsContract(Settled(c)) /\ Settled(c).options = c.options
    BY SettledIsContract DEF Sound
  <2>3. Sound(d)
    BY <1>5, <2>1 DEF Sound
  <2>4. Settled(c) = Closed(d)
    BY <1>5 DEF Settled, Closed
  <2> QED BY <2>2, <2>3, <2>4 DEF Sound
<1>9. Place(p) /\ Place(q) /\ Place(w)
  BY <1>7, <1>8 DEF Place
<1>10. Moves(r, w, last, q)
  BY <1>7, <1>8, <1>9 DEF Moves
<1>11. k = 1 => Moves(r, p, first, w)
  BY <1>5, <1>7, <1>9 DEF Moves, Changes
<1>12. \A i \in 1..N : events[i].name = "RewardAllocated" => Moves(r, w, events[i], w)
  BY <1>9 DEF Moves, About
<1>13. PICK g : \A i \in 0..N : g[i] = IF i = N THEN q ELSE IF i < k THEN p ELSE w
  <2> DEFINE g == [i \in 0..N |-> IF i = N THEN q ELSE IF i < k THEN p ELSE w]
  <2>1. \A i \in 0..N : g[i] = IF i = N THEN q ELSE IF i < k THEN p ELSE w
    OBVIOUS
  <2> QED BY <2>1
<1>14. g[0] = p /\ g[N] = q
  <2>1. 0 \in 0..N /\ N \in 0..N /\ 0 # N
    BY <1>1, <1>2
  <2>2. k = 0 => w = p
    BY <1>6
  <2> QED BY <1>1, <1>13, <2>1, <2>2
<1>15. ASSUME NEW i \in 1..N
       PROVE  Moves(r, g[i - 1], events[i], g[i])
  <2>1. i \in 0..N /\ i - 1 \in 0..N /\ i - 1 # N
    BY <1>1
  <2>2. CASE i = 1 /\ k = 1
    <3>1. i # N /\ ~(i < k) /\ i - 1 < k
      BY <1>1, <1>2, <2>2
    <3> QED BY <1>3, <1>11, <1>13, <2>1, <2>2, <3>1
  <2>3. CASE i = N
    <3>1. ~(i - 1 < k)
      BY <1>1, <1>2, <2>3
    <3> QED BY <1>3, <1>10, <1>13, <2>1, <2>3, <3>1
  <2>4. CASE i > k /\ i < N /\ events[i].name = "RewardAllocated"
    <3>1. i # N /\ ~(i < k) /\ ~(i - 1 < k)
      BY <1>1, <2>4
    <3> QED BY <1>12, <1>13, <2>1, <2>4, <3>1
  <2> QED BY <1>4, <2>2, <2>3, <2>4
<1>16. Leads(r, p, events, q)
  BY <1>14, <1>15 DEF Leads, N
<1>17. ASSUME NEW x, x # r, NEW i \in 1..N
       PROVE  ~About(events[i], x)
  BY <1>3, <1>4, <1>17 DEF About
<1> QED BY <1>1, <1>16, <1>17 DEF N

LEMMA SettleProposalMirrors ==
  ASSUME IInv, MirrorInv, ContractOK, NEW r \in Rounds, SettleProposal(r)
  PROVE  MirrorInv'
<1>1. PICK c, first, f, rewards, last, events :
        /\ c = contract[r] /\ first = Finalized(r)
        /\ f = IF c.winner = 0 THEN <<first>> ELSE <<>>
        /\ rewards = [i \in DOMAIN c.options |->
                        [name |-> "RewardAllocated", member |-> c.options[i].proposer]]
        /\ last = [name |-> "ProposalSettled", round |-> r]
        /\ events = f \o rewards \o <<last>>
  OBVIOUS
<1>2. /\ stage[r] = 4 /\ c.options # <<>> /\ Emit(events) /\ UNCHANGED stage
      /\ contract' = [contract EXCEPT ![r] = Settled(c)]
  BY <1>1 DEF SettleProposal
<1>3. Sound(c) /\ contract = [x \in Rounds |-> contract[x]]
  BY <1>1, SoundContract
<1>4. /\ first.name = "VoteFinalized" /\ About(first, r) /\ Announces(first, c)
      /\ last.name = "ProposalSettled" /\ About(last, r)
  BY <1>1, FinalizedAnnounces DEF About
<1>5. PICK k : Parts(c, first, last, events, k) /\ (k = 0 <=> c.winner # 0)
  <2>1. Parts(c, first, last, events, Len(f)) /\ (Len(f) = 0 <=> f = <<>>)
    BY <1>1, <1>3, SettlementParts DEF Sound
  <2>2. <<first>> # <<>>
    OBVIOUS
  <2> QED BY <1>1, <2>1, <2>2
<1>6. PICK p, q : p = Now(r) /\ q = Now(r)'
  OBVIOUS
<1>7. contract'[r] = Settled(c)
  BY <1>2, <1>3
<1>8. (stage[r] # 0) = TRUE /\ (stage'[r] # 0) = TRUE
  BY <1>2
<1>9. p.born /\ p.c = c /\ q.born /\ q.c = Settled(c)
  <2>1. p = [born |-> TRUE, c |-> c]
    BY <1>1, <1>6, <1>8, Zenon DEF Now
  <2>2. q = [born |-> TRUE, c |-> Settled(c)]
    BY <1>6, <1>7, <1>8, Zenon DEF Now
  <2> QED BY <2>1, <2>2
<1>10. /\ Len(events) \in Nat /\ Leads(r, p, events, q)
       /\ \A x : x # r => \A i \in 1..Len(events) : ~About(events[i], x)
  BY <1>2, <1>3, <1>4, <1>5, <1>9, SettlementLeads
<1>11. \A x \in Rounds \ {r} : stage'[x] = stage[x] /\ contract'[x] = contract[x]
  BY <1>2, <1>3
<1>12. \A i \in 1..Len(events) : \A x \in Rounds \ {r} : ~About(events[i], x)
  BY <1>10
<1>13. Leads(r, Now(r), events, Now(r)')
  BY <1>6, <1>10
<1>14. stage'[r] # 0
  BY <1>2
<1> QED BY <1>2, <1>10, <1>11, <1>12, <1>13, <1>14, OneRoundMirrors

-----------------------------------------------------------------------------
(* Steps that leave the chain alone.                                        *)
LEMMA SamePlace ==
  ASSUME MirrorInv, UNCHANGED <<contract, log, applied>>, Tables(tables) => Tables(tables'),
         \A r \in Rounds : stage'[r] = 0 <=> stage[r] = 0, touched \subseteq touched',
         \A r \in Rounds \ touched' : \A p :
           Tables(tables) /\ Reflects(tables.rows[r], p) => Reflects(tables'.rows[r], p)
  PROVE  MirrorInv'
<1>1. ASSUME NEW r \in Rounds \ touched'
      PROVE  \E h, k : Traced(r, h, k)'
  <2>1. PICK h, k : Traced(r, h, k)
    BY DEF MirrorInv
  <2>2. Now(r)' = Now(r)
    <3>1. (stage'[r] # 0) = (stage[r] # 0)
      OBVIOUS
    <3> QED BY <3>1, Zenon DEF Now
  <2>3. Latest' = Latest
    BY DEF Latest
  <2>4. Reflects(tables'.rows[r], h[k]) /\ Tables(tables)'
    BY <2>1 DEF Traced, Tables, IsTables
  <2>5. Traced(r, h, k)'
    BY <2>1, <2>2, <2>3, <2>4 DEF Traced
  <2> QED BY <2>5
<1> QED BY <1>1 DEF MirrorInv

LEMMA DeadlineMirrors ==
  ASSUME MirrorInv, ContractOK, NEW r \in Rounds, DeadlinePasses(r)
  PROVE  MirrorInv'
<1>1. /\ UNCHANGED <<contract, log, applied, tables, touched>> /\ stage[r] \in 1..3
      /\ stage' = [stage EXCEPT ![r] = @ + 1]
  BY DEF DeadlinePasses, database
<1>2. \A x \in Rounds : stage'[x] = 0 <=> stage[x] = 0
  BY <1>1 DEF ContractOK
<1> QED BY <1>1, <1>2, SamePlace

(* The row that the chain made of a round is in no group: of what members   *)
(* do, only the refresh of a read reaches it.                               *)
LEMMA RefreshShown ==
  ASSUME NEW r, RefreshProposalState(r)
  PROVE  \E row : SetRow(r, row) /\ \A p : Reflects(tables.rows[r], p) =>
           Reflects(row, p) /\ row.voters = tables.rows[r].voters
<1> DEFINE row == tables.rows[r]
           fixes == row.winner = 0 /\ row.options # <<>> /\ row.counted > 0
           new == [row EXCEPT !.winner = IF fixes THEN MostVotes(row) ELSE @,
                              !.settled = TRUE,
                              !.failed = @ \/ (~row.settled /\ row.counted = 0)]
<1>1. row # NoRow /\ SetRow(r, new)
  BY DEF RefreshProposalState
<1>2. ASSUME NEW p, Reflects(row, p)
      PROVE  Reflects(new, p) /\ new.voters = row.voters
  <2>1. p.born /\ Shows(row, p.c)
    BY <1>1, <1>2 DEF Reflects
  <2>2. PICK o, b : o = row /\ b = (row.failed \/ (~row.settled /\ row.counted = 0))
    OBVIOUS
  <2>3. ~fixes
    BY <2>1 DEF Shows
  <2>4. IsRow(o)
    BY <2>1, <2>2 DEF Shows
  <2>5. PICK v : v = [o EXCEPT !.settled = TRUE, !.failed = b]
    OBVIOUS
  <2>6. /\ IsRow(v) /\ v.options = o.options /\ v.winner = o.winner /\ v.orders = o.orders
        /\ v.settled = TRUE /\ v.counted = o.counted /\ v.grouped = o.grouped
        /\ v.voters = o.voters
    BY <2>4, <2>5 DEF IsRow
  <2>7. new = v
    <3> HIDE DEF row
    <3> QED BY <2>2, <2>3, <2>4, <2>5 DEF IsRow
  <2>8. Shows(v, p.c)
    BY <2>1, <2>2, <2>6 DEF Shows, Payers
  <2> HIDE DEF new
  <2> QED BY <2>1, <2>2, <2>6, <2>7, <2>8 DEF Reflects
<1> HIDE DEF new
<1> QED BY <1>1, <1>2

LEMMA LocalStepMirrors ==
  ASSUME MirrorInv, NEW r \in Rounds, LocalStep(r)
  PROVE  MirrorInv'
<1>1. ASSUME NEW row, SetRow(r, row), touched \subseteq touched',
             r \in touched' \/ \A p : Reflects(tables.rows[r], p) => Reflects(row, p)
      PROVE  MirrorInv'
  <2>1. UNCHANGED <<stage, contract, log, applied>> /\ tables' = Written(tables, r, row)
    BY <1>1 DEF SetRow, chain, Written
  <2>2. Tables(tables) =>
          Tables(tables') /\ \A x \in Rounds : tables'.rows[x] = IF x = r THEN row ELSE tables.rows[x]
    BY <2>1, RowWritten
  <2> QED BY <1>1, <2>1, <2>2, SamePlace
<1>2. CASE LinkProposalChain(r)
  <2>1. touched' = touched \cup {r} /\ SetRow(r, NewRow(TRUE))
    BY <1>2 DEF LinkProposalChain
  <2> QED BY <1>1, <2>1
<1>3. CASE tables.rows[r] # NoRow /\ tables.rows[r].grouped /\ (\E row : SetRow(r, row)) /\ UNCHANGED touched
  <2>1. \A p : ~Reflects(tables.rows[r], p)
    BY <1>3 DEF Reflects, Shows
  <2> QED BY <1>1, <1>3, <2>1
<1>4. CASE RefreshProposalState(r)
  <2>1. UNCHANGED touched
    BY <1>4 DEF RefreshProposalState
  <2>2. PICK row : SetRow(r, row) /\ \A p : Reflects(tables.rows[r], p) =>
          Reflects(row, p) /\ row.voters = tables.rows[r].voters
    BY <1>4, RefreshShown
  <2> QED BY <1>1, <2>1, <2>2
<1>5. \/ LinkProposalChain(r) \/ RefreshProposalState(r)
      \/ tables.rows[r] # NoRow /\ tables.rows[r].grouped /\ (\E row : SetRow(r, row)) /\ UNCHANGED touched
  <2>1. CASE DeleteProposalRound(r)
    BY <2>1 DEF DeleteProposalRound
  <2>2. ASSUME NEW x, InsertProposalOption(r, x)
        PROVE  tables.rows[r] # NoRow /\ tables.rows[r].grouped /\ (\E row : SetRow(r, row)) /\ UNCHANGED touched
    BY <2>2 DEF InsertProposalOption
  <2>3. ASSUME NEW o, NEW i, LinkProposalOptionChain(r, o, i)
        PROVE  tables.rows[r] # NoRow /\ tables.rows[r].grouped /\ (\E row : SetRow(r, row)) /\ UNCHANGED touched
    BY <2>3 DEF LinkProposalOptionChain
  <2>4. ASSUME NEW o, NEW m, RecordVote(r, o, m)
        PROVE  tables.rows[r] # NoRow /\ tables.rows[r].grouped /\ (\E row : SetRow(r, row)) /\ UNCHANGED touched
    BY <2>4 DEF RecordVote
  <2> QED BY <2>1, <2>2, <2>3, <2>4 DEF LocalStep
<1> QED BY <1>2, <1>3, <1>4, <1>5

-----------------------------------------------------------------------------
(* The blocks after the k-th up to the j-th take a row from where the round *)
(* was after k blocks to where it was after j.                              *)
LEMMA BatchShown ==
  ASSUME LogPays, Tables(tables), Latest \in Nat, Blocks = 1..Latest, NEW r \in Rounds, NEW h,
         \A b \in 1..Latest : Leads(r, h[b - 1], log[b], h[b]),
         NEW k \in 0..Latest, NEW j \in 0..Latest, k <= j, Reflects(tables.rows[r], h[k]),
         NEW batch, batch = (k + 1)..j, NEW u \in ApplyBlocks(batch)
  PROVE  Tables(u) /\ Reflects(u.rows[r], h[j])
<1> DEFINE N == Latest
           at(n) == IF n <= k THEN k ELSE IF n <= j THEN n ELSE j
<1>1. PICK f : AfterBlocks(f, tables, batch, N) /\ ApplyBlocks(batch) = f[N]
  BY ApplyBlocksUnfolds
<1> DEFINE G == {n \in 0..N : \A v \in f[n] : Tables(v) /\ Reflects(v.rows[r], h[at(n)])}
<1>2. 0 \in G
  <2>1. at(0) = k /\ 0 \in 0..N
    OBVIOUS
  <2>2. \A v \in f[0] : v = tables
    BY <1>1 DEF AfterBlocks
  <2> HIDE DEF at
  <2> QED BY <2>1, <2>2
<1>3. ASSUME NEW n \in 1..N, n - 1 \in G
      PROVE  n \in G
  <2>0. n \in 0..N
    OBVIOUS
  <2>1. \A v \in f[n - 1] : Tables(v) /\ Reflects(v.rows[r], h[at(n - 1)])
    BY <1>3
  <2>2. CASE n \notin batch
    <3>1. f[n] = f[n - 1]
      BY <1>1, <2>2 DEF AfterBlocks
    <3>2. at(n) = at(n - 1)
      BY <2>2
    <3> HIDE DEF at
    <3> QED BY <2>0, <2>1, <3>1, <3>2
  <2>3. CASE n \in batch
    <3>1. at(n) = n /\ at(n - 1) = n - 1
      BY <2>3
    <3> HIDE DEF at, G
    <3>2. Leads(r, h[n - 1], log[n], h[n]) /\ Len(log[n]) \in Nat
      BY DEF LogPays
    <3>3. ASSUME NEW v \in f[n] PROVE Tables(v) /\ Reflects(v.rows[r], h[n])
      <4>1. v \in ResultsOfAll(f[n - 1], log[n])
        BY <1>1, <2>3 DEF AfterBlocks
      <4>2. PICK x \in f[n - 1] : v \in ApplyAll(x, log[n])
        BY <4>1 DEF ResultsOfAll
      <4>3. Tables(x) /\ Reflects(x.rows[r], h[n - 1])
        BY <2>1, <3>1, <4>2
      <4> QED BY <3>2, <4>2, <4>3, BlockShown
    <3> QED BY <2>0, <3>1, <3>3 DEF G
  <2> QED BY <2>2, <2>3
<1>4. N \in G
  <2> HIDE DEF G, N
  <2>1. N \in Nat
    BY DEF N
  <2>2. \A n \in 1..N : n - 1 \in G => n \in G
    BY <1>3
  <2>3. \A n \in 0..N : n \in G
    BY <1>2, <2>1, <2>2, UpTo
  <2> QED BY <2>1, <2>3
<1>5. at(N) = j
  OBVIOUS
<1> HIDE DEF at
<1> QED BY <1>1, <1>4, <1>5

LEMMA StoreMirrors ==
  ASSUME IInv, IInv', RewardsInv, MirrorInv, NEW w \in Syncers, StoreChainEvents(w)
  PROVE  MirrorInv'
<1> DEFINE batch == Batch(syncer[w].from, syncer[w].to)
           new == Unapplied(batch)
<1>1. /\ UNCHANGED <<stage, contract, log, touched>> /\ applied' = applied \cup batch
      /\ \E t \in ApplyBlocks(new) : tables' = t
  BY DEF StoreChainEvents, chain
<1>2. new = applied' \ applied /\ applied \subseteq applied'
  BY <1>1 DEF Unapplied
<1> HIDE DEF batch, new
<1>3. LogPays
  BY DEF RewardsInv
<1>4. PICK u \in ApplyBlocks(new) : tables' = u
  BY <1>1
<1>5. Latest \in Nat /\ Blocks = 1..Latest /\ Latest' = Latest
  BY <1>1, TakenIsPrefix DEF Latest
<1>6. PICK k \in 0..Latest : applied = 1..k
  BY TakenIsPrefix
<1>7. PICK j \in 0..Latest : applied' = 1..j
  <2>1. applied' \in SUBSET (1..Latest)
    BY <1>1, <1>5 DEF IInv, SyncTyped, Blocks
  <2>2. \A b \in applied' : \A a \in 1..b : a \in applied'
    BY DEF IInv, InOrder
  <2> QED BY <1>5, <2>1, <2>2, PrefixExists
<1>8. k <= j /\ new = (k + 1)..j
  <2>1. k <= j
    <3>1. CASE k = 0
      BY <1>5, <3>1
    <3>2. CASE k # 0
      <4>1. k \in applied
        BY <1>5, <1>6, <3>2
      <4>2. k \in 1..j
        BY <1>2, <1>7, <4>1
      <4> QED BY <1>5, <4>2
    <3> QED BY <3>1, <3>2
  <2> QED BY <1>2, <1>5, <1>6, <1>7, <2>1
<1>9. ASSUME NEW r \in Rounds \ touched
      PROVE  \E h, i : Traced(r, h, i)'
  <2>1. PICK h, i : Traced(r, h, i)
    BY DEF MirrorInv
  <2>2. i = k
    <3>1. i \in 0..Latest /\ 1..i = 1..k
      BY <1>6, <2>1 DEF Traced
    <3> QED BY <1>5, <3>1
  <2>3. /\ \A b \in 1..Latest : Leads(r, h[b - 1], log[b], h[b])
        /\ h[Latest] = Now(r) /\ Tables(tables) /\ Reflects(tables.rows[r], h[k])
    BY <2>1, <2>2 DEF Traced
  <2>4. Tables(u) /\ Reflects(u.rows[r], h[j])
    BY <1>3, <1>4, <1>5, <1>8, <2>3, BatchShown
  <2>5. Now(r)' = Now(r)
    BY <1>1 DEF Now
  <2>6. Tables(tables)' /\ Reflects(tables'.rows[r], h[j])
    BY <1>4, <2>4 DEF Tables, IsTables
  <2>7. Traced(r, h, j)'
    BY <1>1, <1>5, <1>7, <2>3, <2>5, <2>6 DEF Traced
  <2> QED BY <2>7
<1> QED BY <1>1, <1>9 DEF MirrorInv

-----------------------------------------------------------------------------
LEMMA InitMirrors == Init => MirrorInv
<1> SUFFICES ASSUME Init PROVE MirrorInv OBVIOUS
<1>1. /\ log = <<>> /\ applied = {} /\ stage = [r \in Rounds |-> 0]
      /\ contract = [r \in Rounds |-> NewRound]
      /\ tables = [rows |-> [r \in Rounds |-> NoRow], rewards |-> [m \in Members |-> 0]]
  BY DEF Init
<1>2. Latest = 0 /\ 0 \in 0..0 /\ 1..0 = {}
  BY <1>1 DEF Latest
<1>3. Tables(tables)
  BY <1>1 DEF Tables, IsTables
<1>4. ASSUME NEW r \in Rounds PROVE \E h, k : Traced(r, h, k)
  <2>1. PICK p : p = Now(r)
    OBVIOUS
  <2>2. PICK h : h[0] = p
    <3>1. [n \in {0} |-> p][0] = p
      OBVIOUS
    <3> QED BY <3>1
  <2>3. ~p.born
    <3>1. (stage[r] # 0) = FALSE
      BY <1>1
    <3>2. p = [born |-> FALSE, c |-> contract[r]]
      BY <2>1, <3>1, Zenon DEF Now
    <3> QED BY <3>2
  <2>4. Reflects(tables.rows[r], h[0])
    BY <1>1, <2>2, <2>3 DEF Reflects
  <2>5. Traced(r, h, 0)
    BY <1>1, <1>2, <1>3, <2>1, <2>2, <2>4 DEF Traced
  <2> QED BY <2>5
<1>5. \A r \in Rounds : contract[r] = NewRound
  BY <1>1
<1> QED BY <1>4, <1>5 DEF MirrorInv

LEMMA ChainStepMirrors ==
  ASSUME IInv, MirrorInv, ContractOK, ContractOK', NEW r \in Rounds, ChainStep(r)
  PROVE  MirrorInv'
<1>1. CASE CreateProposal(r)
  BY <1>1, CreateProposalMirrors
<1>2. CASE FinalizeVote(r)
  BY <1>2, FinalizeVoteMirrors
<1>3. CASE SettleProposal(r)
  BY <1>3, SettleProposalMirrors
<1>4. CASE DeadlinePasses(r)
  BY <1>4, DeadlineMirrors
<1>5. ASSUME NEW m \in Members, NEW x \in Merchants, AddOption(r, x, m)
      PROVE  MirrorInv'
  BY <1>5, AddOptionMirrors
<1>6. ASSUME NEW m \in Members, NEW i \in DOMAIN contract[r].options, NEW n \in Amounts,
             Vote(r, i, m, n)
      PROVE  MirrorInv'
  BY <1>6, VoteMirrors
<1>7. ASSUME NEW m \in Members, NEW b \in Baskets, PlaceOrder(r, m, b)
      PROVE  MirrorInv'
  BY <1>7, PlaceOrderMirrors
<1>8. ASSUME NEW m \in Members, CancelOrder(r, m)
      PROVE  MirrorInv'
  BY <1>8, CancelOrderMirrors
<1> QED BY <1>1, <1>2, <1>3, <1>4, <1>5, <1>6, <1>7, <1>8 DEF ChainStep

LEMMA StepMirrors ==
  ASSUME IInv, IInv', RewardsInv, RewardsInv', MirrorInv, [Next]_vars
  PROVE  MirrorInv'
<1>0. ContractOK /\ ContractOK'
  BY DEF RewardsInv
<1>1. CASE \E r \in Rounds : ChainStep(r)
  BY <1>0, <1>1, ChainStepMirrors
<1>2. CASE \E r \in Rounds : LocalStep(r)
  BY <1>2, LocalStepMirrors
<1>3. CASE \E w \in Syncers : StoreChainEvents(w)
  BY <1>3, StoreMirrors
<1>4. CASE UNCHANGED <<stage, contract, log, applied, tables, touched>>
  BY <1>4, SamePlace
<1>5. ASSUME NEW w \in Syncers,
             ReadStatus(w) \/ SyncRange(w) \/ StoreRefused(w) \/ SyncRangeFails(w)
      PROVE  UNCHANGED <<stage, contract, log, applied, tables, touched>>
  BY <1>5 DEF ReadStatus, SyncRange, StoreRefused, SyncRangeFails, chain, database
<1>6. CASE Crash \/ UNCHANGED vars
  BY <1>4, <1>6 DEF Crash, vars, chain, database
<1> QED BY <1>1, <1>2, <1>3, <1>4, <1>5, <1>6 DEF Next, SyncStep

LEMMA ShownIsMirrored ==
  ASSUME NEW row, NEW c, Sound(c), Shows(row, c)
  PROVE  Mirrors(row, c)
<1>1. Len(c.options) \in Nat /\ row.options = Copies(c)
  BY SoundTypes DEF Shows
<1>2. OptionIds(row) = 1..Len(c.options) /\ Len(row.options) = Len(c.options)
  <2>1. PICK n, s : n = Len(c.options) /\ s = Copies(c)
    OBVIOUS
  <2>2. DOMAIN s = 1..n
    BY <2>1 DEF Copies
  <2> DEFINE S == {s[o] : o \in 1..n}
  <2>3. s \in [1..n -> S]
    BY <2>1 DEF Copies
  <2> HIDE DEF S
  <2>4. s \in Seq(S)
    BY <1>1, <2>1, <2>3, SeqDef
  <2>5. Len(s) = n
    BY <1>1, <2>1, <2>2, <2>4, LenProperties
  <2> QED BY <1>1, <2>1, <2>2, <2>5 DEF OptionIds
<1>3. \A o \in 1..Len(c.options) :
        /\ row.options[o].index = o - 1
        /\ row.options[o].merchant = c.options[o].merchant
        /\ row.options[o].weight = Shown(c, o)
  BY <1>1 DEF Copies
<1> QED BY <1>2, <1>3 DEF Mirrors, Shows, Payers

(* Whatever members do meanwhile, and however synchronisations overlap,     *)
(* fail and go back: the row of a round that no member has touched shows,   *)
(* with everything taken in, what the contract holds of it                  *)
(* (applyChainEventTxGorm, StoreChainEvents).                               *)
THEOREM RoundsAreMirrored == Spec => []MirrorAgrees
<1>1. Init => RewardsInv /\ MirrorInv
  BY InitPays, InitMirrors
<1>2. IInv /\ IInv' /\ RewardsInv /\ MirrorInv /\ [Next]_vars => RewardsInv' /\ MirrorInv'
  BY StepPays, StepMirrors
<1>3. IInv /\ RewardsInv /\ MirrorInv => MirrorAgrees
  <2> SUFFICES ASSUME IInv, RewardsInv, MirrorInv, CaughtUp, NEW r \in Rounds \ touched
               PROVE  IF stage[r] = 0 THEN tables.rows[r] = NoRow
                      ELSE Mirrors(tables.rows[r], contract[r])
    BY DEF MirrorAgrees
  <2>1. PICK h, k : Traced(r, h, k)
    BY DEF MirrorInv
  <2>2. k = Latest
    <3>1. Latest \in Nat /\ k \in 0..Latest /\ 1..k = 1..Latest
      BY <2>1, TakenIsPrefix DEF Traced, CaughtUp
    <3> QED BY <3>1
  <2>3. PICK p : p = Now(r)
    OBVIOUS
  <2>4. Reflects(tables.rows[r], p)
    BY <2>1, <2>2, <2>3 DEF Traced
  <2>5. Sound(contract[r])
    BY SoundContract DEF RewardsInv
  <2>6. CASE stage[r] = 0
    <3>1. (stage[r] # 0) = FALSE
      BY <2>6
    <3>2. p = [born |-> FALSE, c |-> contract[r]]
      BY <2>3, <3>1, Zenon DEF Now
    <3> QED BY <2>4, <2>6, <3>2 DEF Reflects
  <2>7. CASE stage[r] # 0
    <3>1. (stage[r] # 0) = TRUE
      BY <2>7
    <3>2. p = [born |-> TRUE, c |-> contract[r]]
      BY <2>3, <3>1, Zenon DEF Now
    <3> QED BY <2>4, <2>5, <2>7, <3>2, ShownIsMirrored DEF Reflects
  <2> QED BY <2>6, <2>7
<1> QED BY <1>1, <1>2, <1>3, Invariance, PTL DEF Spec

-----------------------------------------------------------------------------
(* Who has voted in a round, by the blocks in S, and by its row.            *)
Votes(events, r) == events[1].name = "Voted" /\ events[1].round = r
VotersIn(r, S) == {log[b][1].member : b \in {x \in S : Votes(log[x], r)}}
VotersOK(row, V) == row # NoRow => row.voters \subseteq V

(* Two of the options have the same merchant.                               *)
Twice(c) == \E i, j \in DOMAIN c.options : i # j /\ c.options[i].merchant = c.options[j].merchant

LEMMA OptionAllowed ==
  ASSUME NEW c, Sound(c), NEW row, Shows(row, c), NEW x, NEW m, ~Twice(WithOption(c, x, m))
  PROVE  EnsureOption(row, Len(c.options), x) # {}
<1> DEFINE n == Len(c.options)
           o == [merchant |-> x, proposer |-> m, votes |-> 0, shares |-> 0]
<1>1. n \in Nat /\ DOMAIN c.options = 1..n
  BY SoundTypes
<1>2. PICK d : d = WithOption(c, x, m)
  OBVIOUS
<1>3. d.options = Append(c.options, o)
  BY <1>2, WithOptionIsContract DEF Sound
<1>4. /\ DOMAIN d.options = 1..(n + 1) /\ d.options[n + 1].merchant = x
      /\ \A i \in 1..n : d.options[i] = c.options[i]
  <2> DEFINE T == {c.options[i] : i \in 1..n} \cup {o}
  <2>1. c.options \in Seq(T) /\ o \in T
    <3>1. c.options \in [1..n -> T]
      BY <1>1, LenProperties DEF Sound
    <3> QED BY <1>1, <3>1, SeqDef
  <2> HIDE DEF T
  <2>2. /\ d.options \in Seq(T) /\ Len(d.options) = n + 1 /\ d.options[n + 1] = o
        /\ \A i \in 1..n : d.options[i] = c.options[i]
    BY <1>3, <2>1, AppendProperties
  <2> QED BY <2>2, LenProperties
<1>5. ASSUME Offers(row, x) PROVE FALSE
  <2>1. PICK i \in OptionIds(row) : row.options[i].merchant = x
    BY <1>5 DEF Offers
  <2>2. i \in 1..n /\ c.options[i].merchant = x
    BY <2>1 DEF Shows, Copies, OptionIds
  <2>3. i # n + 1 /\ i \in 1..(n + 1) /\ n + 1 \in 1..(n + 1)
    BY <1>1, <2>2
  <2>4. Twice(d)
    BY <1>4, <2>2, <2>3 DEF Twice
  <2> QED BY <1>2, <2>4
<1> QED BY <1>5 DEF EnsureOption

LEMMA ChangeAllowed ==
  ASSUME NEW c, Sound(c), NEW row, Shows(row, c), NEW e, NEW d, Changes(c, e, d), ~Twice(d),
         e.name = "Voted" => e.member \notin row.voters
  PROVE  ApplyToRow(row, e) # {}
<1>1. CASE e.name = "OptionAdded"
  <2>1. /\ e.index = Len(c.options)
        /\ \E m \in Members : d = WithOption(c, e.merchant, m)
    BY <1>1 DEF Changes
  <2>2. EnsureOption(row, Len(c.options), e.merchant) # {}
    BY <2>1, OptionAllowed
  <2> QED BY <1>1, <2>1, <2>2 DEF ApplyToRow
<1>2. CASE e.name = "Voted"
  <2>1. PICK i \in DOMAIN c.options : e.index = i - 1
    BY <1>2 DEF Changes
  <2>2. EnsureOption(row, e.index, Nobody) = {row}
    <3>1. i \in 1..Len(c.options)
      BY SoundTypes
    <3>2. EnsureOption(row, i - 1, Nobody) = {row}
      BY <3>1, KnownOption
    <3> QED BY <2>1, <3>2
  <2>3. ApplyVoted(row, e) # {}
    <3> DEFINE F(v) == LET o == CHOOSE x \in MappedTo(v, e.index) : TRUE
                           k == v.options[o].weight + NormalizeTokenAmountValue(e.weight)
                       IN [Weigh(v, o, k) EXCEPT !.voters = @ \cup {e.member}]
               S == {x \in EnsureOption(row, e.index, Nobody) : e.member \notin x.voters}
    <3>1. ApplyVoted(row, e) = {F(v) : v \in S}
      BY DEF ApplyVoted
    <3>2. row \in S
      BY <1>2, <2>2
    <3> HIDE DEF F, S
    <3>3. F(row) \in {F(v) : v \in S}
      BY <3>2
    <3> QED BY <3>1, <3>3
  <2> QED BY <1>2, <2>3 DEF ApplyToRow
<1>3. CASE e.name = "VoteFinalized"
  <2>1. c.options # <<>> /\ Announces(e, c)
    BY <1>3 DEF Changes
  <2>2. EnsureOption(row, e.index, e.merchant) = {row}
    <3>1. PICK i : i = BestOption(c.options)
      OBVIOUS
    <3>2. i \in 1..Len(c.options)
      BY <2>1, <3>1, BestOptionExists
    <3>3. EnsureOption(row, i - 1, e.merchant) = {row}
      BY <3>2, KnownOption
    <3> QED BY <2>1, <3>1, <3>3 DEF Announces
  <2>3. ApplyVoteFinalized(row, e) # {}
    <3> DEFINE F(v) == LET o == CHOOSE x \in MappedTo(v, e.index) : TRUE
                       IN [Weigh(v, o, NormalizeTokenAmountValue(e.weight)) EXCEPT !.winner = o]
               S == EnsureOption(row, e.index, e.merchant)
    <3>1. ApplyVoteFinalized(row, e) = {F(v) : v \in S}
      BY DEF ApplyVoteFinalized
    <3>2. row \in S
      BY <2>2
    <3> HIDE DEF F, S
    <3>3. F(row) \in {F(v) : v \in S}
      BY <3>2
    <3> QED BY <3>1, <3>3
  <2> QED BY <1>3, <2>3 DEF ApplyToRow
<1>4. CASE e.name = "OrderPlaced"
  BY <1>4 DEF ApplyToRow, ApplyOrderPlaced
<1>5. CASE e.name = "OrderCancelled"
  BY <1>5 DEF ApplyToRow, ApplyOrderCancelled
<1> QED BY <1>1, <1>2, <1>3, <1>4, <1>5 DEF Changes

LEMMA EventAllowed ==
  ASSUME NEW t, Tables(t), NEW e, NEW r \in Rounds,
         e.name = "RewardAllocated" \/ e.round = r,
         NEW p, Reflects(t.rows[r], p), NEW q, Moves(r, p, e, q), q.born => ~Twice(q.c),
         NEW V, VotersOK(t.rows[r], V), e.name = "Voted" => e.member \notin V
  PROVE  ApplyEvent(t, e) # {}
<1>1. CASE e.name = "RewardAllocated"
  BY <1>1 DEF ApplyEvent
<1>2. CASE About(e, r) /\ e.name = "ProposalSettled"
  <2>1. p.born
    BY <1>2 DEF Moves, Changes
  <2>2. t.rows[r] # NoRow
    BY <2>1, RowIsThere DEF Reflects, Shows
  <2> QED BY <1>2, <2>2 DEF ApplyEvent, About
<1>3. CASE About(e, r) /\ e.name # "ProposalSettled"
  <2> DEFINE old == EnsureProposal(t, r)
  <2>1. ApplyEvent(t, e) = {[t EXCEPT !.rows[r] = x] : x \in ApplyToRow(old, e)}
    BY <1>3 DEF ApplyEvent, About
  <2>2. CASE e.name = "ProposalCreated"
    <3>1. ApplyToRow(old, e) = {old}
      BY <2>2 DEF ApplyToRow
    <3> QED BY <2>1, <3>1
  <2>3. CASE e.name # "ProposalCreated"
    <3>1. p.born /\ q.born /\ Changes(p.c, e, q.c) /\ Sound(p.c)
      BY <1>3, <2>3 DEF Moves, Place
    <3>2. Shows(t.rows[r], p.c)
      BY <3>1 DEF Reflects
    <3>3. old = t.rows[r] /\ t.rows[r] # NoRow
      BY <3>2, RowIsThere DEF EnsureProposal, Shows
    <3>4. e.name = "Voted" => e.member \notin t.rows[r].voters
      BY <3>3 DEF VotersOK
    <3>5. ApplyToRow(t.rows[r], e) # {}
      BY <3>1, <3>2, <3>4, ChangeAllowed
    <3> HIDE DEF old
    <3> QED BY <2>1, <3>3, <3>5
  <2> QED BY <2>2, <2>3
<1> QED BY <1>1, <1>2, <1>3 DEF About

-----------------------------------------------------------------------------
(* Only a vote adds a voter.                                                *)
LEMMA WeighedVoters ==
  ASSUME NEW row, IsRow(row), NEW o, NEW w
  PROVE  IsRow(Weigh(row, o, w)) /\ Weigh(row, o, w).voters = row.voters
<1> SUFFICES ASSUME NEW os, os = [row.options EXCEPT ![o] = [row.options[o] EXCEPT !.weight = w]]
             PROVE  LET d == [row EXCEPT !.options = os] IN IsRow(d) /\ d.voters = row.voters
  BY DEF Weigh
<1> QED BY DEF IsRow

LEMMA ChangeVoters ==
  ASSUME NEW row, IsRow(row), NEW e, NEW u \in ApplyToRow(row, e),
         e.name \in {"ProposalCreated", "OptionAdded", "Voted", "VoteFinalized",
                    "OrderPlaced", "OrderCancelled"}
  PROVE  /\ u.voters \subseteq row.voters \cup (IF e.name = "Voted" THEN {e.member} ELSE {})
         /\ IsRow(u)
<1>1. ASSUME NEW i, NEW x, NEW v \in EnsureOption(row, i, x)
      PROVE  IsRow(v) /\ v.voters = row.voters
  <2>1. v = row \/ \E os : v = Relisted(row, os)
    BY DEF EnsureOption, Relisted
  <2> QED BY <2>1, RelistedRow
<1>2. CASE e.name = "ProposalCreated"
  BY <1>2 DEF ApplyToRow
<1>3. CASE e.name = "OptionAdded"
  <2>1. u \in EnsureOption(row, e.index, e.merchant)
    BY <1>3 DEF ApplyToRow
  <2> QED BY <1>1, <2>1
<1>4. CASE e.name = "Voted"
  <2>1. u \in ApplyVoted(row, e)
    BY <1>4 DEF ApplyToRow
  <2>2. PICK v \in EnsureOption(row, e.index, Nobody) :
          \E o, k : u = [Weigh(v, o, k) EXCEPT !.voters = @ \cup {e.member}]
    BY <2>1 DEF ApplyVoted
  <2>3. PICK o, k : u = [Weigh(v, o, k) EXCEPT !.voters = @ \cup {e.member}]
    BY <2>2
  <2>4. PICK w : w = Weigh(v, o, k)
    OBVIOUS
  <2>5. IsRow(w) /\ w.voters = row.voters
    <3>1. IsRow(v) /\ v.voters = row.voters
      BY <1>1
    <3>2. IsRow(Weigh(v, o, k)) /\ Weigh(v, o, k).voters = v.voters
      <4>1. IsRow(v)
        BY <3>1
      <4> QED BY ONLY <4>1, WeighedVoters
    <3> QED BY <2>4, <3>1, <3>2
  <2>6. PICK vs : vs = w.voters \cup {e.member}
    OBVIOUS
  <2>7. u = [w EXCEPT !.voters = vs]
    BY <2>3, <2>4, <2>6
  <2>8. IsRow(u) /\ u.voters = vs
    BY <2>5, <2>7 DEF IsRow
  <2> QED BY <1>4, <2>5, <2>6, <2>8
<1>5. CASE e.name = "VoteFinalized"
  <2>1. u \in ApplyVoteFinalized(row, e)
    BY <1>5 DEF ApplyToRow
  <2>2. PICK v \in EnsureOption(row, e.index, e.merchant) :
          \E o, k : u = [Weigh(v, o, k) EXCEPT !.winner = o]
    BY <2>1 DEF ApplyVoteFinalized
  <2>a. PICK o, k : u = [Weigh(v, o, k) EXCEPT !.winner = o]
    BY <2>2
  <2>3. PICK w : w = Weigh(v, o, k)
    OBVIOUS
  <2>4. IsRow(w) /\ w.voters = row.voters
    <3>1. IsRow(v) /\ v.voters = row.voters
      BY <1>1
    <3>2. IsRow(Weigh(v, o, k)) /\ Weigh(v, o, k).voters = v.voters
      <4>1. IsRow(v)
        BY <3>1
      <4> QED BY ONLY <4>1, WeighedVoters
    <3> QED BY <2>3, <3>1, <3>2
  <2>5. u = [w EXCEPT !.winner = o]
    BY <2>a, <2>3
  <2>6. IsRow(u) /\ u.voters = w.voters
    BY <2>4, <2>5 DEF IsRow
  <2> QED BY <2>4, <2>6
<1>6. CASE e.name \in {"OrderPlaced", "OrderCancelled"}
  <2>1. PICK os : u = [row EXCEPT !.orders = os]
    BY <1>6 DEF ApplyToRow, ApplyOrderPlaced, ApplyOrderCancelled
  <2>2. IsRow(u) /\ u.voters = row.voters
    BY <2>1 DEF IsRow
  <2> QED BY <2>2
<1> QED BY <1>2, <1>3, <1>4, <1>5, <1>6

-----------------------------------------------------------------------------
NewVoter(e, r) == IF About(e, r) /\ e.name = "Voted" THEN {e.member} ELSE {}

LEMMA EventVoters ==
  ASSUME NEW t, Tables(t), NEW r \in Rounds, NEW p, Reflects(t.rows[r], p),
         NEW e, NEW q, Moves(r, p, e, q), NEW u \in ApplyEvent(t, e),
         NEW V, VotersOK(t.rows[r], V)
  PROVE  VotersOK(u.rows[r], V \cup NewVoter(e, r))
<1>1. CASE ~About(e, r)
  <2>1. u.rows[r] = t.rows[r]
    BY <1>1, EventWrites
  <2> QED BY <2>1 DEF VotersOK
<1>2. CASE About(e, r) /\ e.name = "ProposalSettled"
  <2>1. Shows(t.rows[r], p.c)
    BY <1>2 DEF Moves, Changes, Reflects
  <2>2. u = [t EXCEPT !.rows[r].settled = TRUE]
    BY <1>2 DEF ApplyEvent, About
  <2>3. PICK o, row : o = t.rows[r] /\ row = [o EXCEPT !.settled = TRUE]
    OBVIOUS
  <2>4. u = Written(t, r, row)
    BY <2>2, <2>3 DEF Written
  <2>5. u.rows[r] = row
    BY <2>4, RowWritten
  <2>6. IsRow(o) /\ o # NoRow
    BY <2>1, <2>3, RowIsThere DEF Shows
  <2>7. row.voters = o.voters
    BY <2>3, <2>6 DEF IsRow
  <2> QED BY <2>3, <2>5, <2>6, <2>7 DEF VotersOK
<1>3. CASE About(e, r) /\ e.name # "ProposalSettled"
  <2> DEFINE old == EnsureProposal(t, r)
  <2>1. PICK row \in ApplyToRow(old, e) : u = Written(t, r, row)
    <3>1. u \in {[t EXCEPT !.rows[e.round] = x] : x \in ApplyToRow(EnsureProposal(t, e.round), e)}
      BY <1>3 DEF ApplyEvent, About
    <3> QED BY <1>3, <3>1 DEF About, Written
  <2>2. u.rows[r] = row
    BY <2>1, RowWritten
  <2>3. e.name \in {"ProposalCreated", "OptionAdded", "Voted", "VoteFinalized",
                    "OrderPlaced", "OrderCancelled"}
    BY <1>3 DEF Moves, Changes
  <2>4. IsRow(old) /\ old.voters \subseteq V
    <3>1. CASE t.rows[r] = NoRow
      <4>1. old = NewRow(FALSE)
        BY <3>1 DEF EnsureProposal
      <4> QED BY <4>1 DEF NewRow, IsRow
    <3>2. CASE t.rows[r] # NoRow
      BY <3>2 DEF Reflects, Shows, EnsureProposal, VotersOK
    <3> QED BY <3>1, <3>2
  <2> HIDE DEF old
  <2>5. row.voters \subseteq old.voters \cup (IF e.name = "Voted" THEN {e.member} ELSE {})
    BY <2>1, <2>3, <2>4, ChangeVoters
  <2> QED BY <1>3, <2>2, <2>4, <2>5 DEF VotersOK, NewVoter
<1> QED BY <1>1, <1>2, <1>3

-----------------------------------------------------------------------------
(* A block is about one round, and a vote is the first of its events.       *)
Formed(events) ==
  /\ Len(events) \in Nat \ {0}
  /\ \A i \in 1..Len(events) : events[i].name = "Voted" => i = 1
  /\ \E r \in Rounds : \A i \in 1..Len(events) :
       events[i].name = "RewardAllocated" \/ events[i].round = r

BlockVoter(events, r) == IF Votes(events, r) THEN {events[1].member} ELSE {}

LEMMA BlockVoters ==
  ASSUME NEW t, Tables(t), NEW r \in Rounds, NEW p, Reflects(t.rows[r], p),
         NEW events, Formed(events), NEW q, Leads(r, p, events, q),
         NEW V, VotersOK(t.rows[r], V), NEW u \in ApplyAll(t, events)
  PROVE  VotersOK(u.rows[r], V \cup BlockVoter(events, r))
<1> DEFINE N == Len(events)
           W == V \cup BlockVoter(events, r)
<1>0. N \in Nat
  BY DEF Formed
<1>1. PICK f : AfterEvents(f, t, events, N) /\ ApplyAll(t, events) = f[N]
  BY <1>0, ApplyAllUnfolds
<1>2. PICK g : /\ g[0] = p /\ g[N] = q
               /\ \A n \in 1..N : Moves(r, g[n - 1], events[n], g[n])
  BY DEF Leads
<1> DEFINE G == {n \in 0..N : \A v \in f[n] : /\ Tables(v) /\ Reflects(v.rows[r], g[n])
                                              /\ VotersOK(v.rows[r], W)}
<1>3. 0 \in G
  BY <1>0, <1>1, <1>2 DEF AfterEvents, VotersOK
<1>4. ASSUME NEW n \in 1..N, n - 1 \in G
      PROVE  n \in G
  <2>0. n \in 0..N
    OBVIOUS
  <2> SUFFICES ASSUME NEW v \in f[n]
               PROVE  Tables(v) /\ Reflects(v.rows[r], g[n]) /\ VotersOK(v.rows[r], W)
    BY <2>0
  <2>1. v \in Results(f[n - 1], events[n])
    BY <1>1 DEF AfterEvents
  <2>2. PICK x \in f[n - 1] : v \in ApplyEvent(x, events[n])
    BY <2>1 DEF Results
  <2>3. Tables(x) /\ Reflects(x.rows[r], g[n - 1]) /\ VotersOK(x.rows[r], W)
    BY <1>4, <2>2
  <2>4. Moves(r, g[n - 1], events[n], g[n])
    BY <1>2
  <2>5. NewVoter(events[n], r) \subseteq W
    BY DEF NewVoter, About, Formed, BlockVoter, Votes
  <2> HIDE DEF G, W
  <2>6. Tables(v) /\ Reflects(v.rows[r], g[n])
    BY <2>2, <2>3, <2>4, EventShown
  <2>7. VotersOK(v.rows[r], W \cup NewVoter(events[n], r))
    BY <2>2, <2>3, <2>4, EventVoters
  <2>8. W \cup NewVoter(events[n], r) = W
    BY <2>5
  <2> QED BY <2>6, <2>7, <2>8
<1>5. N \in G
  <2> HIDE DEF G, N
  <2>1. \A n \in 1..N : n - 1 \in G => n \in G
    BY <1>4
  <2>2. \A n \in 0..N : n \in G
    BY <1>0, <1>3, <2>1, UpTo
  <2> QED BY <1>0, <2>2
<1> QED BY <1>1, <1>5

(* What holds at one point and is carried on holds at the end.              *)
LEMMA CarriedOn ==
  ASSUME NEW N \in Nat, NEW B, NEW k \in 0..N, k \in B, \A n \in 1..N : n - 1 \in B => n \in B
  PROVE  N \in B
<1> DEFINE G == {n \in 0..N : n < k \/ n \in B}
<1>1. 0 \in G
  BY DEF G
<1>2. ASSUME NEW n \in 1..N, n - 1 \in G PROVE n \in G
  <2>1. CASE n < k
    BY <2>1
  <2>2. CASE n = k
    BY <2>2
  <2>3. CASE n > k
    <3>1. n - 1 \in B
      BY <1>2, <2>3
    <3> QED BY <3>1
  <2> QED BY <2>1, <2>2, <2>3
<1>3. \A n \in 0..N : n \in G
  <2> HIDE DEF G
  <2>1. \A n \in 1..N : n - 1 \in G => n \in G
    BY <1>2
  <2> QED BY <1>1, <2>1, UpTo
<1> QED BY <1>3

(* Two options of one merchant stay that.                                   *)
TwiceAt(p) == p.born /\ Twice(p.c)

LEMMA TwiceStays ==
  ASSUME NEW r, NEW p, NEW e, NEW q, Moves(r, p, e, q), TwiceAt(p)
  PROVE  TwiceAt(q)
<1> SUFFICES ASSUME q # p PROVE q.born /\ Twice(q.c)
  BY DEF TwiceAt
<1>1. q.born /\ (Changes(p.c, e, q.c) \/ q.c = Closed(p.c)) /\ Sound(p.c)
  BY DEF Moves, TwiceAt, Place
<1>2. PICK c, d : c = p.c /\ d = q.c
  OBVIOUS
<1>3. /\ Len(c.options) \in Nat /\ DOMAIN c.options = 1..Len(c.options) /\ Sound(c)
      /\ \A i \in 1..Len(c.options) : c.options[i] \in Choice
  BY <1>1, <1>2, SoundTypes
<1>4. \A i \in DOMAIN c.options : i \in DOMAIN d.options /\ d.options[i].merchant = c.options[i].merchant
  <2>1. CASE d.options = c.options
    BY <2>1
  <2>2. ASSUME NEW x, NEW m, d = WithOption(c, x, m)
        PROVE  \A i \in DOMAIN c.options : i \in DOMAIN d.options /\ d.options[i].merchant = c.options[i].merchant
    <3> DEFINE o == [merchant |-> x, proposer |-> m, votes |-> 0, shares |-> 0]
               T == {c.options[i] : i \in 1..Len(c.options)} \cup {o}
    <3>1. d.options = Append(c.options, o)
      BY <1>3, <2>2, WithOptionIsContract DEF Sound
    <3>2. c.options \in Seq(T) /\ o \in T
      <4>1. c.options \in [1..Len(c.options) -> T]
        BY <1>3, LenProperties DEF Sound
      <4> QED BY <1>3, <4>1, SeqDef
    <3> HIDE DEF T
    <3>3. /\ d.options \in Seq(T) /\ Len(d.options) = Len(c.options) + 1
          /\ \A i \in 1..Len(c.options) : d.options[i] = c.options[i]
      BY <3>1, <3>2, AppendProperties
    <3>4. DOMAIN d.options = 1..(Len(c.options) + 1)
      BY <3>3, LenProperties
    <3> QED BY <1>3, <3>3, <3>4
  <2>3. ASSUME NEW i \in DOMAIN c.options, e.weight \in Nat, d = WithVote(c, i, e.weight)
        PROVE  \A j \in DOMAIN c.options : j \in DOMAIN d.options /\ d.options[j].merchant = c.options[j].merchant
    <3>1. d.options = [c.options EXCEPT ![i] = VotedFor(c.options[i], e.weight)]
      BY <1>3, <2>3, WithVoteIsContract DEF Sound
    <3>2. c.options[i] \in Choice
      BY <1>3
    <3>3. VotedFor(c.options[i], e.weight).merchant = c.options[i].merchant
      BY <2>3, <3>2, VotedForIsChoice
    <3>4. PICK o : o = VotedFor(c.options[i], e.weight)
      OBVIOUS
    <3> QED BY <3>1, <3>3, <3>4
  <2>4. CASE e.name \in {"VoteFinalized", "OrderPlaced", "OrderCancelled"} /\ Changes(c, e, d)
    <3>1. d = WithWinner(c) \/ \E ms : d = WithOrders(c, ms)
      BY <2>4 DEF Changes
    <3>2. d.options = c.options
      BY <1>3, <3>1, WithWinnerIsContract, WithOrdersIsContract DEF Sound
    <3> QED BY <3>2, <2>1
  <2>5. CASE d = Closed(c)
    <3>1. d.options = c.options
      BY <1>3, <2>5 DEF Closed, Sound, IsContract
    <3> QED BY <3>1, <2>1
  <2> QED BY <1>1, <1>2, <2>2, <2>3, <2>4, <2>5 DEF Changes
<1>5. Twice(c)
  BY <1>2 DEF TwiceAt
<1> QED BY <1>1, <1>2, <1>4, <1>5 DEF Twice

LEMMA TwiceLeads ==
  ASSUME NEW r, NEW p, NEW events, Len(events) \in Nat, NEW q, Leads(r, p, events, q), TwiceAt(p)
  PROVE  TwiceAt(q)
<1>1. PICK g : /\ g[0] = p /\ g[Len(events)] = q
               /\ \A n \in 1..Len(events) : Moves(r, g[n - 1], events[n], g[n])
  BY DEF Leads
<1> DEFINE B == {n \in 0..Len(events) : TwiceAt(g[n])}
<1>2. 0 \in B /\ 0 \in 0..Len(events)
  BY <1>1
<1>3. ASSUME NEW n \in 1..Len(events), n - 1 \in B
      PROVE  n \in B
  <2>1. TwiceAt(g[n - 1]) /\ Moves(r, g[n - 1], events[n], g[n])
    BY <1>1, <1>3
  <2>2. TwiceAt(g[n]) /\ n \in 0..Len(events)
    BY <2>1, TwiceStays
  <2> QED BY <2>2
<1>4. Len(events) \in B
  <2> HIDE DEF B
  <2> QED BY <1>2, <1>3, CarriedOn
<1> QED BY <1>1, <1>4

LEMMA BlockAllowed ==
  ASSUME NEW t, Tables(t), NEW events, Formed(events), NEW r \in Rounds,
         \A i \in 1..Len(events) : events[i].name = "RewardAllocated" \/ events[i].round = r,
         NEW p, Reflects(t.rows[r], p), NEW q, Leads(r, p, events, q), ~TwiceAt(q),
         NEW V, VotersOK(t.rows[r], V), Votes(events, r) => events[1].member \notin V
  PROVE  ApplyAll(t, events) # {}
<1> DEFINE N == Len(events)
<1>0. N \in Nat
  BY DEF Formed
<1>1. PICK f : AfterEvents(f, t, events, N) /\ ApplyAll(t, events) = f[N]
  BY <1>0, ApplyAllUnfolds
<1>2. PICK g : /\ g[0] = p /\ g[N] = q
               /\ \A n \in 1..N : Moves(r, g[n - 1], events[n], g[n])
  BY DEF Leads
<1>3. ASSUME NEW k \in 0..N PROVE ~TwiceAt(g[k])
  <2> DEFINE B == {n \in 0..N : TwiceAt(g[n])}
  <2>1. ASSUME NEW n \in 1..N, n - 1 \in B
        PROVE  n \in B
    <3>1. TwiceAt(g[n - 1]) /\ Moves(r, g[n - 1], events[n], g[n])
      BY <1>2, <2>1
    <3>2. TwiceAt(g[n]) /\ n \in 0..N
      BY <3>1, TwiceStays
    <3> QED BY <3>2
  <2>2. k \in B => N \in B
    <3> HIDE DEF B, N
    <3> QED BY <1>0, <2>1, CarriedOn
  <2> SUFFICES ASSUME TwiceAt(g[k]) PROVE FALSE
    OBVIOUS
  <2>3. N \in B
    BY <2>2
  <2>4. TwiceAt(g[N])
    BY <2>3
  <2> QED BY <1>2, <2>4
<1> DEFINE G == {n \in 0..N : f[n] # {} /\ \A v \in f[n] : Tables(v) /\ Reflects(v.rows[r], g[n])}
<1>4. 0 \in G
  <2>1. f[0] = {t} /\ g[0] = p /\ 0 \in 0..N
    BY <1>0, <1>1, <1>2 DEF AfterEvents
  <2>2. f[0] # {} /\ \A v \in f[0] : Tables(v) /\ Reflects(v.rows[r], g[0])
    BY <2>1
  <2> HIDE DEF N
  <2> QED BY <2>1, <2>2
<1>5. ASSUME NEW n \in 1..N, n - 1 \in G
      PROVE  n \in G
  <2>0. n \in 0..N /\ n - 1 \in 0..N
    BY <1>0
  <2>1. f[n] = Results(f[n - 1], events[n])
    BY <1>1 DEF AfterEvents
  <2>2. Moves(r, g[n - 1], events[n], g[n])
    BY <1>2
  <2>3. ASSUME NEW v \in f[n] PROVE Tables(v) /\ Reflects(v.rows[r], g[n])
    <3>1. PICK x \in f[n - 1] : v \in ApplyEvent(x, events[n])
      BY <2>1 DEF Results
    <3>2. Tables(x) /\ Reflects(x.rows[r], g[n - 1])
      BY <1>5
    <3> QED BY <2>2, <3>1, <3>2, EventShown
  <2>4. PICK x \in f[n - 1] : Tables(x) /\ Reflects(x.rows[r], g[n - 1])
    BY <1>5
  <2>5. ~TwiceAt(g[n])
    BY <1>3, <2>0
  <2>6. ApplyEvent(x, events[n]) # {}
    <3>1. events[n].name = "RewardAllocated" \/ events[n].round = r
      OBVIOUS
    <3>2. g[n].born => ~Twice(g[n].c)
      BY <2>5 DEF TwiceAt
    <3>3. CASE events[n].name = "Voted"
      <4>1. n = 1
        BY <3>3 DEF Formed
      <4>2. x = t
        BY <1>1, <4>1 DEF AfterEvents
      <4>3. events[n].name = "Voted" => events[n].member \notin V
        BY <3>1, <3>3, <4>1 DEF Votes
      <4>4. VotersOK(x.rows[r], V)
        BY <4>2
      <4> QED BY <2>2, <2>4, <3>1, <3>2, <4>3, <4>4, EventAllowed
    <3>4. CASE events[n].name # "Voted"
      <4>1. VotersOK(x.rows[r], x.rows[r].voters)
        BY DEF VotersOK
      <4> QED BY <2>2, <2>4, <3>1, <3>2, <3>4, <4>1, EventAllowed
    <3> QED BY <3>3, <3>4
  <2>7. f[n] # {}
    BY <2>1, <2>4, <2>6 DEF Results
  <2> QED BY <2>0, <2>3, <2>7
<1>6. N \in G
  <2> HIDE DEF G, N
  <2>1. \A n \in 1..N : n - 1 \in G => n \in G
    BY <1>5
  <2>2. \A n \in 0..N : n \in G
    BY <1>0, <1>4, <2>1, UpTo
  <2> QED BY <1>0, <2>2
<1> QED BY <1>1, <1>6

-----------------------------------------------------------------------------
VotersInv ==
  /\ \A b \in Blocks : Formed(log[b])
  /\ \A r \in Rounds \ touched : VotersOK(tables.rows[r], VotersIn(r, applied))

(* The tables that the blocks after the k-th up to the n-th may leave.      *)
LEMMA BatchVoters ==
  ASSUME LogPays, Latest \in Nat, Blocks = 1..Latest, \A b \in Blocks : Formed(log[b]),
         Tables(tables), NEW r \in Rounds, NEW h,
         \A b \in 1..Latest : Leads(r, h[b - 1], log[b], h[b]),
         NEW k \in 0..Latest, NEW j \in 0..Latest, k <= j, Reflects(tables.rows[r], h[k]),
         VotersOK(tables.rows[r], VotersIn(r, 1..k)),
         NEW f, AfterBlocks(f, tables, (k + 1)..j, Latest)
  PROVE  /\ \A v \in f[Latest] : VotersOK(v.rows[r], VotersIn(r, 1..j))
         /\ \A n \in k..j : \A v \in f[n] :
              Tables(v) /\ Reflects(v.rows[r], h[n]) /\ VotersOK(v.rows[r], VotersIn(r, 1..n))
<1> DEFINE N == Latest
           batch == (k + 1)..j
           at(n) == IF n <= k THEN k ELSE IF n <= j THEN n ELSE j
           Fine(v, n) == Tables(v) /\ Reflects(v.rows[r], h[n]) /\ VotersOK(v.rows[r], VotersIn(r, 1..n))
           G == {n \in 0..N : \A v \in f[n] : Fine(v, at(n))}
<1>1. AfterBlocks(f, tables, batch, N)
  OBVIOUS
<1>2. 0 \in G
  <2>1. at(0) = k /\ 0 \in 0..N
    OBVIOUS
  <2>2. \A v \in f[0] : v = tables
    BY <1>1 DEF AfterBlocks
  <2>3. Fine(tables, k)
    OBVIOUS
  <2> HIDE DEF at, Fine
  <2> QED BY <2>1, <2>2, <2>3
<1>3. ASSUME NEW n \in 1..N, n - 1 \in G
      PROVE  n \in G
  <2>0. n \in 0..N
    OBVIOUS
  <2>1. \A v \in f[n - 1] : Fine(v, at(n - 1))
    BY <1>3
  <2>2. CASE n \notin batch
    <3>1. f[n] = f[n - 1]
      BY <1>1, <2>2 DEF AfterBlocks
    <3>2. at(n) = at(n - 1)
      BY <2>2
    <3> HIDE DEF at, Fine
    <3> QED BY <2>0, <2>1, <3>1, <3>2
  <2>3. CASE n \in batch
    <3>1. at(n) = n /\ at(n - 1) = n - 1
      BY <2>3
    <3> HIDE DEF at, G
    <3>2. Leads(r, h[n - 1], log[n], h[n]) /\ Len(log[n]) \in Nat /\ Formed(log[n])
      BY DEF LogPays
    <3>3. ASSUME NEW v \in f[n] PROVE Fine(v, n)
      <4>1. v \in ResultsOfAll(f[n - 1], log[n])
        BY <1>1, <2>3 DEF AfterBlocks
      <4>2. PICK x \in f[n - 1] : v \in ApplyAll(x, log[n])
        BY <4>1 DEF ResultsOfAll
      <4>3. /\ Tables(x) /\ Reflects(x.rows[r], h[n - 1])
            /\ VotersOK(x.rows[r], VotersIn(r, 1..(n - 1)))
        BY <2>1, <3>1, <4>2
      <4>4. Tables(v) /\ Reflects(v.rows[r], h[n])
        BY <3>2, <4>2, <4>3, BlockShown
      <4>5. VotersOK(v.rows[r], VotersIn(r, 1..(n - 1)) \cup BlockVoter(log[n], r))
        BY <3>2, <4>2, <4>3, BlockVoters
      <4>6. VotersIn(r, 1..(n - 1)) \cup BlockVoter(log[n], r) \subseteq VotersIn(r, 1..n)
        <5>1. n \in 1..n /\ \A i \in 1..(n - 1) : i \in 1..n
          OBVIOUS
        <5> QED BY <5>1 DEF VotersIn, BlockVoter
      <4>7. VotersOK(v.rows[r], VotersIn(r, 1..n))
        BY <4>5, <4>6 DEF VotersOK
      <4> QED BY <4>4, <4>7
    <3> QED BY <2>0, <3>1, <3>3 DEF G
  <2> QED BY <2>2, <2>3
<1>4. \A n \in 0..N : n \in G
  <2> HIDE DEF G, N
  <2>1. N \in Nat
    BY DEF N
  <2>2. \A n \in 1..N : n - 1 \in G => n \in G
    BY <1>3
  <2> QED BY <1>2, <2>1, <2>2, UpTo
<1>5. N \in 0..N /\ at(N) = j /\ \A n \in k..j : n \in 0..N /\ at(n) = n
  OBVIOUS
<1> HIDE DEF at, N
<1> QED BY <1>4, <1>5 DEF N

(* What is taken in, and a synchronisation adds to it, as numbers of blocks.*)
LEMMA BatchIsRange ==
  ASSUME IInv, NEW w \in Syncers, syncer[w].at = "store"
  PROVE  \E k, j \in 0..Latest :
           /\ k <= j /\ applied = 1..k
           /\ Unapplied(Batch(syncer[w].from, syncer[w].to)) = (k + 1)..j
<1>1. Latest \in Nat /\ Blocks = 1..Latest
  BY TakenIsPrefix
<1>2. PICK k \in 0..Latest : applied = 1..k
  BY TakenIsPrefix
<1>3. PICK from, to : from = syncer[w].from /\ to = syncer[w].to
  OBVIOUS
<1>4. from \in Nat /\ to \in Nat /\ to <= Latest /\ \A b \in Blocks : b < from => b \in applied
  <2>1. syncer[w] \in SyncerState
    BY DEF IInv, SyncTyped
  <2>2. from \in Nat /\ to \in Nat
    BY <1>3, <2>1 DEF SyncerState
  <2>3. to <= Latest /\ Below(from)
    BY <1>3 DEF IInv, RangesSafe
  <2> QED BY <2>2, <2>3 DEF Below
<1>5. Unapplied(Batch(from, to)) = {b \in 1..Latest : from <= b /\ b <= to /\ b \notin 1..k}
  BY <1>1, <1>2 DEF Unapplied, Batch
<1>6. PICK j \in 0..Latest : j = IF to <= k THEN k ELSE to
  BY <1>1, <1>2, <1>4
<1>7. k <= j
  BY <1>1, <1>2, <1>4, <1>6
<1>8. ASSUME NEW b \in 1..Latest, b \notin 1..k, b <= to
      PROVE  from <= b
  BY <1>1, <1>2, <1>4, <1>8
<1>9. Unapplied(Batch(from, to)) = (k + 1)..j
  <2>1. ASSUME NEW b \in Unapplied(Batch(from, to)) PROVE b \in (k + 1)..j
    BY <1>1, <1>4, <1>5, <1>6
  <2>2. ASSUME NEW b \in (k + 1)..j PROVE b \in Unapplied(Batch(from, to))
    <3>1. b \in 1..Latest /\ b <= to /\ b \notin 1..k
      BY <1>1, <1>4, <1>6
    <3> QED BY <1>5, <1>8, <3>1
  <2> QED BY <2>1, <2>2
<1> QED BY <1>2, <1>3, <1>7, <1>9

-----------------------------------------------------------------------------
LEMMA InitVoters == Init => VotersInv
<1> SUFFICES ASSUME Init PROVE VotersInv OBVIOUS
<1>1. log = <<>> /\ tables.rows = [r \in Rounds |-> NoRow]
  BY DEF Init
<1> QED BY <1>1 DEF VotersInv, VotersOK, Blocks

LEMMA EmitVoters ==
  ASSUME IInv, VotersInv, NEW events, Emit(events), Formed(events)
  PROVE  VotersInv'
<1>1. log' = Append(log, events) /\ applied' = applied /\ tables' = tables /\ touched' = touched
  BY DEF Emit, database
<1>2. log \in Seq(Logged) /\ applied \subseteq Blocks
  BY DEF IInv, SyncTyped
<1>3. /\ Blocks' = Blocks \cup {Len(log) + 1} /\ log'[Len(log) + 1] = events
      /\ \A b \in Blocks : log'[b] = log[b]
  <2>1. /\ Len(log) \in Nat /\ DOMAIN log = 1..Len(log) /\ DOMAIN log' = 1..(Len(log) + 1)
        /\ log'[Len(log) + 1] = events
    BY <1>1, <1>2, LogGrows
  <2>2. \A b \in 1..Len(log) : log'[b] = log[b]
    BY <1>1, <1>2, AppendProperties
  <2> QED BY <2>1, <2>2 DEF Blocks
<1>4. \A r : VotersIn(r, applied)' = VotersIn(r, applied)
  BY <1>1, <1>2, <1>3 DEF VotersIn
<1>5. \A b \in Blocks' : Formed(log'[b])
  BY <1>3 DEF VotersInv
<1> QED BY <1>1, <1>4, <1>5 DEF VotersInv, Formed

LEMMA SingleFormed ==
  ASSUME NEW e, NEW r \in Rounds, e.round = r
  PROVE  Formed(<<e>>)
<1>1. Len(<<e>>) = 1 /\ <<e>>[1] = e /\ 1 \in Nat \ {0} /\ 1..1 = {1}
  OBVIOUS
<1> QED BY <1>1 DEF Formed

LEMMA SettlementFormed ==
  ASSUME NEW r \in Rounds, NEW c, Sound(c), NEW first, first.name = "VoteFinalized", first.round = r,
         NEW last, last.name = "ProposalSettled", last.round = r,
         NEW events, NEW k, Parts(c, first, last, events, k)
  PROVE  Formed(events)
<1> DEFINE n == Len(c.options)
<1>1. n \in Nat /\ k \in {0, 1} /\ Len(events) = k + n + 1
  BY SoundTypes DEF Parts
<1>2. /\ k = 1 => events[1] = first
      /\ \A i \in 1..n : events[i + k].name = "RewardAllocated"
      /\ events[k + n + 1] = last
  BY DEF Parts
<1> HIDE DEF n
<1>3. ASSUME NEW i \in 1..Len(events)
      PROVE  events[i] \in {first, last} \/ events[i].name = "RewardAllocated"
  <2>1. CASE i = k + n + 1
    BY <1>2, <2>1
  <2>2. CASE i = 1 /\ k = 1
    BY <1>2, <2>2
  <2>3. CASE i # k + n + 1 /\ ~(i = 1 /\ k = 1)
    <3>1. i - k \in 1..n /\ i = (i - k) + k
      BY <1>1, <2>3
    <3> QED BY <1>2, <3>1
  <2> QED BY <2>1, <2>2, <2>3
<1>4. Len(events) \in Nat \ {0}
  BY <1>1
<1> QED BY <1>3, <1>4 DEF Formed

LEMMA ChainStepForms ==
  ASSUME ContractOK, NEW r \in Rounds, ChainStep(r)
  PROVE  \/ \E events : Emit(events) /\ Formed(events)
         \/ UNCHANGED <<log, applied, tables, touched>>
<1>1. CASE CreateProposal(r)
  <2>1. PICK e : e.round = r /\ Emit(<<e>>)
    BY <1>1 DEF CreateProposal
  <2> QED BY <2>1, SingleFormed
<1>2. CASE FinalizeVote(r)
  <2>1. PICK e : e.round = r /\ Emit(<<e>>)
    BY <1>2, FinalizedAnnounces DEF FinalizeVote
  <2> QED BY <2>1, SingleFormed
<1>3. CASE SettleProposal(r)
  <2>1. PICK c, first, f, rewards, last, events :
          /\ c = contract[r] /\ first = Finalized(r)
          /\ f = IF c.winner = 0 THEN <<first>> ELSE <<>>
          /\ rewards = [i \in DOMAIN c.options |->
                          [name |-> "RewardAllocated", member |-> c.options[i].proposer]]
          /\ last = [name |-> "ProposalSettled", round |-> r]
          /\ events = f \o rewards \o <<last>>
    OBVIOUS
  <2>2. Emit(events)
    BY <1>3, <2>1 DEF SettleProposal
  <2>3. Sound(c)
    BY <2>1, SoundContract
  <2>4. Parts(c, first, last, events, Len(f))
    BY <2>1, <2>3, SettlementParts DEF Sound
  <2>5. /\ first.name = "VoteFinalized" /\ first.round = r
        /\ last.name = "ProposalSettled" /\ last.round = r
    BY <2>1, FinalizedAnnounces
  <2>6. Formed(events)
    BY <2>3, <2>4, <2>5, SettlementFormed
  <2> QED BY <2>2, <2>6
<1>4. CASE DeadlinePasses(r)
  BY <1>4 DEF DeadlinePasses, database
<1>5. ASSUME NEW m \in Members, NEW x \in Merchants, AddOption(r, x, m)
      PROVE  \E events : Emit(events) /\ Formed(events)
  <2>1. PICK e : e.round = r /\ Emit(<<e>>)
    BY <1>5 DEF AddOption
  <2> QED BY <2>1, SingleFormed
<1>6. ASSUME NEW m \in Members, NEW i, NEW n, Vote(r, i, m, n)
      PROVE  \E events : Emit(events) /\ Formed(events)
  <2>1. PICK e : e.round = r /\ Emit(<<e>>)
    BY <1>6 DEF Vote
  <2> QED BY <2>1, SingleFormed
<1>7. ASSUME NEW m \in Members, NEW b, PlaceOrder(r, m, b) \/ CancelOrder(r, m)
      PROVE  \E events : Emit(events) /\ Formed(events)
  <2>1. PICK e : e.round = r /\ Emit(<<e>>)
    BY <1>7 DEF PlaceOrder, CancelOrder
  <2> QED BY <2>1, SingleFormed
<1> QED BY <1>1, <1>2, <1>3, <1>4, <1>5, <1>6, <1>7 DEF ChainStep

LEMMA LocalStepVoters ==
  ASSUME MirrorInv, VotersInv, NEW r \in Rounds, LocalStep(r)
  PROVE  VotersInv'
<1>1. UNCHANGED <<log, applied>> /\ touched \subseteq touched'
  BY DEF LocalStep, LinkProposalChain, DeleteProposalRound, RefreshProposalState,
         InsertProposalOption, LinkProposalOptionChain, RecordVote, SetRow, chain
<1>2. \A x, S : VotersIn(x, S)' = VotersIn(x, S)
  BY <1>1 DEF VotersIn
<1>3. ASSUME NEW x \in Rounds \ touched'
      PROVE  VotersOK(tables'.rows[x], VotersIn(x, applied))
  <2>1. PICK h, k : Traced(x, h, k)
    BY <1>1 DEF MirrorInv
  <2>2. Tables(tables) /\ Reflects(tables.rows[x], h[k])
    BY <2>1 DEF Traced
  <2>3. VotersOK(tables.rows[x], VotersIn(x, applied))
    BY <1>1 DEF VotersInv
  <2>4. PICK row : SetRow(r, row)
    BY DEF LocalStep, LinkProposalChain, DeleteProposalRound, RefreshProposalState,
           InsertProposalOption, LinkProposalOptionChain, RecordVote
  <2>5. CASE x # r
    <3>1. tables' = Written(tables, r, row)
      BY <2>4 DEF SetRow, Written
    <3>2. tables'.rows[x] = tables.rows[x]
      BY <2>2, <2>5, <3>1, RowWritten
    <3> QED BY <2>3, <3>2
  <2>6. CASE x = r
    <3>1. ~LinkProposalChain(r)
      BY <2>6 DEF LinkProposalChain
    <3>2. ~(tables.rows[r] # NoRow /\ tables.rows[r].grouped)
      BY <2>2, <2>6 DEF Reflects, Shows
    <3>3. RefreshProposalState(r)
      BY <3>1, <3>2 DEF LocalStep, DeleteProposalRound, InsertProposalOption,
                        LinkProposalOptionChain, RecordVote
    <3>4. PICK new : /\ SetRow(r, new)
                     /\ \A p : Reflects(tables.rows[r], p) =>
                          Reflects(new, p) /\ new.voters = tables.rows[r].voters
      BY <3>3, RefreshShown
    <3>5. tables' = Written(tables, r, new)
      BY <3>4 DEF SetRow, Written
    <3>6. tables'.rows[r] = new
      BY <2>2, <3>5, RowWritten
    <3>7. tables.rows[r] # NoRow /\ new.voters = tables.rows[r].voters
      BY <2>2, <2>6, <3>3, <3>4 DEF RefreshProposalState
    <3> QED BY <2>3, <2>6, <3>6, <3>7 DEF VotersOK
  <2> QED BY <2>5, <2>6
<1> QED BY <1>1, <1>2, <1>3 DEF VotersInv, Blocks, Formed

LEMMA StoreVoters ==
  ASSUME IInv, RewardsInv, MirrorInv, VotersInv, NEW w \in Syncers, StoreChainEvents(w)
  PROVE  VotersInv'
<1> DEFINE batch == Batch(syncer[w].from, syncer[w].to)
           new == Unapplied(batch)
<1>1. /\ UNCHANGED <<log, touched>> /\ applied' = applied \cup batch /\ syncer[w].at = "store"
      /\ \E t \in ApplyBlocks(new) : tables' = t
  BY DEF StoreChainEvents, chain
<1>2. PICK k, j \in 0..Latest : k <= j /\ applied = 1..k /\ new = (k + 1)..j
  BY <1>1, BatchIsRange
<1>3. Latest \in Nat /\ Blocks = 1..Latest
  BY TakenIsPrefix
<1>4. applied' = 1..j
  <2>1. applied' = applied \cup new
    BY <1>1 DEF Unapplied
  <2> HIDE DEF new
  <2> QED BY <1>2, <1>3, <2>1
<1> HIDE DEF batch, new
<1>5. PICK f : AfterBlocks(f, tables, new, Latest) /\ ApplyBlocks(new) = f[Latest]
  BY <1>3, ApplyBlocksUnfolds
<1>6. PICK u \in f[Latest] : tables' = u
  BY <1>1, <1>5
<1>7. LogPays /\ \A b \in Blocks : Formed(log[b])
  BY DEF RewardsInv, VotersInv
<1>8. ASSUME NEW r \in Rounds \ touched
      PROVE  VotersOK(u.rows[r], VotersIn(r, 1..j))
  <2>1. PICK h, i : Traced(r, h, i)
    BY DEF MirrorInv
  <2>2. i = k
    <3>1. i \in 0..Latest /\ 1..i = 1..k
      BY <1>2, <2>1 DEF Traced
    <3> QED BY <1>2, <1>3, <3>1
  <2>3. /\ \A b \in 1..Latest : Leads(r, h[b - 1], log[b], h[b])
        /\ Tables(tables) /\ Reflects(tables.rows[r], h[k])
    BY <2>1, <2>2 DEF Traced
  <2>4. VotersOK(tables.rows[r], VotersIn(r, 1..k))
    BY <1>2 DEF VotersInv
  <2>5. AfterBlocks(f, tables, (k + 1)..j, Latest)
    BY <1>2, <1>5
  <2> QED BY <1>2, <1>3, <1>6, <1>7, <2>3, <2>4, <2>5, BatchVoters
<1>9. \A r, S : VotersIn(r, S)' = VotersIn(r, S)
  BY <1>1 DEF VotersIn
<1> QED BY <1>1, <1>4, <1>6, <1>7, <1>8, <1>9 DEF VotersInv, Blocks, Formed

LEMMA StepVoters ==
  ASSUME IInv, RewardsInv, MirrorInv, VotersInv, [Next]_vars
  PROVE  VotersInv'
<1>1. ASSUME UNCHANGED <<log, applied, tables, touched>> PROVE VotersInv'
  BY <1>1 DEF VotersInv, VotersIn, Blocks, Formed
<1>2. CASE \E r \in Rounds : ChainStep(r)
  BY <1>1, <1>2, ChainStepForms, EmitVoters DEF RewardsInv
<1>3. CASE \E r \in Rounds : LocalStep(r)
  BY <1>3, LocalStepVoters
<1>4. CASE \E w \in Syncers : StoreChainEvents(w)
  BY <1>4, StoreVoters
<1>5. ASSUME NEW w \in Syncers,
             ReadStatus(w) \/ SyncRange(w) \/ StoreRefused(w) \/ SyncRangeFails(w)
      PROVE  UNCHANGED <<log, applied, tables, touched>>
  BY <1>5 DEF ReadStatus, SyncRange, StoreRefused, SyncRangeFails, chain, database
<1>6. CASE Crash \/ UNCHANGED vars
  BY <1>1, <1>6 DEF Crash, vars, chain, database
<1> QED BY <1>1, <1>2, <1>3, <1>4, <1>5, <1>6 DEF Next, SyncStep

-----------------------------------------------------------------------------
(* A batch reaches the tables: each of its blocks is allowed by the tables  *)
(* that the blocks before it left.                                          *)
LEMMA BatchAllowed ==
  ASSUME IInv, RewardsInv, MirrorInv, VotersInv, touched = {}, ~SameTwice,
         NEW k \in 0..Latest, NEW j \in 0..Latest, k <= j, applied = 1..k,
         NEW f, AfterBlocks(f, tables, (k + 1)..j, Latest)
  PROVE  f[Latest] # {}
<1> DEFINE N == Latest
           G == {n \in 0..N : f[n] # {}}
<1>1. N \in Nat /\ Blocks = 1..N
  BY TakenIsPrefix
<1>2. 0 \in G
  BY <1>1 DEF AfterBlocks
<1>3. ASSUME NEW n \in 1..N, n - 1 \in G
      PROVE  n \in G
  <2>0. n \in 0..N /\ n \in Blocks
    BY <1>1
  <2>1. CASE n \notin (k + 1)..j
    <3>1. f[n] = f[n - 1]
      BY <2>1 DEF AfterBlocks
    <3> QED BY <1>3, <2>0, <3>1
  <2>2. CASE n \in (k + 1)..j
    <3>1. f[n] = ResultsOfAll(f[n - 1], log[n])
      BY <2>2 DEF AfterBlocks
    <3>2. Formed(log[n])
      BY <2>0 DEF VotersInv
    <3>3. PICK r \in Rounds : \A i \in 1..Len(log[n]) :
                   log[n][i].name = "RewardAllocated" \/ log[n][i].round = r
      BY <3>2 DEF Formed
    <3>4. PICK h, i : Traced(r, h, i)
      BY DEF MirrorInv
    <3>5. i = k
      <4>1. i \in 0..N /\ 1..i = 1..k
        BY <3>4 DEF Traced
      <4> QED BY <1>1, <4>1
    <3>6. /\ \A b \in 1..N : Leads(r, h[b - 1], log[b], h[b])
          /\ h[N] = Now(r)
          /\ Tables(tables) /\ Reflects(tables.rows[r], h[k])
      BY <3>4, <3>5 DEF Traced
    <3>7. PICK x \in f[n - 1] : TRUE
      BY <1>3
    <3>8. /\ Tables(x) /\ Reflects(x.rows[r], h[n - 1])
          /\ VotersOK(x.rows[r], VotersIn(r, 1..(n - 1)))
      <4>1. VotersOK(tables.rows[r], VotersIn(r, 1..k))
        BY DEF VotersInv
      <4>2. LogPays /\ \A b \in Blocks : Formed(log[b])
        BY DEF RewardsInv, VotersInv
      <4>3. n - 1 \in k..j
        BY <2>2
      <4>4. \A a \in k..j : \A v \in f[a] :
              Tables(v) /\ Reflects(v.rows[r], h[a]) /\ VotersOK(v.rows[r], VotersIn(r, 1..a))
        BY <1>1, <3>6, <4>1, <4>2, BatchVoters
      <4> QED BY <3>7, <4>3, <4>4
    <3>9. ~TwiceAt(h[n])
      <4> DEFINE B == {a \in 0..N : TwiceAt(h[a])}
      <4> SUFFICES ASSUME TwiceAt(h[n]) PROVE FALSE
        OBVIOUS
      <4>1. ASSUME NEW a \in 1..N, a - 1 \in B
            PROVE  a \in B
        <5>1. Leads(r, h[a - 1], log[a], h[a]) /\ TwiceAt(h[a - 1])
          BY <3>6, <4>1
        <5>2. Len(log[a]) \in Nat
          BY <1>1 DEF VotersInv, Formed
        <5>3. TwiceAt(h[a]) /\ a \in 0..N
          BY <5>1, <5>2, TwiceLeads
        <5> QED BY <5>3
      <4>2. n \in B
        BY <2>0
      <4>3. N \in B
        <5> HIDE DEF B, N
        <5> QED BY <1>1, <2>0, <4>1, <4>2, CarriedOn
      <4>4. TwiceAt(Now(r))
        BY <3>6, <4>3
      <4>5. Twice(contract[r])
        <5>1. Now(r).c = contract[r]
          BY Zenon DEF Now
        <5> QED BY <4>4, <5>1 DEF TwiceAt
      <4> QED BY <4>5 DEF Twice, SameTwice
    <3>10. Votes(log[n], r) => log[n][1].member \notin VotersIn(r, 1..(n - 1))
      <4> SUFFICES ASSUME Votes(log[n], r), log[n][1].member \in VotersIn(r, 1..(n - 1))
                   PROVE  FALSE
        OBVIOUS
      <4>1. PICK b \in 1..(n - 1) : Votes(log[b], r) /\ log[b][1].member = log[n][1].member
        BY DEF VotersIn
      <4>2. b # n /\ b \in Blocks
        BY <1>1, <4>1
      <4> QED BY <2>0, <4>1, <4>2 DEF SameTwice, Votes
    <3>11. Leads(r, h[n - 1], log[n], h[n])
      BY <3>6
    <3>12. ApplyAll(x, log[n]) # {}
      BY <3>2, <3>3, <3>8, <3>9, <3>10, <3>11, BlockAllowed
    <3> QED BY <2>0, <3>1, <3>7, <3>12 DEF ResultsOfAll
  <2> QED BY <2>1, <2>2
<1>4. N \in G
  <2> HIDE DEF G, N
  <2>1. \A n \in 1..N : n - 1 \in G => n \in G
    BY <1>3
  <2>2. \A n \in 0..N : n \in G
    BY <1>1, <1>2, <2>1, UpTo
  <2> QED BY <1>1, <2>2
<1> QED BY <1>4

(* The tables never refuse the blocks that a synchronisation brings, which  *)
(* would stop it for ever, while the members leave the rounds alone and     *)
(* the contract let nobody vote twice and no merchant stand twice           *)
(* (StoreChainEvents, applyChainEventTxGorm, the unique keys of the tables).*)
THEOREM NothingIsRefused == Spec => []NothingRefused
<1>1. Init => RewardsInv /\ MirrorInv /\ VotersInv
  BY InitPays, InitMirrors, InitVoters
<1>2. /\ IInv /\ IInv' /\ RewardsInv /\ MirrorInv /\ VotersInv /\ [Next]_vars
      => RewardsInv' /\ MirrorInv' /\ VotersInv'
  BY StepPays, StepMirrors, StepVoters
<1>3. IInv /\ RewardsInv /\ MirrorInv /\ VotersInv => NothingRefused
  <2> SUFFICES ASSUME IInv, RewardsInv, MirrorInv, VotersInv, touched = {}, ~SameTwice,
                      NEW w \in Syncers, syncer[w].at = "store"
               PROVE  ApplyBlocks(Unapplied(Batch(syncer[w].from, syncer[w].to))) # {}
    BY DEF NothingRefused
  <2>1. PICK new : new = Unapplied(Batch(syncer[w].from, syncer[w].to))
    OBVIOUS
  <2>2. PICK k, j \in 0..Latest : k <= j /\ applied = 1..k /\ new = (k + 1)..j
    BY <2>1, BatchIsRange
  <2>3. Latest \in Nat
    BY TakenIsPrefix
  <2>4. PICK f : AfterBlocks(f, tables, new, Latest) /\ ApplyBlocks(new) = f[Latest]
    BY <2>3, ApplyBlocksUnfolds
  <2>5. f[Latest] # {}
    BY <2>2, <2>4, BatchAllowed
  <2> QED BY <2>1, <2>4, <2>5
<1> QED BY <1>1, <1>2, <1>3, Invariance, PTL DEF Spec
=============================================================================

------------------------------ MODULE ChainSync ------------------------------
(***************************************************************************)
(* The backend follows the voting contract: a synchronisation reads the    *)
(* cursor, asks a node for the logs of the next blocks, and stores the     *)
(* events, what they change and the new cursor in one transaction.  Any    *)
(* number may run at once (at start, and for each admin that asks), a node *)
(* may fail to answer, the server may stop.  Meanwhile members link rounds *)
(* of their own to rounds of the chain, vote, read and delete them.        *)
(*                                                                         *)
(* Each transaction of the chain is a block of its own: a block with       *)
(* several is stored as a whole just the same.  Blocks are never taken     *)
(* back: the code has no answer to that.  Deadlines of a row are those of  *)
(* its chain round, and everything happens on the round's own day.         *)
(***************************************************************************)
EXTENDS EventProjection

CONSTANTS
  Syncers,     \* synchronisations that may run at once
  BatchSize,   \* blocks asked for at a time
  Amounts,     \* what a vote may carry, in the smallest unit
  MaxBlocks, MaxOptions, MaxFaults

ASSUME SyncAssumption ==
  BatchSize \in Nat \ {0} /\ {MaxBlocks, MaxOptions} \subseteq Nat /\ IsFiniteSet(Rounds)
  /\ Amounts \subseteq Nat \ {0}

VARIABLES
  stage,      \* of each chain round: 0 none, 1 proposing, 2 voting, 3 ordering, 4 over
  contract,   \* what the contract holds of each round; history: the shares of an option,
              \* its votes converted one by one
  log,        \* the events of each block
  cursor,     \* last_synced_block, always equal to last_seen_block
  applied,    \* blocks whose events are marked as applied
  tables,     \* the rows of the rounds, and the rewards credited
  syncer,     \* what each synchronisation is doing
  faults,     \* answers that failed, and crashes
  touched     \* history: rounds that a member linked to a round of his own

chain == <<stage, contract, log>>
database == <<cursor, applied, tables>>
vars == <<chain, database, syncer, faults, touched>>

Idle == [at |-> "idle"]
Blocks == DOMAIN log
Latest == Len(log)

NewRound == [options |-> <<>>, winner |-> 0, orders |-> {}, settled |-> FALSE]

Init ==
  /\ stage = [r \in Rounds |-> 0]
  /\ contract = [r \in Rounds |-> NewRound]
  /\ log = <<>>
  /\ cursor = 0 /\ applied = {}
  /\ tables = [rows |-> [r \in Rounds |-> NoRow], rewards |-> [m \in Members |-> 0]]
  /\ syncer = [w \in Syncers |-> Idle]
  /\ faults = 0 /\ touched = {}

-----------------------------------------------------------------------------
(* The contract, as far as its events go.                                   *)
Emit(events) ==
  /\ Latest < MaxBlocks
  /\ log' = Append(log, events)
  /\ UNCHANGED <<database, syncer, faults, touched>>

BestOption(options) ==
  CHOOSE i \in DOMAIN options :
    \A j \in DOMAIN options : /\ options[j].votes <= options[i].votes
                              /\ j < i => options[j].votes < options[i].votes

WithOption(c, x, m) ==
  [c EXCEPT !.options = Append(@, [merchant |-> x, proposer |-> m, votes |-> 0,
                                shares |-> 0])]
VotedFor(o, n) ==
  [o EXCEPT !.votes = @ + n, !.shares = @ + NormalizeTokenAmountValue(n)]
WithVote(c, i, n) == [c EXCEPT !.options[i] = VotedFor(@, n)]
WithWinner(c)     == [c EXCEPT !.winner = BestOption(c.options)]
WithOrders(c, ms) == [c EXCEPT !.orders = ms]
Settled(c) == [(IF c.winner = 0 THEN WithWinner(c) ELSE c) EXCEPT !.settled = TRUE]

CreateProposal(r) ==
  /\ stage[r] = 0
  /\ stage' = [stage EXCEPT ![r] = 1]
  /\ Emit(<<[name |-> "ProposalCreated", round |-> r]>>)
  /\ UNCHANGED contract

AddOption(r, x, m) ==
  LET n == Len(contract[r].options)
  IN /\ stage[r] = 1 /\ n < MaxOptions
     /\ contract' = [contract EXCEPT ![r] = WithOption(contract[r], x, m)]
     /\ Emit(<<[name |-> "OptionAdded", round |-> r, index |-> n, merchant |-> x]>>)
     /\ UNCHANGED stage

Vote(r, i, m, n) ==
  /\ stage[r] = 2
  /\ contract' = [contract EXCEPT ![r] = WithVote(contract[r], i, n)]
  /\ Emit(<<[name |-> "Voted", round |-> r, index |-> i - 1, member |-> m, weight |-> n]>>)
  /\ UNCHANGED stage

Finalized(r) ==
  LET i == BestOption(contract[r].options)
      best == contract[r].options[i]
  IN [name |-> "VoteFinalized", round |-> r, index |-> i - 1,
      merchant |-> best.merchant, weight |-> best.votes]

FinalizeVote(r) ==
  /\ stage[r] > 2 /\ contract[r].winner = 0 /\ contract[r].options # <<>>
  /\ contract' = [contract EXCEPT ![r] = WithWinner(contract[r])]
  /\ Emit(<<Finalized(r)>>)
  /\ UNCHANGED stage

PlaceOrder(r, m, b) ==
  /\ stage[r] = 3 /\ contract[r].winner # 0 /\ m \notin contract[r].orders
  /\ contract' = [contract EXCEPT ![r] = WithOrders(contract[r], contract[r].orders \cup {m})]
  /\ Emit(<<[name |-> "OrderPlaced", round |-> r, member |-> m, basket |-> b]>>)
  /\ UNCHANGED stage

CancelOrder(r, m) ==
  /\ stage[r] = 3 /\ m \in contract[r].orders
  /\ contract' = [contract EXCEPT ![r] = WithOrders(contract[r], contract[r].orders \ {m})]
  /\ Emit(<<[name |-> "OrderCancelled", round |-> r, member |-> m]>>)
  /\ UNCHANGED stage

SettleProposal(r) ==
  LET c == contract[r]
      finalize == IF c.winner = 0 THEN <<Finalized(r)>> ELSE <<>>
      rewards == [i \in DOMAIN c.options |->
                    [name |-> "RewardAllocated", member |-> c.options[i].proposer]]
  IN /\ stage[r] = 4 /\ ~c.settled /\ c.options # <<>>
     /\ contract' = [contract EXCEPT ![r] = Settled(c)]
     /\ Emit(finalize \o rewards \o <<[name |-> "ProposalSettled", round |-> r]>>)
     /\ UNCHANGED stage

DeadlinePasses(r) ==
  /\ stage[r] \in 1..3
  /\ stage' = [stage EXCEPT ![r] = @ + 1]
  /\ UNCHANGED <<contract, log, database, syncer, faults, touched>>

-----------------------------------------------------------------------------
(* A synchronisation (SyncChainOnStart, handleIndexerSync).                 *)
ReadStatus(w) ==
  /\ syncer[w].at = "idle"
  /\ syncer' = [syncer EXCEPT ![w] = [at |-> "fetch", synced |-> cursor]]
  /\ UNCHANGED <<chain, database, faults, touched>>

FromBlockSkips(synced) == synced + 2
FromBlock(synced) == IF synced + 1 = 1 THEN 0 ELSE synced + 1
ToBlock(from) ==
  IF Latest - from + 1 > BatchSize THEN from + BatchSize - 1 ELSE Latest

SyncRange(w) ==
  LET from == FromBlock(syncer[w].synced)
  IN /\ syncer[w].at = "fetch"
     /\ syncer' = [syncer EXCEPT ![w] =
                     [at |-> "store", from |-> from, to |-> ToBlock(from)]]
     /\ UNCHANGED <<chain, database, faults, touched>>

(* A failed answer is recorded with the cursor that was read, whatever it   *)
(* is by now.                                                               *)
SyncRangeFails(w) ==
  /\ syncer[w].at = "fetch" /\ faults < MaxFaults
  /\ cursor' = syncer[w].synced
  /\ syncer' = [syncer EXCEPT ![w] = Idle]
  /\ faults' = faults + 1
  /\ UNCHANGED <<chain, applied, tables, touched>>

(* The events of the batch that carry no mark yet, block by block.          *)
BatchShort(from, to) == {b \in Blocks : from <= b /\ b < to}
Batch(from, to) == {b \in Blocks : from <= b /\ b <= to}
UnappliedOrNot(batch) == batch
Unapplied(batch) == batch \ applied

ApplyBlocks(batch) ==
  LET after[b \in 0..Latest] ==
        IF b = 0 THEN {tables}
        ELSE IF b \in batch THEN UNION {ApplyAll(t, log[b]) : t \in after[b - 1]}
        ELSE after[b - 1]
  IN after[Latest]

StoreChainEvents(w) ==
  LET batch == Batch(syncer[w].from, syncer[w].to)
  IN /\ syncer[w].at = "store"
     /\ \E t \in ApplyBlocks(Unapplied(batch)) : tables' = t
     /\ applied' = applied \cup batch
     /\ cursor' = syncer[w].to
     /\ syncer' = [syncer EXCEPT ![w] = Idle]
     /\ UNCHANGED <<chain, faults, touched>>

(* An event that is refused rolls all of it back.                           *)
StoreRefused(w) ==
  /\ syncer[w].at = "store"
  /\ ApplyBlocks(Unapplied(Batch(syncer[w].from, syncer[w].to))) = {}
  /\ syncer' = [syncer EXCEPT ![w] = Idle]
  /\ UNCHANGED <<chain, database, faults, touched>>

Crash ==
  /\ faults < MaxFaults /\ faults' = faults + 1
  /\ syncer' = [w \in Syncers |-> Idle]
  /\ UNCHANGED <<chain, database, touched>>

-----------------------------------------------------------------------------
(* What members do to a round of their group meanwhile.                     *)
SetRow(r, row) ==
  /\ tables' = [tables EXCEPT !.rows[r] = row]
  /\ UNCHANGED <<chain, cursor, applied, syncer, faults>>

(* handleCreateProposal links the round it has just made; a second mapping  *)
(* of the same chain round is refused.                                      *)
LinkProposalChain(r) ==
  /\ r > 0 /\ stage[r] = 1 /\ tables.rows[r] = NoRow
  /\ touched' = touched \cup {r}
  /\ SetRow(r, NewRow(TRUE))

InsertProposalOption(r, x) ==
  LET row == tables.rows[r]
  IN /\ row # NoRow /\ row.grouped
     /\ ~Offers(row, x) /\ Len(row.options) < MaxOptions
     /\ SetRow(r, [row EXCEPT !.options =
          Append(@, [merchant |-> x, index |-> Unmapped, weight |-> 0])])
     /\ UNCHANGED touched

LinkProposalOptionChain(r, o, index) ==
  LET row == tables.rows[r]
  IN /\ row # NoRow /\ row.grouped
     /\ o \in OptionIds(row) /\ row.options[o].index = Unmapped
     /\ MappedTo(row, index) = {}
     /\ SetRow(r, [row EXCEPT !.options[o].index = index])
     /\ UNCHANGED touched

RecordVote(r, o, m) ==
  LET row == tables.rows[r]
  IN /\ row # NoRow /\ row.grouped /\ stage[r] = 2
     /\ o \in OptionIds(row) /\ m \notin row.voters
     /\ SetRow(r, [row EXCEPT !.options[o].weight = @ + 1,
                              !.voters = @ \cup {m}, !.counted = @ + 1])
     /\ UNCHANGED touched

DeleteProposalRound(r) ==
  /\ tables.rows[r] # NoRow /\ tables.rows[r].grouped
  /\ SetRow(r, NoRow)
  /\ UNCHANGED touched

(* refreshProposalState: what a read does once the vote deadline is past.   *)
MostVotes(row) ==
  CHOOSE o \in OptionIds(row) :
    \A x \in OptionIds(row) : /\ row.options[x].weight <= row.options[o].weight
                              /\ x < o => row.options[x].weight < row.options[o].weight

RefreshProposalState(r) ==
  LET row == tables.rows[r]
      fixes == row.winner = 0 /\ row.options # <<>> /\ row.counted > 0
  IN /\ row # NoRow /\ stage[r] > 2
     /\ fixes \/ ~row.settled
     /\ SetRow(r, [row EXCEPT !.winner = IF fixes THEN MostVotes(row) ELSE @,
                              !.settled = TRUE,
                              !.failed = @ \/ (~row.settled /\ row.counted = 0)])
     /\ UNCHANGED touched

-----------------------------------------------------------------------------
ChainStep(r) ==
  \/ CreateProposal(r) \/ FinalizeVote(r) \/ SettleProposal(r) \/ DeadlinePasses(r)
  \/ \E m \in Members :
       \/ \E x \in Merchants : AddOption(r, x, m)
       \/ \E i \in DOMAIN contract[r].options, n \in Amounts : Vote(r, i, m, n)
       \/ \E b \in Baskets : PlaceOrder(r, m, b)
       \/ CancelOrder(r, m)

SyncStep(w) == ReadStatus(w) \/ SyncRange(w) \/ StoreChainEvents(w) \/ StoreRefused(w)

LocalStep(r) ==
  \/ LinkProposalChain(r) \/ DeleteProposalRound(r) \/ RefreshProposalState(r)
  \/ \E x \in Merchants : InsertProposalOption(r, x)
  \/ \E o \in 1..MaxOptions :
       \/ \E index \in 1..MaxOptions : LinkProposalOptionChain(r, o, index)
       \/ \E m \in Members : RecordVote(r, o, m)

Next ==
  \/ \E r \in Rounds : ChainStep(r) \/ LocalStep(r)
  \/ \E w \in Syncers : SyncStep(w) \/ SyncRangeFails(w)
  \/ Crash

Spec == Init /\ [][Next]_vars

-----------------------------------------------------------------------------
TypeOK ==
  /\ stage \in [Rounds -> 0..4]
  /\ log \in Seq(Seq(Event))
  /\ cursor \in Nat /\ applied \subseteq Blocks
  /\ tables.rows \in [Rounds -> Row \cup {NoRow}]
  /\ tables.rewards \in [Members -> Nat]
  /\ faults \in 0..MaxFaults /\ touched \subseteq Rounds

(* However synchronisations overlap, fail and go back, no block at or below *)
(* the cursor is left out: nothing would ever read it again                 *)
(* (bootstrap.go:75-96, postgres.go:2874-2929).                             *)
CursorSafe == \A b \in Blocks : b <= cursor => b \in applied

(* The blocks taken in are always the first ones of the chain, each taken   *)
(* in once and in order: a follower of the log (bootstrap.go:75-96,         *)
(* indexer.go:65-101, postgres.go:2874-2929).                               *)
Follower == INSTANCE EventLog WITH taken <- applied
FollowsTheLog == Follower!Spec

(* Once everything is taken in, a round that no member has touched shows    *)
(* what the contract holds: its options, winner and paid orders, and of     *)
(* each option its votes, converted one by one and each counted once, of    *)
(* the winner the contract's own total, converted (applyChainEventTxGorm,   *)
(* postgres.go:4066-4384).  As the conversion loses parts of a token, the   *)
(* tallies of two options may stand in another order than the contract's.   *)
CaughtUp == applied = Blocks

Shown(c, o) ==
  IF o = c.winner THEN NormalizeTokenAmountValue(c.options[o].votes) ELSE c.options[o].shares

Mirrors(row, c) ==
  /\ Len(row.options) = Len(c.options)
  /\ \A o \in OptionIds(row) :
       /\ row.options[o].index = o - 1
       /\ row.options[o].merchant = c.options[o].merchant
       /\ row.options[o].weight = Shown(c, o)
  /\ row.winner = c.winner
  /\ {x.member : x \in {y \in row.orders : y.paid}} = c.orders
  /\ c.settled => row.settled

MirrorAgrees ==
  CaughtUp => \A r \in Rounds \ touched :
    IF stage[r] = 0 THEN tables.rows[r] = NoRow
    ELSE Mirrors(tables.rows[r], contract[r])

(* Rewards are credited once each, whoever reads the range twice and        *)
(* whatever is done to the rounds (postgres.go:4352-4366).                  *)
RewardsOnce ==
  CaughtUp => \A m \in Members : tables.rewards[m] =
    Cardinality({x \in Rounds \X (1..MaxOptions) :
      /\ contract[x[1]].settled /\ x[2] \in DOMAIN contract[x[1]].options
      /\ contract[x[1]].options[x[2]].proposer = m})

(* No batch is refused, which would stop the synchronisation for ever,      *)
(* unless a member touched a round, or the contract allowed what the tables *)
(* cannot hold: a second vote of a member, also from another wallet that he *)
(* has bound since (here a wallet stays its member's), or the same merchant *)
(* twice (postgres.go:222-223, 244-245).                                    *)
SameTwice ==
  \/ \E r \in Rounds : \E i, j \in DOMAIN contract[r].options :
       i # j /\ contract[r].options[i].merchant = contract[r].options[j].merchant
  \/ \E b, c \in Blocks : /\ b # c /\ log[b][1].name = "Voted" /\ log[c][1].name = "Voted"
                          /\ log[b][1].round = log[c][1].round
                          /\ log[b][1].member = log[c][1].member

NothingRefused ==
  (\E w \in Syncers :
     /\ syncer[w].at = "store"
     /\ ApplyBlocks(Unapplied(Batch(syncer[w].from, syncer[w].to))) = {})
  => touched # {} \/ SameTwice
=============================================================================

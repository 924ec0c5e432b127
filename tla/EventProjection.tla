--------------------------- MODULE EventProjection ---------------------------
(***************************************************************************)
(* How one event of the voting contract changes the backend's tables       *)
(* (applyChainEventTxGorm).  An application yields the set of possible     *)
(* results: one, or none when a unique index or a missing row refuses it.  *)
(*                                                                         *)
(* A row stands for a proposals row that is mapped to a chain round, with  *)
(* its options (in the order of their ids), votes and orders.  Members are *)
(* wallets: a wallet seen for the first time gets a member of its own, and *)
(* no member binds another later.                                          *)
(* Usage records, pending transactions and names are left out, and so are  *)
(* subscriptions, which touch no round.  A vote carries any amount of the  *)
(* token's smallest unit and is converted by itself; of the rewards only   *)
(* the number is kept.  Tallies stay within 64 bits.                       *)
(***************************************************************************)
EXTENDS Integers, Sequences, FiniteSets

CONSTANTS
  Rounds,      \* ids of the contract's proposals
  Merchants,
  Nobody,      \* the merchant "" of an option that is first met in a vote
  Members,
  Baskets,     \* what a member may order: an order's hash is <<member, basket>>
  Unit         \* smallest units in a whole token: 10^18

ASSUME UnitAssumption == Unit \in Nat \ {0}

Unmapped == -1

Option == [merchant: Merchants \cup {Nobody}, index: {Unmapped} \cup Nat, weight: Nat]
Order == [member: Members, basket: Baskets, paid: BOOLEAN]
Row == [options: Seq(Option), winner: Nat, voters: SUBSET Members, counted: Nat,
        orders: SUBSET Order, settled: BOOLEAN, failed: BOOLEAN, grouped: BOOLEAN]
NoRow == [options |-> <<>>]

NewRow(grouped) ==
  [options |-> <<>>, winner |-> 0, voters |-> {}, counted |-> 0, orders |-> {},
   settled |-> FALSE, failed |-> FALSE, grouped |-> grouped]

Event ==
  [name: {"ProposalCreated", "ProposalSettled"}, round: Rounds]
  \cup [name: {"OptionAdded"}, round: Rounds, index: Nat, merchant: Merchants]
  \cup [name: {"Voted"}, round: Rounds, index: Nat, member: Members, weight: Nat]
  \cup [name: {"VoteFinalized"}, round: Rounds, index: Nat, merchant: Merchants, weight: Nat]
  \cup [name: {"OrderPlaced"}, round: Rounds, member: Members, basket: Baskets]
  \cup [name: {"OrderCancelled"}, round: Rounds, member: Members]
  \cup [name: {"RewardAllocated"}, member: Members]

-----------------------------------------------------------------------------
OptionIds(row) == DOMAIN row.options
MappedTo(row, index) == {o \in OptionIds(row) : row.options[o].index = index}
Offers(row, merchant) == \E o \in OptionIds(row) : row.options[o].merchant = merchant

EnsureOptionBlind(row, index, merchant) ==
  IF Offers(row, merchant) THEN {}
  ELSE {[row EXCEPT !.options =
           Append(@, [merchant |-> merchant, index |-> index, weight |-> 0])]}

(* The option of a chain index; a new one is refused by the unique index    *)
(* on (proposal_id, merchant_id) if the merchant is there already.          *)
EnsureOption(row, index, merchant) ==
  IF MappedTo(row, index) # {} THEN {row}
  ELSE IF Offers(row, merchant) THEN {}
  ELSE {[row EXCEPT !.options =
           Append(@, [merchant |-> merchant, index |-> index, weight |-> 0])]}

(* An amount of a whole token or more is cut to whole tokens; a smaller one *)
(* is taken as it stands, in the smallest unit.                             *)
NormalizeTokenAmountValue(amount) == IF amount >= Unit THEN amount \div Unit ELSE amount

Weigh(row, o, weight) == [row EXCEPT !.options[o].weight = weight]

(* Votes have a unique index on (proposal_id, member_id).  Their vote_count *)
(* stays 0, so they are not `counted`.                                      *)
ApplyVoted(row, e) ==
  { LET o == CHOOSE x \in MappedTo(r, e.index) : TRUE
        weight == r.options[o].weight + NormalizeTokenAmountValue(e.weight)
    IN [Weigh(r, o, weight) EXCEPT !.voters = @ \cup {e.member}] :
      r \in {x \in EnsureOption(row, e.index, Nobody) : e.member \notin x.voters} }

ApplyVoteFinalizedAdds(row, e) ==
  { LET o == CHOOSE x \in MappedTo(r, e.index) : TRUE
        weight == r.options[o].weight + NormalizeTokenAmountValue(e.weight)
    IN [Weigh(r, o, weight) EXCEPT !.winner = o] :
      r \in EnsureOption(row, e.index, e.merchant) }

ApplyVoteFinalized(row, e) ==
  { LET o == CHOOSE x \in MappedTo(r, e.index) : TRUE
    IN [Weigh(r, o, NormalizeTokenAmountValue(e.weight)) EXCEPT !.winner = o] :
      r \in EnsureOption(row, e.index, e.merchant) }

(* An order whose hash is known is paid again; a cancellation is for all    *)
(* orders of the member.                                                    *)
ApplyOrderPlaced(row, e) ==
  LET same == {x \in row.orders : x.member = e.member /\ x.basket = e.basket}
      paid == [member |-> e.member, basket |-> e.basket, paid |-> TRUE]
  IN {[row EXCEPT !.orders = (@ \ same) \cup {paid}]}

ApplyOrderCancelled(row, e) ==
  {[row EXCEPT !.orders =
      {IF x.member = e.member THEN [x EXCEPT !.paid = FALSE] ELSE x : x \in @}]}

ApplyToRow(row, e) ==
  CASE e.name = "ProposalCreated" -> {row}
    [] e.name = "OptionAdded"     -> EnsureOption(row, e.index, e.merchant)
    [] e.name = "Voted"           -> ApplyVoted(row, e)
    [] e.name = "VoteFinalized"   -> ApplyVoteFinalized(row, e)
    [] e.name = "OrderPlaced"     -> ApplyOrderPlaced(row, e)
    [] e.name = "OrderCancelled"  -> ApplyOrderCancelled(row, e)

(* Tables: the row of each round, and the rewards credited to each member.  *)
EnsureProposal(tables, r) ==
  IF tables.rows[r] = NoRow THEN NewRow(FALSE) ELSE tables.rows[r]

ApplyEvent(tables, e) ==
  CASE e.name = "RewardAllocated" -> {[tables EXCEPT !.rewards[e.member] = @ + 1]}
    [] e.name = "ProposalSettled" ->
         {[t EXCEPT !.rows[e.round].settled = TRUE] :
            t \in {x \in {tables} : x.rows[e.round] # NoRow}}
    [] OTHER -> {[tables EXCEPT !.rows[e.round] = row] :
                   row \in ApplyToRow(EnsureProposal(tables, e.round), e)}

(* The events of a block, and of a series of blocks, in order; one that is  *)
(* refused leaves no result at all.                                         *)
ApplyAll(tables, events) ==
  LET after[n \in 0..Len(events)] ==
        IF n = 0 THEN {tables}
        ELSE UNION {ApplyEvent(t, events[n]) : t \in after[n - 1]}
  IN after[Len(events)]
=============================================================================

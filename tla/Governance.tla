----------------------------- MODULE Governance -----------------------------
(***************************************************************************)
(* The contract contract/MealVoteGovernance.sol: daily coupons, rounds,    *)
(* candidates, votes packed into one word, cancellation and settlement.    *)
(*                                                                         *)
(* Every external function is one action, guarded by its require()s; a     *)
(* transaction that reverts is not modelled.  Fees stay in the contract:   *)
(* it has no function that pays out.  Hashes and points are never read     *)
(* and left out.  Round and candidate numbers start at 1; no merchant is   *)
(* proposed twice and there are fewer than 2^24 of them (ConstantsOK), so  *)
(* a candidate's number fits its field of a packed record.                 *)
(***************************************************************************)
EXTENDS Integers, Sequences, FiniteSets, Functions

CONSTANTS
  Members, NoOne,        \* NoOne: the zero address
  Merchants,             \* merchantKey
  MaxRounds,
  ParamSets,             \* governance parameters the owner may set
  DayKeys,               \* days a member may claim coupons for
  DayKeyRange,           \* 2^32: dayKey is stored in 32 bits
  VoteRange,             \* 2^24: counts are stored in 24 bits
  VoteCounts,            \* votes one transaction may ask for
  MaxClaims, MaxSubscriptions, MaxTime   \* bounds for model checking

Rounds == 1..MaxRounds
Coupons == {"create", "proposal", "vote"}

ConstantsOK ==
  /\ IsFiniteSet(Members) /\ NoOne \notin Members /\ ParamSets # {}
  /\ IsFiniteSet(Merchants) /\ Cardinality(Merchants) < VoteRange
  /\ {MaxRounds, DayKeyRange, VoteRange, MaxClaims, MaxSubscriptions, MaxTime} \subseteq Nat \ {0}
  /\ VoteCounts \subseteq Nat \ {0} /\ DayKeys \subseteq Nat
  /\ ParamSets \subseteq
       [createFee: Nat, proposalFee: Nat, voteFee: Nat, subscriptionFee: Nat,
        proposalTime: Nat \ {0}, voteTime: Nat \ {0}, orderingTime: Nat \ {0},
        subscriptionTime: Nat \ {0}, daily: [Coupons -> Nat]]

VARIABLES
  now, params, roundCount,
  rounds,         \* rounds
  candidates,     \* candidates, numbered from 1
  memberProposalCount,
  votes,          \* the packed record of each member's vote, 0 before
  coupons,        \* coupons of each member, with the day they were claimed for
  subscriptionExpiresAt,
  balance,        \* the contract's ether
  claims, granted, used,  \* history: claims made, coupons got and used, by member
  subscriptions   \* history: subscription payments

roundVars  == <<roundCount, rounds, candidates, memberProposalCount, votes>>
couponVars == <<coupons, claims, granted, used>>
subscriptionVars == <<subscriptionExpiresAt, subscriptions>>
vars == <<now, params, roundVars, couponVars, subscriptionVars, balance>>

Statuses == {"Created", "ProposalOpen", "VotingClosedSuccess", "VotingClosedFailed", "Cancelled"}
Round == [creator: Members \cup {NoOne}, status: Statuses, proposal: Nat, vote: Nat,
          ordering: Nat, winner: Nat, settled: BOOLEAN]
NoRound == [creator |-> NoOne, status |-> "Created", proposal |-> 0, vote |-> 0,
            ordering |-> 0, winner |-> 0, settled |-> FALSE]
CandidateRow == [merchant: Merchants, at: Nat, votes: 0..(VoteRange - 1)]
CouponState == [day: 0..(DayKeyRange - 1), claimed: BOOLEAN, left: [Coupons -> Nat]]
NoCoupons == [k \in Coupons |-> 0]

TypeOK ==
  /\ now \in 0..MaxTime /\ params \in ParamSets /\ roundCount \in 0..MaxRounds
  /\ rounds \in [Rounds -> Round]
  /\ candidates \in [Rounds -> Seq(CandidateRow)]
  /\ memberProposalCount \in [Rounds -> [Members -> 0..2]]
  /\ votes \in [Rounds -> [Members -> Nat]]
  /\ coupons \in [Members -> CouponState]
  /\ subscriptionExpiresAt \in [Members -> Nat]
  /\ balance \in Nat /\ subscriptions \in Nat /\ claims \in [Members -> Nat]
  /\ granted \in [Members -> [Coupons -> Nat]] /\ used \in [Members -> [Coupons -> Nat]]

Init ==
  /\ now = 0 /\ params \in ParamSets /\ roundCount = 0
  /\ rounds = [r \in Rounds |-> NoRound]
  /\ candidates = [r \in Rounds |-> <<>>]
  /\ memberProposalCount = [r \in Rounds |-> [m \in Members |-> 0]]
  /\ votes = [r \in Rounds |-> [m \in Members |-> 0]]
  /\ coupons = [m \in Members |-> [day |-> 0, claimed |-> FALSE, left |-> NoCoupons]]
  /\ subscriptionExpiresAt = [m \in Members |-> 0]
  /\ balance = 0 /\ subscriptions = 0
  /\ claims = [m \in Members |-> 0]
  /\ granted = [m \in Members |-> NoCoupons] /\ used = [m \in Members |-> NoCoupons]

-----------------------------------------------------------------------------
(* A claim replaces what is left of an earlier one; the caller names the    *)
(* day, which is compared in full and stored in 32 bits.                    *)
ClaimDailyCoupons(m, day) ==
  /\ claims[m] < MaxClaims
  /\ coupons[m].day # day \/ ~coupons[m].claimed
  /\ coupons' = [coupons EXCEPT ![m] =
       [day |-> day % DayKeyRange, claimed |-> TRUE, left |-> params.daily]]
  /\ claims' = [claims EXCEPT ![m] = @ + 1]
  /\ granted' = [granted EXCEPT ![m] = [k \in Coupons |-> @[k] + params.daily[k]]]
  /\ UNCHANGED <<now, params, roundVars, used, subscriptionVars, balance>>

(* _consumeCoupon, for each coupon taken.                                   *)
Taken(create, proposal, vote) ==
  [create |-> create, proposal |-> proposal, vote |-> vote]
One(coupon) == IF coupon THEN 1 ELSE 0
ConsumeCoupons(m, taken) ==
  /\ \A k \in Coupons : coupons[m].left[k] >= taken[k]
  /\ coupons' = [coupons EXCEPT ![m].left = [k \in Coupons |-> @[k] - taken[k]]]
  /\ used' = [used EXCEPT ![m] = [k \in Coupons |-> @[k] + taken[k]]]
  /\ UNCHANGED <<claims, granted>>

SubscribeMonthly(m) ==
  LET base == IF subscriptionExpiresAt[m] > now THEN subscriptionExpiresAt[m] ELSE now
  IN /\ subscriptions < MaxSubscriptions /\ subscriptions' = subscriptions + 1
     /\ subscriptionExpiresAt' =
          [subscriptionExpiresAt EXCEPT ![m] = base + params.subscriptionTime]
     /\ balance' = balance + params.subscriptionFee
     /\ UNCHANGED <<now, params, roundVars, couponVars>>

CancelSubscription(m) ==
  /\ subscriptionExpiresAt' = [subscriptionExpiresAt EXCEPT ![m] = 0]
  /\ UNCHANGED <<now, params, roundVars, couponVars, subscriptions, balance>>

SetGovernanceParams(p) ==
  /\ params' = p
  /\ UNCHANGED <<now, roundVars, couponVars, subscriptionVars, balance>>

-----------------------------------------------------------------------------
Candidate(key) == [merchant |-> key, at |-> now, votes |-> 0]
Proposed(r, key) == \E i \in DOMAIN candidates[r] : candidates[r][i].merchant = key

(* keys: the initial merchants; free: those of them paid with a coupon.     *)
CreateRound(m, keys, coupon, free) ==
  LET r    == roundCount + 1
      paid == (IF coupon THEN 0 ELSE params.createFee)
              + Cardinality(DOMAIN keys \ free) * params.proposalFee
      close == now + params.proposalTime
  IN /\ r \in Rounds
     /\ Len(keys) \in 1..2 /\ free \subseteq DOMAIN keys
     /\ \A i, j \in DOMAIN keys : keys[i] = keys[j] => i = j
     /\ ConsumeCoupons(m, Taken(One(coupon), Cardinality(free), 0))
     /\ roundCount' = r
     /\ rounds' = [rounds EXCEPT ![r] =
          [creator |-> m, status |-> "ProposalOpen", proposal |-> close,
           vote |-> close + params.voteTime,
           ordering |-> close + params.voteTime + params.orderingTime,
           winner |-> 0, settled |-> FALSE]]
     /\ candidates' = [candidates EXCEPT ![r] = [i \in DOMAIN keys |-> Candidate(keys[i])]]
     /\ memberProposalCount' = [memberProposalCount EXCEPT ![r][m] = Len(keys)]
     /\ balance' = balance + paid
     /\ UNCHANGED <<now, params, votes, subscriptionVars>>

(* The status of the round is not looked at: a cancelled round still takes  *)
(* proposals, and their fees, until its proposal deadline.                  *)
ProposalAnyTime(r) == TRUE
ProposalWindow(r) == now <= rounds[r].proposal

ProposeMerchant(m, r, key, coupon) ==
  /\ rounds[r].creator # NoOne /\ ProposalWindow(r)
  /\ ~Proposed(r, key) /\ memberProposalCount[r][m] < 2
  /\ ConsumeCoupons(m, Taken(0, One(coupon), 0))
  /\ candidates' = [candidates EXCEPT ![r] = Append(@, Candidate(key))]
  /\ memberProposalCount' = [memberProposalCount EXCEPT ![r][m] = @ + 1]
  /\ balance' = balance + (IF coupon THEN 0 ELSE params.proposalFee)
  /\ UNCHANGED <<now, params, roundCount, rounds, votes, subscriptionVars>>

(* _encodeVoteRecord and _decodeVoteRecord.                                 *)
EncodeVote(c, n, coupon) == c + n * VoteRange + (IF coupon THEN VoteRange * VoteRange ELSE 0)
DecodeVote(rec) == [candidate |-> rec % VoteRange, count |-> (rec \div VoteRange) % VoteRange]

WithVotes(candidate, n) ==
  [merchant |-> candidate.merchant, at |-> candidate.at, votes |-> n]
Fits(total, n) == n < VoteRange /\ total + n < VoteRange
VoteFeeOfOne(n, coupon) == IF coupon THEN 0 ELSE params.voteFee
VoteFee(n, coupon) == (n - One(coupon)) * params.voteFee

CastVote(m, r, c, n, coupon) ==
  /\ rounds[r].creator # NoOne /\ rounds[r].status = "ProposalOpen"
  /\ rounds[r].proposal < now /\ now <= rounds[r].vote
  /\ votes[r][m] = 0 /\ c \in DOMAIN candidates[r]
  /\ Fits(candidates[r][c].votes, n)
  /\ ConsumeCoupons(m, Taken(0, 0, One(coupon)))
  /\ votes' = [votes EXCEPT ![r][m] = EncodeVote(c, n, coupon)]
  /\ candidates' = [candidates EXCEPT ![r][c] = WithVotes(@, (@.votes + n) % VoteRange)]
  /\ balance' = balance + VoteFee(n, coupon)
  /\ UNCHANGED <<now, params, roundCount, rounds, memberProposalCount, subscriptionVars>>

CancelRound(r) ==
  LET creator == rounds[r].creator
  IN /\ rounds[r].status = "ProposalOpen" /\ ProposalWindow(r)
     /\ \A m \in Members \ {creator} : memberProposalCount[r][m] = 0
     /\ rounds' = [rounds EXCEPT ![r].status = "Cancelled"]
     /\ UNCHANGED <<now, params, roundCount, candidates, memberProposalCount, votes,
                    couponVars, subscriptionVars, balance>>

TotalVotes(r) == SumFunction([i \in DOMAIN candidates[r] |-> candidates[r][i].votes])

(* The loop of _findWinner keeps the first candidate that none beats.       *)
Beats(r, i, j) ==
  LET a == candidates[r][i]
      b == candidates[r][j]
  IN \/ a.votes > b.votes
     \/ a.votes = b.votes /\ a.at < b.at
     \/ a.votes = b.votes /\ a.at = b.at /\ i <= j
FindWinner(r) ==
  CHOOSE i \in DOMAIN candidates[r] : \A j \in DOMAIN candidates[r] : Beats(r, i, j)

Settled(round, winner, status) ==
  [creator |-> round.creator, status |-> status, proposal |-> round.proposal,
   vote |-> round.vote, ordering |-> round.ordering, winner |-> winner, settled |-> TRUE]

(* Neither is the status looked at here: a cancelled round ends as failed.  *)
SettleRound(r) ==
  LET none == TotalVotes(r) = 0
  IN /\ rounds[r].creator # NoOne /\ now > rounds[r].vote /\ ~rounds[r].settled
     /\ rounds' = [rounds EXCEPT ![r] =
          Settled(@, IF none THEN @.winner ELSE FindWinner(r),
                  IF none THEN "VotingClosedFailed" ELSE "VotingClosedSuccess")]
     /\ UNCHANGED <<now, params, roundCount, candidates, memberProposalCount, votes,
                    couponVars, subscriptionVars, balance>>

Tick ==
  /\ now < MaxTime /\ now' = now + 1
  /\ UNCHANGED <<params, roundVars, couponVars, subscriptionVars, balance>>

-----------------------------------------------------------------------------
InitialKeys == {<<a>> : a \in Merchants} \cup {<<a, b>> : a \in Merchants, b \in Merchants}

MemberStep(m) ==
  \/ \E day \in DayKeys : ClaimDailyCoupons(m, day)
  \/ SubscribeMonthly(m) \/ CancelSubscription(m)
  \/ \E keys \in InitialKeys, coupon \in BOOLEAN : \E free \in SUBSET DOMAIN keys :
       CreateRound(m, keys, coupon, free)
  \/ \E r \in Rounds, coupon \in BOOLEAN :
       \/ \E key \in Merchants : ProposeMerchant(m, r, key, coupon)
       \/ \E c \in DOMAIN candidates[r], n \in VoteCounts : CastVote(m, r, c, n, coupon)

Next ==
  \/ \E m \in Members : MemberStep(m)
  \/ \E r \in Rounds : CancelRound(r) \/ SettleRound(r)
  \/ \E p \in ParamSets : SetGovernanceParams(p)
  \/ Tick

Spec == Init /\ [][Next]_vars

-----------------------------------------------------------------------------
BallotsOf(r) == [m \in Members |-> DecodeVote(votes[r][m])]

(* A candidate's 24-bit count is the sum of the packed records that name    *)
(* it: nothing wraps, and no field of a record spills into the next         *)
(* (castVote, MealVoteGovernance.sol:168-193, 295-308).                     *)
TalliesMatchRecords ==
  \A r \in Rounds : \A i \in DOMAIN candidates[r] :
    candidates[r][i].votes =
      SumFunctionOnSet([m \in Members |-> BallotsOf(r)[m].count],
                       {m \in Members : BallotsOf(r)[m].candidate = i})

(* Every coupon used or still there was granted: a round, a proposal or a   *)
(* vote that pays with a coupon takes exactly one away, and a claim on      *)
(* another day replaces what is left (claimDailyCoupons, _consumeCoupon,    *)
(* MealVoteGovernance.sol:102-111, 281-293).                                *)
CouponsBacked ==
  \A m \in Members : \A k \in Coupons :
    used[m][k] + coupons[m].left[k] <= granted[m][k]

(* As long as the owner leaves the fees alone, the contract's ether and the *)
(* coupons used are together worth what its records cost: every round,      *)
(* candidate, vote and subscription is paid for                             *)
(* (MealVoteGovernance.sol:113-193, 226-255).                               *)
CouponValue(m) == used[m]["create"] * params.createFee
  + used[m]["proposal"] * params.proposalFee + used[m]["vote"] * params.voteFee
RoundCost(r) == Len(candidates[r]) * params.proposalFee + TotalVotes(r) * params.voteFee
FeesMatchRecords ==
  (\A p, q \in ParamSets : p.createFee = q.createFee /\ p.proposalFee = q.proposalFee
     /\ p.voteFee = q.voteFee /\ p.subscriptionFee = q.subscriptionFee) =>
  balance + SumFunction([m \in Members |-> CouponValue(m)])
    = roundCount * params.createFee + subscriptions * params.subscriptionFee
      + SumFunction([r \in Rounds |-> RoundCost(r)])

(* A round is an election: its deadlines alone keep candidates from being   *)
(* added once somebody voted, votes from being cast in a cancelled round or *)
(* after the count, and a cancelled round from being won; _propose and      *)
(* settleRound never look at the status (MealVoteGovernance.sol:168-272).   *)
Stage(r) ==
  CASE rounds[r].creator = NoOne -> "none"
    [] rounds[r].status = "ProposalOpen" -> "open"
    [] rounds[r].status = "Cancelled" -> "cancelled"
    [] rounds[r].status = "VotingClosedFailed" -> "failed"
    [] rounds[r].status = "VotingClosedSuccess" -> "elected"
RoundElection == INSTANCE Election WITH
  Voters <- Members, Counts <- VoteCounts,
  stage <- [r \in Rounds |-> Stage(r)],
  listed <- [r \in Rounds |-> Len(candidates[r])],
  ballots <- [r \in Rounds |-> BallotsOf(r)],
  winner <- [r \in Rounds |-> rounds[r].winner]
RoundsAreElections == RoundElection!Spec
=============================================================================

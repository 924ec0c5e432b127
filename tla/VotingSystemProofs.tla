------------------------- MODULE VotingSystemProofs -------------------------
(***************************************************************************)
(* Proofs about VotingSystem for every finite set of members and           *)
(* proposals, every amount and every schedule: types, the option pools, the *)
(* final word of a settlement, and that the contract can pay what it owes.  *)
(* At the end, what GovernanceProofs says of the instances that are checked  *)
(* beside it.                                                               *)
(***************************************************************************)
EXTENDS MCContracts, SumLemmas

StakeAt(opts) == [i \in DOMAIN opts |-> opts[i].stake]

(* Where each proposal is in its life, tied to the clock.                   *)
Stages ==
  \A p \in Proposals :
    /\ exists[p] => /\ schedule[p].proposal < schedule[p].vote
                    /\ schedule[p].vote < schedule[p].order
    /\ ~exists[p] => options[p] = <<>>
    /\ voteFinalized[p] => exists[p] /\ now > schedule[p].vote
    /\ settled[p] => voteFinalized[p] /\ now > schedule[p].order

(* The option pool holds exactly the stakes of the options.                 *)
Stakes ==
  \A p \in Proposals :
    optionPool[p] = SumFunctionOnSet(StakeAt(options[p]), DOMAIN options[p])

-----------------------------------------------------------------------------
(* Pure lemmas: basis points, rewards, the winner.                          *)
LEMMA BpsBound ==
  ASSUME NEW a \in Nat, NEW b \in {LoserRefundBps, WinnerRewardBps, OrderFeeBps}
  PROVE  Bps(a, b) \in Nat /\ Bps(a, b) <= a
<1>1. b \in {4000, 6000, 300}
  BY DEF LoserRefundBps, WinnerRewardBps, OrderFeeBps
<1>2. CASE b = 4000
  BY <1>2 DEF Bps
<1>3. CASE b = 6000
  BY <1>3 DEF Bps
<1>4. CASE b = 300
  BY <1>4 DEF Bps
<1>. QED  BY <1>1, <1>2, <1>3, <1>4

LEMMA OptionsFinite ==
  ASSUME NEW opts \in Seq(Option)
  PROVE  /\ IsFiniteSet(DOMAIN opts) /\ DOMAIN opts \subseteq Nat
         /\ \A i \in DOMAIN opts : opts[i] \in Option
<1>1. DOMAIN opts = 1..Len(opts) /\ Len(opts) \in Nat
  OBVIOUS
<1>2. IsFiniteSet(1..Len(opts))
  BY <1>1, FS_Interval
<1>. QED  BY <1>1, <1>2

(* What an option gives back is at most its stake.                          *)
LEMMA RewardBound ==
  ASSUME NEW opts \in Seq(Option), NEW w
  PROVE  /\ DOMAIN Reward(opts, w) = DOMAIN opts
         /\ \A i \in DOMAIN opts : /\ Reward(opts, w)[i] \in Nat
                                   /\ StakeAt(opts)[i] \in Nat
                                   /\ Reward(opts, w)[i] <= StakeAt(opts)[i]
<1>1. ASSUME NEW i \in DOMAIN opts
      PROVE  /\ Reward(opts, w)[i] \in Nat
             /\ StakeAt(opts)[i] \in Nat
             /\ Reward(opts, w)[i] <= StakeAt(opts)[i]
  <2>1. opts[i].stake \in Nat
    BY OptionsFinite DEF Option
  <2>. DEFINE b == IF i = w THEN WinnerRewardBps ELSE LoserRefundBps
  <2>2. b \in {LoserRefundBps, WinnerRewardBps, OrderFeeBps}
    OBVIOUS
  <2>3. Reward(opts, w)[i] = Bps(opts[i].stake, b)
    BY DEF Reward
  <2>. HIDE DEF b
  <2>4. Bps(opts[i].stake, b) \in Nat /\ Bps(opts[i].stake, b) <= opts[i].stake
    BY <2>1, <2>2, BpsBound
  <2>. QED  BY <2>1, <2>3, <2>4 DEF StakeAt
<1>. QED  BY <1>1 DEF Reward

(* The whole distribution: a natural number, at most the stakes.            *)
LEMMA DistributedBound ==
  ASSUME NEW opts \in Seq(Option), NEW w
  PROVE  /\ Distributed(opts, w) \in Nat
         /\ Distributed(opts, w) <= SumFunctionOnSet(StakeAt(opts), DOMAIN opts)
<1>1. IsFiniteSet(DOMAIN opts)
  BY OptionsFinite
<1>2. /\ NatValued(Reward(opts, w), DOMAIN opts)
      /\ IntValued(Reward(opts, w), DOMAIN opts)
      /\ IntValued(StakeAt(opts), DOMAIN opts)
  BY RewardBound DEF NatValued, IntValued
<1>3. \A i \in DOMAIN opts : Reward(opts, w)[i] <= StakeAt(opts)[i]
  BY RewardBound
<1>4. SumFunctionOnSet(Reward(opts, w), DOMAIN opts) \in Nat
  BY <1>1, <1>2, SumNat
<1>5. SumFunctionOnSet(Reward(opts, w), DOMAIN opts)
        <= SumFunctionOnSet(StakeAt(opts), DOMAIN opts)
  BY <1>1, <1>2, <1>3, SumLeq
<1>. QED  BY <1>4, <1>5 DEF Distributed

(* The members' rewards add up to the distribution.                         *)
LEMMA RewardsAddUp ==
  ASSUME NEW opts \in Seq(Option), NEW w
  PROVE  /\ \A m \in Members : RewardOf(opts, w, m) \in Nat
         /\ SumFunctionOnSet([m \in Members |-> RewardOf(opts, w, m)], Members)
              = Distributed(opts, w)
<1>. DEFINE o == [i \in DOMAIN opts |-> opts[i].proposer]
            r == Reward(opts, w)
            cls(m) == {i \in DOMAIN opts : o[i] = m}
<1>1. IsFiniteSet(DOMAIN opts) /\ \A i \in DOMAIN opts : o[i] \in Members
  BY OptionsFinite DEF Option
<1>2. NatValued(r, DOMAIN opts) /\ IntValued(r, DOMAIN opts)
  BY RewardBound DEF NatValued, IntValued
<1>3. \A m \in Members : RewardOf(opts, w, m) = SumFunctionOnSet(r, cls(m))
  <2>1. \A m \in Members : {i \in DOMAIN opts : opts[i].proposer = m} = cls(m)
    OBVIOUS
  <2>. HIDE DEF cls
  <2>. QED  BY <2>1 DEF RewardOf
<1>4. ASSUME NEW m \in Members
      PROVE  SumFunctionOnSet(r, cls(m)) \in Nat
  <2>1. cls(m) \in SUBSET DOMAIN opts
    OBVIOUS
  <2>. HIDE DEF cls, r
  <2>2. IsFiniteSet(cls(m)) /\ NatValued(r, cls(m))
    BY <1>1, <1>2, <2>1, FS_Subset DEF NatValued
  <2>. QED  BY <2>2, SumNat
<1>. DEFINE byMember == [m \in Members |-> SumFunctionOnSet(r, {i \in DOMAIN opts : o[i] = m})]
<1>5. SumFunctionOnSet(byMember, Members) = SumFunctionOnSet(r, DOMAIN opts)
  <2>. HIDE DEF o, r
  <2>. QED  BY <1>1, <1>2, SetsAssumption, SumByClass
<1>6. [m \in Members |-> RewardOf(opts, w, m)] = byMember
  BY <1>3
<1>. HIDE DEF cls, o, byMember
<1>. QED  BY <1>3, <1>4, <1>5, <1>6 DEF Distributed

(* Among finitely many options one beats all the others.                    *)
LEMMA WinnerExists ==
  ASSUME NEW opts \in Seq(Option), opts # <<>>
  PROVE  \E i \in DOMAIN opts : \A j \in DOMAIN opts : Beats(opts, i, j)
<1>. DEFINE D == DOMAIN opts
            G == {J \in SUBSET D : J # {} => \E i \in J : \A j \in J : Beats(opts, i, j)}
<1>1. IsFiniteSet(D) /\ D # {}
  BY OptionsFinite
<1>2. \A i \in D : i \in Nat /\ opts[i].votes \in Nat
  BY OptionsFinite DEF Option
<1>3. \A i \in D : Beats(opts, i, i)
  BY <1>2 DEF Beats
<1>4. \A i, j \in D : Beats(opts, i, j) \/ Beats(opts, j, i)
  BY <1>2 DEF Beats
<1>5. \A i, j, k \in D : Beats(opts, i, j) /\ Beats(opts, j, k) => Beats(opts, i, k)
  BY <1>2 DEF Beats
<1>6. ASSUME NEW J \in SUBSET D, J # {}, \A x \in J : J \ {x} \in G
      PROVE  J \in G
  <2>1. PICK x \in J : TRUE
    BY <1>6
  <2>2. CASE J \ {x} = {}
    BY <2>1, <2>2, <1>3
  <2>3. CASE J \ {x} # {}
    <3>1. PICK i \in J \ {x} : \A j \in J \ {x} : Beats(opts, i, j)
      BY <1>6, <2>1, <2>3
    <3>2. CASE Beats(opts, i, x)
      BY <3>1, <3>2
    <3>3. CASE Beats(opts, x, i)
      <4>1. \A j \in J : Beats(opts, x, j)
        BY <3>1, <3>3, <1>3, <1>5
      <4>. QED  BY <4>1, <2>1
    <3>. QED  BY <3>1, <3>2, <3>3, <1>4, <2>1
  <2>. QED  BY <2>2, <2>3
<1>7. {} \in G
  OBVIOUS
<1>. HIDE DEF G, D
<1>8. D \in G
  <2>1. \A J \in SUBSET D : J # {} /\ (\A x \in J : J \ {x} \in G) => J \in G
    BY ONLY <1>6
  <2>2. \A J \in SUBSET D : J \in G
    BY ONLY <1>1, <1>7, <2>1, SubsetInduction
  <2>. QED  BY <2>2
<1>. QED  BY <1>1, <1>8 DEF G, D

LEMMA WinnerIndexBest ==
  ASSUME NEW p \in Proposals, options[p] \in Seq(Option), options[p] # <<>>
  PROVE  /\ WinnerIndex(p) \in DOMAIN options[p] /\ WinnerIndex(p) \in Nat
         /\ \A j \in DOMAIN options[p] : Beats(options[p], WinnerIndex(p), j)
<1>1. \E i \in DOMAIN options[p] : \A j \in DOMAIN options[p] : Beats(options[p], i, j)
  BY WinnerExists
<1>2. /\ WinnerIndex(p) \in DOMAIN options[p]
      /\ \A j \in DOMAIN options[p] : Beats(options[p], WinnerIndex(p), j)
  BY <1>1 DEF WinnerIndex
<1>. QED  BY <1>2, OptionsFinite

-----------------------------------------------------------------------------
(* Moving tokens between two different holders.                             *)
LEMMA MovedType ==
  ASSUME TypeOK, NEW from \in Holders, NEW to \in Holders, from # to,
         NEW amount \in Nat, CanPay(from, amount)
  PROVE  /\ Moved(from, to, amount) \in [Holders -> Nat]
         /\ Moved(from, to, amount)[from] = token[from] - amount
         /\ Moved(from, to, amount)[to] = token[to] + amount
         /\ \A h \in Holders \ {from, to} : Moved(from, to, amount)[h] = token[h]
<1>1. token \in [Holders -> Nat]
  BY DEF TypeOK
<1>2. token[from] \in Nat /\ token[to] \in Nat /\ token[from] >= amount
  BY <1>1 DEF CanPay
<1>. DEFINE mid == [token EXCEPT ![from] = @ - amount]
<1>3. mid \in [Holders -> Nat] /\ mid[from] = token[from] - amount
      /\ \A h \in Holders \ {from} : mid[h] = token[h]
  BY <1>1, <1>2
<1>4. Moved(from, to, amount) = [mid EXCEPT ![to] = @ + amount]
  BY DEF Moved
<1>. HIDE DEF mid
<1>. QED  BY <1>2, <1>3, <1>4

(* Updating one field of an order or an option.                             *)
LEMMA RecordUpdates ==
  /\ \A o \in OrderType :
       LET c == [o EXCEPT !.cancelled = TRUE]
       IN  c \in OrderType /\ c.amount = o.amount /\ c.cancelled /\ c.placed = o.placed
  /\ \A o \in Option, a \in Nat :
       LET c == [o EXCEPT !.votes = @ + a]
       IN  c \in Option /\ c.stake = o.stake /\ c.proposer = o.proposer
           /\ c.votes = o.votes + a
<1>1. ASSUME NEW o \in OrderType
      PROVE  LET c == [o EXCEPT !.cancelled = TRUE]
             IN  c \in OrderType /\ c.amount = o.amount /\ c.cancelled
                 /\ c.placed = o.placed
  BY <1>1 DEF OrderType
<1>2. ASSUME NEW o \in Option, NEW a \in Nat
      PROVE  LET c == [o EXCEPT !.votes = @ + a]
             IN  c \in Option /\ c.stake = o.stake /\ c.proposer = o.proposer
                 /\ c.votes = o.votes + a
  BY <1>2 DEF Option
<1>. QED  BY <1>1, <1>2

LEMMA HoldersFacts ==
  /\ Contract \in Holders /\ Treasurer \in Holders /\ Members \subseteq Holders
  /\ \A m \in Members : m # Contract
  /\ Contract # Treasurer
BY SetsAssumption DEF Holders

(* Each action keeps the types.                                             *)
LEMMA TypeInductive ==
  TypeOK /\ [Next]_vars => TypeOK'
<1>. SUFFICES ASSUME TypeOK, [Next]_vars
              PROVE  TypeOK'
  OBVIOUS
<1>. USE AmountsAssumption
<1>1. ASSUME NEW m \in Members, NEW to \in Holders, NEW a \in TransferAmounts,
             Transfer(m, to, a)
      PROVE  TypeOK'
  <2>1. token' \in [Holders -> Nat]
    BY <1>1, MovedType, HoldersFacts DEF Transfer
  <2>. QED  BY <1>1, <2>1 DEF Transfer, TypeOK, ballotVars, outcomeVars,
              orderVars, nativeVars, createVars, adminVars
<1>2. ASSUME NEW m \in Members, SubscribeMonthly(m)
      PROVE  TypeOK'
  <2>1. token' \in [Holders -> Nat]
    BY <1>2, MovedType, HoldersFacts DEF SubscribeMonthly
  <2>2. SubscriptionBase(m) \in Nat
    BY DEF SubscriptionBase, TypeOK
  <2>3. treasuryToken' \in Nat /\ expiry' \in [Members -> Nat]
    BY <1>2, <2>2 DEF SubscribeMonthly, TypeOK
  <2>. QED  BY <1>2, <2>1, <2>3 DEF SubscribeMonthly, TypeOK, ballotVars,
              outcomeVars, orderVars, nativeVars, createVars, adminVars
<1>3. ASSUME NEW m \in Members, ClaimReward(m)
      PROVE  TypeOK'
  <2>1. claimable[m] \in Nat
    BY DEF TypeOK
  <2>2. token' \in [Holders -> Nat]
    BY <1>3, <2>1, MovedType, HoldersFacts DEF ClaimReward
  <2>. QED  BY <1>3, <2>2 DEF ClaimReward, TypeOK, ballotVars, outcomeVars,
              orderVars, nativeVars, createVars, adminVars
<1>4. ASSUME NEW m \in Members, NEW p \in Proposals, AddOption(p, m)
      PROVE  TypeOK'
  <2>1. token' \in [Holders -> Nat]
    BY <1>4, MovedType, HoldersFacts DEF AddOption
  <2>2. options' \in [Proposals -> Seq(Option)]
    <3>1. [proposer |-> m, votes |-> 0, stake |-> OptionTokenCost] \in Option
      BY DEF Option
    <3>2. Append(options[p], [proposer |-> m, votes |-> 0, stake |-> OptionTokenCost])
            \in Seq(Option)
      BY <3>1 DEF TypeOK
    <3>. QED  BY <1>4, <3>2 DEF AddOption, TypeOK
  <2>3. optionPool' \in [Proposals -> Nat]
    BY <1>4 DEF AddOption, TypeOK
  <2>. QED  BY <1>4, <2>1, <2>2, <2>3 DEF AddOption, TypeOK, outcomeVars,
              orderVars, nativeVars, createVars, adminVars
<1>5. ASSUME NEW m \in Members, NEW p \in Proposals, CancelOrder(p, m)
      PROVE  TypeOK'
  <2>. DEFINE o == [orders[p][m] EXCEPT !.cancelled = TRUE]
  <2>0. /\ orders \in [Proposals -> [Members -> OrderType]]
        /\ orderPool \in [Proposals -> Nat] /\ native \in Nat
    BY DEF TypeOK
  <2>1. o \in OrderType /\ orders[p][m].amount \in Nat
    <3>1. orders[p][m] \in OrderType
      BY <2>0
    <3>. QED  BY <3>1, RecordUpdates DEF OrderType
  <2>2. /\ orders' = [orders EXCEPT ![p] = [orders[p] EXCEPT ![m] = o]]
        /\ orderPool' = [orderPool EXCEPT ![p] = @ - orders[p][m].amount]
        /\ native' = native - orders[p][m].amount
        /\ orders[p][m].amount <= orderPool[p] /\ orders[p][m].amount <= native
    BY <1>5 DEF CancelOrder
  <2>. HIDE DEF o
  <2>4. orders' \in [Proposals -> [Members -> OrderType]]
    BY <2>0, <2>1, <2>2
  <2>3. orderPool' \in [Proposals -> Nat] /\ native' \in Nat
    BY <2>0, <2>1, <2>2
  <2>. QED  BY <1>5, <2>3, <2>4 DEF CancelOrder, TypeOK, tokenVars, ballotVars,
              outcomeVars, createVars, adminVars
<1>6. ASSUME NEW m \in Members, NEW p \in Proposals, NEW a \in VoteAmounts,
             NEW i \in DOMAIN options[p], Vote(p, m, i, a)
      PROVE  TypeOK'
  <2>1. token' \in [Holders -> Nat]
    BY <1>6, MovedType, HoldersFacts DEF Vote
  <2>2. options' \in [Proposals -> Seq(Option)]
    <3>1. options[p] \in Seq(Option) /\ options[p][i] \in Option
      BY OptionsFinite DEF TypeOK
    <3>2. a \in Nat
      BY <1>6
    <3>. DEFINE o == [options[p][i] EXCEPT !.votes = @ + a]
    <3>3. o \in Option
      BY <3>1, <3>2, RecordUpdates
    <3>4. options' = [options EXCEPT ![p] = [options[p] EXCEPT ![i] = o]]
      BY <1>6 DEF Vote
    <3>. HIDE DEF o
    <3>5. [options[p] EXCEPT ![i] = o] \in Seq(Option)
      BY <3>1, <3>3
    <3>. QED  BY <3>4, <3>5 DEF TypeOK
  <2>3. votePool' \in [Proposals -> Nat]
    <3>1. votePool \in [Proposals -> Nat] /\ a \in Nat
      BY <1>6 DEF TypeOK
    <3>2. votePool' = [votePool EXCEPT ![p] = @ + a]
      BY <1>6 DEF Vote
    <3>. QED  BY <3>1, <3>2
  <2>. QED  BY <1>6, <2>1, <2>2, <2>3 DEF Vote, TypeOK, outcomeVars,
              orderVars, nativeVars, createVars, adminVars
<1>7. ASSUME NEW p \in Proposals, NEW s \in Schedules, CreateProposal(p, s)
      PROVE  TypeOK'
  <2>1. s \in Schedule
    BY RecordsAssumption DEF Schedule
  <2>. QED  BY <1>7, <2>1 DEF CreateProposal, TypeOK, tokenVars, ballotVars,
              outcomeVars, orderVars, nativeVars, adminVars
<1>8. ASSUME NEW p \in Proposals, FinalizeVote(p)
      PROVE  TypeOK'
  <2>1. WinnerIndex(p) \in Nat
    BY <1>8, WinnerIndexBest DEF FinalizeVote, CanFinalize, TypeOK
  <2>. QED  BY <1>8, <2>1 DEF FinalizeVote, TypeOK, tokenVars, ballotVars,
              orderVars, nativeVars, createVars, adminVars
<1>9. ASSUME NEW p \in Proposals, SettleProposal(p)
      PROVE  TypeOK'
  <2>. DEFINE w == IF voteFinalized[p] THEN winner[p] ELSE WinnerIndex(p)
  <2>0. options[p] \in Seq(Option)
    BY DEF TypeOK
  <2>1. w \in Nat
    BY <1>9, <2>0, WinnerIndexBest DEF SettleProposal, CanFinalize, TypeOK
  <2>2. \A m \in Members : RewardOf(options[p], w, m) \in Nat
    <3>. HIDE DEF w
    <3>. QED  BY <2>0, RewardsAddUp
  <2>3. claimable' \in [Members -> Nat]
    <3>1. claimable' = [m \in Members |-> claimable[m] + RewardOf(options[p], w, m)]
      BY <1>9 DEF SettleProposal
    <3>. HIDE DEF w
    <3>. QED  BY <3>1, <2>2 DEF TypeOK
  <2>4. OrderFee(p) \in Nat /\ OrderFee(p) <= orderPool[p] /\ orderPool[p] \in Nat
    <3>1. orderPool[p] \in Nat
      BY DEF TypeOK
    <3>. QED  BY <3>1, BpsBound DEF OrderFee
  <2>5. native' \in Nat /\ treasuryNative' \in Nat
    <3>1. native \in Nat /\ treasuryNative \in Nat
      BY DEF TypeOK
    <3>2. /\ orderPool[p] - OrderFee(p) <= native
          /\ native' = native - (orderPool[p] - OrderFee(p))
          /\ treasuryNative' = treasuryNative + OrderFee(p)
      BY <1>9 DEF SettleProposal
    <3>. QED  BY <3>1, <3>2, <2>4
  <2>6. TreasuryGain(p, w) \in Nat
    <3>1. Distributed(options[p], w) \in Nat
      <4>. HIDE DEF w
      <4>. QED  BY <2>0, DistributedBound
    <3>. HIDE DEF w
    <3>. QED  BY <3>1 DEF TreasuryGain, TypeOK
  <2>7. treasuryToken' \in Nat
    <3>1. treasuryToken' = treasuryToken + TreasuryGain(p, w)
      BY <1>9 DEF SettleProposal
    <3>. HIDE DEF w
    <3>. QED  BY <3>1, <2>6 DEF TypeOK
  <2>8. /\ voteFinalized' \in [Proposals -> BOOLEAN]
        /\ settled' \in [Proposals -> BOOLEAN]
        /\ winner' \in [Proposals -> Nat]
    BY <1>9, <2>1 DEF SettleProposal, TypeOK
  <2>. HIDE DEF w
  <2>. QED  BY <1>9, <2>3, <2>5, <2>7, <2>8 DEF SettleProposal, TypeOK,
              ballotVars, orderVars, createVars, adminVars
<1>10. ASSUME NEW q \in Quotes, NEW s \in Signers, PlaceOrder(q, s)
       PROVE  TypeOK'
  <2>1. q.proposal \in Proposals /\ q.member \in Members /\ q.amount \in Nat
    BY RecordsAssumption
  <2>2. Order(q) \in OrderType
    BY <2>1 DEF Order, OrderType
  <2>3. Rewritten(orders[q.proposal][q.member]) \in Nat
    BY <2>1 DEF Rewritten, TypeOK, OrderType
  <2>4. orders' \in [Proposals -> [Members -> OrderType]]
    BY <1>10, <2>1, <2>2 DEF PlaceOrder, TypeOK
  <2>5. /\ orderPool' \in [Proposals -> Nat] /\ writtenOff' \in [Proposals -> Nat]
        /\ native' \in Nat /\ usedDigests' \subseteq Quotes
    <3>. DEFINE r == Rewritten(orders[q.proposal][q.member])
    <3>1. /\ orderPool \in [Proposals -> Nat] /\ writtenOff \in [Proposals -> Nat]
          /\ native \in Nat /\ usedDigests \subseteq Quotes
      BY DEF TypeOK
    <3>2. /\ r <= orderPool[q.proposal]
          /\ orderPool' = [orderPool EXCEPT ![q.proposal] = (@ - r) + q.amount]
          /\ writtenOff' = [writtenOff EXCEPT ![q.proposal] = @ + r]
          /\ native' = native + q.amount /\ usedDigests' = usedDigests \cup {q}
      BY <1>10 DEF PlaceOrder
    <3>. HIDE DEF r
    <3>3. r \in Nat
      BY <2>3 DEF r
    <3>. QED  BY <3>1, <3>2, <3>3, <2>1
  <2>. QED  BY <1>10, <2>4, <2>5 DEF PlaceOrder, TypeOK, tokenVars, ballotVars,
              outcomeVars, createVars, adminVars
<1>11. ASSUME NEW a \in WithdrawAmounts, WithdrawTreasuryTokens(a)
       PROVE  TypeOK'
  <2>1. token' \in [Holders -> Nat]
    <3>1. a \in Nat /\ CanPay(Contract, a) /\ token' = Moved(Contract, Treasurer, a)
      BY <1>11 DEF WithdrawTreasuryTokens
    <3>. QED  BY <3>1, MovedType, HoldersFacts
  <2>2. treasuryToken' \in Nat
    BY <1>11 DEF WithdrawTreasuryTokens, TypeOK
  <2>. QED  BY <1>11, <2>1, <2>2 DEF WithdrawTreasuryTokens, TypeOK, ballotVars,
              outcomeVars, orderVars, nativeVars, createVars, adminVars
<1>12. ASSUME NEW a \in WithdrawAmounts, WithdrawTreasuryNative(a)
       PROVE  TypeOK'
  <2>1. native' \in Nat /\ treasuryNative' \in Nat
    <3>1. a \in Nat /\ native \in Nat /\ treasuryNative \in Nat
      BY DEF TypeOK
    <3>2. /\ a <= treasuryNative /\ a <= native
          /\ treasuryNative' = treasuryNative - a /\ native' = native - a
      BY <1>12 DEF WithdrawTreasuryNative
    <3>. QED  BY <3>1, <3>2
  <2>. QED  BY <1>12, <2>1 DEF WithdrawTreasuryNative, TypeOK, tokenVars, ballotVars,
              outcomeVars, orderVars, createVars, adminVars
<1>13. ASSUME NEW s \in Signers, SetSigner(s)
       PROVE  TypeOK'
  BY <1>13 DEF SetSigner, TypeOK, tokenVars, ballotVars, outcomeVars,
     orderVars, nativeVars, createVars
<1>14. ASSUME NEW w \in PlatformWallets, SetPlatformMainWallet(w)
       PROVE  TypeOK'
  BY <1>14 DEF SetPlatformMainWallet, TypeOK, tokenVars, ballotVars,
     outcomeVars, orderVars, nativeVars, createVars
<1>15. CASE Tick
  BY <1>15 DEF Tick, TypeOK, tokenVars, ballotVars, outcomeVars, orderVars,
     nativeVars, createVars, adminVars
<1>16. CASE UNCHANGED vars
  BY <1>16 DEF vars, TypeOK, tokenVars, ballotVars, outcomeVars, orderVars,
     nativeVars, createVars, adminVars
<1>. QED  BY <1>1, <1>2, <1>3, <1>4, <1>5, <1>6, <1>7, <1>8, <1>9, <1>10, <1>11,
     <1>12, <1>13, <1>14, <1>15, <1>16 DEF Next, MemberStep, AnyoneStep, OwnerStep

LEMMA TypeInitially == Init => TypeOK
BY AmountsAssumption DEF Init, TypeOK, Schedule, OrderType, NoOrder

(* Type correctness: every variable keeps its type; in particular no token  *)
(* balance, pool or ether balance ever goes below zero.                     *)
THEOREM TypeCorrect == Spec => []TypeOK
BY TypeInitially, TypeInductive, PTL DEF Spec

-----------------------------------------------------------------------------
(* The life of a proposal only moves forward.                               *)
lifeVars == <<now, schedule, exists, voteFinalized, settled, winner, options>>

LEMMA StagesInductive ==
  TypeOK /\ Stages /\ [Next]_vars => Stages'
<1>. SUFFICES ASSUME TypeOK, Stages, [Next]_vars
              PROVE  Stages'
  OBVIOUS
<1>0. CASE UNCHANGED lifeVars
  BY <1>0 DEF lifeVars, Stages
<1>1. ASSUME NEW m \in Members, NEW p \in Proposals, AddOption(p, m)
      PROVE  Stages'
  BY <1>1 DEF AddOption, Stages, TypeOK, outcomeVars, createVars
<1>2. ASSUME NEW m \in Members, NEW p \in Proposals, NEW a \in VoteAmounts,
             NEW i \in DOMAIN options[p], Vote(p, m, i, a)
      PROVE  Stages'
  <2>1. exists[p] /\ \A q \in Proposals \ {p} : options'[q] = options[q]
    BY <1>2 DEF Vote, TypeOK
  <2>. QED  BY <1>2, <2>1 DEF Vote, Stages, outcomeVars, createVars
<1>3. ASSUME NEW p \in Proposals, NEW s \in Schedules, CreateProposal(p, s)
      PROVE  Stages'
  <2>1. s.proposal \in Nat /\ s.vote \in Nat /\ s.order \in Nat
    BY RecordsAssumption
  <2>. QED  BY <1>3, <2>1 DEF CreateProposal, Stages, TypeOK, ballotVars, outcomeVars
<1>4. ASSUME NEW p \in Proposals, FinalizeVote(p)
      PROVE  Stages'
  BY <1>4 DEF FinalizeVote, CanFinalize, VoteOver, Stages, TypeOK, ballotVars, createVars
<1>5. ASSUME NEW p \in Proposals, SettleProposal(p)
      PROVE  Stages'
  <2>1. schedule[p].vote \in Nat /\ schedule[p].order \in Nat /\ now \in Nat
    BY DEF TypeOK, Schedule
  <2>2. /\ exists[p] /\ now > schedule[p].order
        /\ voteFinalized' = [voteFinalized EXCEPT ![p] = TRUE]
        /\ settled' = [settled EXCEPT ![p] = TRUE]
        /\ UNCHANGED <<now, schedule, exists, options>>
    BY <1>5 DEF SettleProposal, OrderOver, ballotVars, createVars
  <2>3. now > schedule[p].vote
    BY <2>1, <2>2 DEF Stages
  <2>. QED  BY <2>2, <2>3 DEF Stages, TypeOK
<1>6. CASE Tick
  <2>1. \A p \in Proposals : schedule[p].vote \in Nat /\ schedule[p].order \in Nat
    BY DEF TypeOK, Schedule
  <2>2. now \in Nat /\ now' = now + 1
        /\ UNCHANGED <<schedule, exists, voteFinalized, settled, options>>
    BY <1>6 DEF Tick, TypeOK, createVars, outcomeVars, ballotVars
  <2>. QED  BY <2>1, <2>2 DEF Stages
<1>7. ASSUME NEW m \in Members, MemberStep(m),
             ~ \E p \in Proposals : AddOption(p, m),
             ~ \E p \in Proposals : \E a \in VoteAmounts, i \in DOMAIN options[p] :
                 Vote(p, m, i, a)
      PROVE  UNCHANGED lifeVars
  BY <1>7 DEF MemberStep, Transfer, SubscribeMonthly, ClaimReward, CancelOrder,
     lifeVars, ballotVars, outcomeVars, createVars
<1>8. ASSUME NEW q \in Quotes, NEW s \in Signers, PlaceOrder(q, s)
      PROVE  UNCHANGED lifeVars
  BY <1>8 DEF PlaceOrder, lifeVars, ballotVars, outcomeVars, createVars
<1>9. CASE OwnerStep
  <2>1. UNCHANGED lifeVars
    BY <1>9 DEF OwnerStep, WithdrawTreasuryTokens, WithdrawTreasuryNative, SetSigner,
       SetPlatformMainWallet, lifeVars, ballotVars, outcomeVars, createVars
  <2>. QED  BY <2>1, <1>0
<1>10. CASE UNCHANGED vars
  BY <1>10, <1>0 DEF vars, lifeVars, ballotVars, outcomeVars, createVars
<1>. QED  BY <1>0, <1>1, <1>2, <1>3, <1>4, <1>5, <1>6, <1>7, <1>8, <1>9, <1>10
     DEF Next, AnyoneStep

LEMMA StagesInitially == Init => Stages
BY DEF Init, Stages

(* A proposal that does not exist has no options, a finalised one is past   *)
(* its voting deadline and a settled one past its ordering deadline.        *)
THEOREM LifeInOrder == Spec => [](TypeOK /\ Stages)
BY TypeInitially, TypeInductive, StagesInitially, StagesInductive, PTL DEF Spec

-----------------------------------------------------------------------------
(* What an ordinary step leaves alone: unless it is one of the five steps   *)
(* that concern a proposal's ballot, it changes neither ballot nor outcome. *)
ballotOutcome == <<voteFinalized, settled, winner, options>>

BallotStep ==
  \E p \in Proposals :
    \/ \E m \in Members : AddOption(p, m)
    \/ \E m \in Members, a \in VoteAmounts, i \in DOMAIN options[p] : Vote(p, m, i, a)
    \/ FinalizeVote(p)
    \/ SettleProposal(p)

LEMMA OtherSteps ==
  [Next]_vars => BallotStep \/ UNCHANGED ballotOutcome
<1>. SUFFICES ASSUME [Next]_vars, ~BallotStep
              PROVE  UNCHANGED ballotOutcome
  OBVIOUS
<1>. USE DEF ballotOutcome, ballotVars, outcomeVars
<1>1. ASSUME NEW m \in Members, MemberStep(m)
      PROVE  UNCHANGED ballotOutcome
  BY <1>1 DEF BallotStep, MemberStep, Transfer, SubscribeMonthly, ClaimReward, CancelOrder
<1>2. ASSUME NEW p \in Proposals, AnyoneStep(p)
      PROVE  UNCHANGED ballotOutcome
  BY <1>2 DEF BallotStep, AnyoneStep, CreateProposal
<1>3. ASSUME NEW q \in Quotes, NEW s \in Signers, PlaceOrder(q, s)
      PROVE  UNCHANGED ballotOutcome
  BY <1>3 DEF PlaceOrder
<1>4. CASE OwnerStep
  BY <1>4 DEF OwnerStep, WithdrawTreasuryTokens, WithdrawTreasuryNative, SetSigner,
     SetPlatformMainWallet
<1>5. CASE Tick \/ UNCHANGED vars
  BY <1>5 DEF Tick, vars
<1>. QED  BY <1>1, <1>2, <1>3, <1>4, <1>5 DEF Next

LEMMA WinnerInductive ==
  TypeOK /\ Stages /\ WinnerIsFirstBest /\ [Next]_vars => WinnerIsFirstBest'
<1>. SUFFICES ASSUME TypeOK, Stages, WinnerIsFirstBest, [Next]_vars
              PROVE  WinnerIsFirstBest'
  OBVIOUS
<1>0. CASE UNCHANGED ballotOutcome
  BY <1>0 DEF ballotOutcome, WinnerIsFirstBest, Beats
<1>1. ASSUME NEW p \in Proposals, NEW m \in Members, AddOption(p, m)
      PROVE  WinnerIsFirstBest'
  <2>1. /\ ~voteFinalized[p] /\ UNCHANGED <<voteFinalized, winner>>
        /\ \A q \in Proposals \ {p} : options'[q] = options[q]
    BY <1>1 DEF AddOption, outcomeVars, TypeOK
  <2>. QED  BY <2>1 DEF WinnerIsFirstBest, Beats
<1>2. ASSUME NEW p \in Proposals, NEW m \in Members, NEW a \in VoteAmounts,
             NEW i \in DOMAIN options[p], Vote(p, m, i, a)
      PROVE  WinnerIsFirstBest'
  <2>1. now \in Nat /\ schedule[p].vote \in Nat
    BY DEF TypeOK, Schedule
  <2>2. /\ now <= schedule[p].vote /\ UNCHANGED <<voteFinalized, winner>>
        /\ \A q \in Proposals \ {p} : options'[q] = options[q]
    BY <1>2 DEF Vote, VoteOpen, outcomeVars, TypeOK
  <2>3. ~voteFinalized[p]
    BY <2>1, <2>2 DEF Stages
  <2>. QED  BY <2>2, <2>3 DEF WinnerIsFirstBest, Beats
<1>3. ASSUME NEW p \in Proposals, FinalizeVote(p) \/ SettleProposal(p)
      PROVE  WinnerIsFirstBest'
  <2>1. /\ options' = options
        /\ voteFinalized' = [voteFinalized EXCEPT ![p] = TRUE]
        /\ \/ voteFinalized[p] /\ winner' = [winner EXCEPT ![p] = winner[p]]
           \/ options[p] # <<>> /\ winner' = [winner EXCEPT ![p] = WinnerIndex(p)]
    BY <1>3 DEF FinalizeVote, SettleProposal, CanFinalize, ballotVars
  <2>2. options[p] \in Seq(Option)
    BY DEF TypeOK
  <2>3. ASSUME options[p] # <<>>
        PROVE  /\ WinnerIndex(p) \in DOMAIN options[p]
               /\ \A i \in DOMAIN options[p] : Beats(options[p], WinnerIndex(p), i)
    BY <2>2, <2>3, WinnerIndexBest
  <2>4. /\ winner'[p] \in DOMAIN options[p]
        /\ \A i \in DOMAIN options[p] : Beats(options[p], winner'[p], i)
    BY <2>1, <2>3 DEF WinnerIsFirstBest, TypeOK
  <2>5. \A q \in Proposals \ {p} : winner'[q] = winner[q] /\ voteFinalized'[q] = voteFinalized[q]
    BY <2>1 DEF TypeOK
  <2>. QED  BY <2>1, <2>4, <2>5 DEF WinnerIsFirstBest
<1>. QED  BY <1>0, <1>1, <1>2, <1>3, OtherSteps DEF BallotStep

(* The finalised winner is the earliest option with the most votes, for     *)
(* ever: votes and options come too late to change it.                      *)
THEOREM WinnerStands == Spec => []WinnerIsFirstBest
<1>1. Init => WinnerIsFirstBest
  BY DEF Init, WinnerIsFirstBest
<1>. QED  BY <1>1, TypeInitially, TypeInductive, StagesInitially, StagesInductive,
     WinnerInductive, PTL DEF Spec

-----------------------------------------------------------------------------
(* Steps that touch orders: placing, cancelling; the others leave the       *)
(* orders, their pools and the used digests alone.                          *)
OrderStep ==
  \/ \E q \in Quotes, s \in Signers : PlaceOrder(q, s)
  \/ \E p \in Proposals, m \in Members : CancelOrder(p, m)

LEMMA StepsWithoutOrders ==
  [Next]_vars => OrderStep \/ UNCHANGED orderVars
<1>. SUFFICES ASSUME [Next]_vars, ~OrderStep
              PROVE  UNCHANGED orderVars
  OBVIOUS
<1>. USE DEF orderVars
<1>1. ASSUME NEW m \in Members, MemberStep(m)
      PROVE  UNCHANGED orderVars
  BY <1>1 DEF OrderStep, MemberStep, Transfer, SubscribeMonthly, ClaimReward, AddOption, Vote
<1>2. ASSUME NEW p \in Proposals, AnyoneStep(p)
      PROVE  UNCHANGED orderVars
  BY <1>2 DEF AnyoneStep, CreateProposal, FinalizeVote, SettleProposal
<1>3. CASE OwnerStep
  BY <1>3 DEF OwnerStep, WithdrawTreasuryTokens, WithdrawTreasuryNative, SetSigner,
     SetPlatformMainWallet
<1>4. CASE Tick \/ UNCHANGED vars
  BY <1>4 DEF Tick, vars
<1>. QED  BY <1>1, <1>2, <1>3, <1>4 DEF Next, OrderStep

(* What the two order steps do, in the terms the invariants use.            *)
LEMMA PlaceOrderEffect ==
  ASSUME TypeOK, NEW q \in Quotes, NEW s \in Signers, PlaceOrder(q, s)
  PROVE  LET p == q.proposal  m == q.member  old == orders[p][m]
         IN  /\ p \in Proposals /\ m \in Members /\ q.amount \in Nat
             /\ ~settled[p] /\ ~Active(old) /\ q \in usedDigests' \ usedDigests
             /\ old \in OrderType /\ Rewritten(old) <= orderPool[p]
             /\ orders' = [orders EXCEPT ![p] = [orders[p] EXCEPT ![m] = Order(q)]]
             /\ orderPool' = [orderPool EXCEPT ![p] = (@ - Rewritten(old)) + q.amount]
             /\ writtenOff' = [writtenOff EXCEPT ![p] = @ + Rewritten(old)]
             /\ native' = native + q.amount
<1>1. q.proposal \in Proposals /\ q.member \in Members /\ q.amount \in Nat
  BY RecordsAssumption
<1>2. orders[q.proposal][q.member] \in OrderType
  BY <1>1 DEF TypeOK
<1>3. ~Active(orders[q.proposal][q.member])
  BY <1>2 DEF PlaceOrder, MayOrder, Active, OrderType
<1>. QED  BY <1>1, <1>2, <1>3 DEF PlaceOrder, SignatureValid

LEMMA CancelOrderEffect ==
  ASSUME TypeOK, NEW p \in Proposals, NEW m \in Members, CancelOrder(p, m)
  PROVE  \E o \in OrderType :
           /\ o.cancelled /\ now <= schedule[p].order
           /\ Active(orders[p][m]) /\ orders[p][m] \in OrderType
           /\ orders[p][m].amount <= orderPool[p] /\ orders[p][m].amount <= native
           /\ orders' = [orders EXCEPT ![p] = [orders[p] EXCEPT ![m] = o]]
           /\ orderPool' = [orderPool EXCEPT ![p] = @ - orders[p][m].amount]
           /\ native' = native - orders[p][m].amount
           /\ UNCHANGED <<writtenOff, usedDigests>>
<1>. DEFINE o == [orders[p][m] EXCEPT !.cancelled = TRUE]
<1>1. orders[p][m] \in OrderType
  BY DEF TypeOK
<1>2. o \in OrderType /\ o.cancelled
  BY <1>1, RecordUpdates
<1>3. orders' = [orders EXCEPT ![p] = [orders[p] EXCEPT ![m] = o]]
  BY DEF CancelOrder
<1>4. /\ now <= schedule[p].order /\ Active(orders[p][m])
      /\ orders[p][m].amount <= orderPool[p] /\ orders[p][m].amount <= native
      /\ orderPool' = [orderPool EXCEPT ![p] = @ - orders[p][m].amount]
      /\ native' = native - orders[p][m].amount
      /\ UNCHANGED <<writtenOff, usedDigests>>
  BY DEF CancelOrder, CancelWindow
<1>. HIDE DEF o
<1>. QED  BY <1>1, <1>2, <1>3, <1>4

(* An order becomes active only by using up a signature made for it.        *)
LEMMA SignedStep ==
  TypeOK /\ [Next]_vars =>
    \A p \in Proposals, m \in Members :
      Active(orders'[p][m]) /\ orders'[p][m] # orders[p][m] =>
        \E q \in usedDigests' \ usedDigests :
          q.proposal = p /\ q.member = m /\ q.amount = orders'[p][m].amount
<1>. SUFFICES ASSUME TypeOK, [Next]_vars, NEW p \in Proposals, NEW m \in Members,
                     Active(orders'[p][m]), orders'[p][m] # orders[p][m]
              PROVE  \E q \in usedDigests' \ usedDigests :
                       q.proposal = p /\ q.member = m /\ q.amount = orders'[p][m].amount
  OBVIOUS
<1>1. ASSUME NEW q \in Quotes, NEW s \in Signers, PlaceOrder(q, s)
      PROVE  /\ q \in usedDigests' \ usedDigests
             /\ q.proposal = p /\ q.member = m /\ q.amount = orders'[p][m].amount
  <2>1. /\ q \in usedDigests' \ usedDigests
        /\ q.proposal \in Proposals /\ q.member \in Members
        /\ orders' = [orders EXCEPT ![q.proposal] =
                        [orders[q.proposal] EXCEPT ![q.member] = Order(q)]]
    BY <1>1, PlaceOrderEffect
  <2>2. orders \in [Proposals -> [Members -> OrderType]]
    BY DEF TypeOK
  <2>3. q.proposal = p /\ q.member = m /\ orders'[p][m] = Order(q)
    BY <2>1, <2>2
  <2>. QED  BY <2>1, <2>3 DEF Order
<1>2. ASSUME NEW r \in Proposals, NEW n \in Members, CancelOrder(r, n)
      PROVE  FALSE
  <2>1. PICK o \in OrderType :
           /\ o.cancelled
           /\ orders' = [orders EXCEPT ![r] = [orders[r] EXCEPT ![n] = o]]
    BY <1>2, CancelOrderEffect
  <2>2. orders \in [Proposals -> [Members -> OrderType]]
    BY DEF TypeOK
  <2>3. orders'[p][m] = o
    BY <2>1, <2>2
  <2>. QED  BY <2>1, <2>3 DEF Active
<1>3. ~ UNCHANGED orderVars
  BY DEF orderVars
<1>. QED  BY <1>1, <1>2, <1>3, StepsWithoutOrders DEF OrderStep

(* No order is ever placed twice on one signature.                          *)
THEOREM OrdersAreSigned == Spec => SignedOnce
<1>1. TypeOK /\ [Next]_vars =>
        [\A p \in Proposals, m \in Members :
           Active(orders'[p][m]) /\ orders'[p][m] # orders[p][m] =>
             \E q \in usedDigests' \ usedDigests :
               q.proposal = p /\ q.member = m /\ q.amount = orders'[p][m].amount]_vars
  BY SignedStep
<1>. QED  BY <1>1, TypeCorrect, PTL DEF Spec, SignedOnce

-----------------------------------------------------------------------------
(* Changing one member's order changes the total of the active orders by    *)
(* the difference of what that order counts for.                            *)
Counts(o) == IF Active(o) THEN o.amount ELSE 0

LEMMA CountsNat ==
  ASSUME TypeOK
  PROVE  /\ \A o \in OrderType : Counts(o) \in Nat
         /\ \A p \in Proposals, m \in Members :
              orders[p][m] \in OrderType /\ ActiveAmounts(p)[m] = Counts(orders[p][m])
         /\ \A p \in Proposals : NatValued(ActiveAmounts(p), Members)
                                  /\ IntValued(ActiveAmounts(p), Members)
                                  /\ ActiveTotal(p) \in Nat
<1>1. \A o \in OrderType : Counts(o) \in Nat
  BY DEF Counts, OrderType
<1>2. \A p \in Proposals, m \in Members :
        orders[p][m] \in OrderType /\ ActiveAmounts(p)[m] = Counts(orders[p][m])
  BY DEF TypeOK, Counts, ActiveAmounts
<1>3. \A p \in Proposals : NatValued(ActiveAmounts(p), Members)
                            /\ IntValued(ActiveAmounts(p), Members)
  BY <1>1, <1>2 DEF NatValued, IntValued
<1>. QED  BY <1>1, <1>2, <1>3, SetsAssumption, SumNat DEF ActiveTotal

LEMMA OneOrderChanges ==
  ASSUME TypeOK, NEW p \in Proposals, NEW m \in Members, NEW o \in OrderType,
         orders' = [orders EXCEPT ![p] = [orders[p] EXCEPT ![m] = o]]
  PROVE  /\ ActiveTotal(p)' = ActiveTotal(p) - Counts(orders[p][m]) + Counts(o)
         /\ \A r \in Proposals \ {p} : ActiveTotal(r)' = ActiveTotal(r)
<1>1. orders \in [Proposals -> [Members -> OrderType]]
  BY DEF TypeOK
<1>2. orders'[p] = [orders[p] EXCEPT ![m] = o]
      /\ \A r \in Proposals \ {p} : orders'[r] = orders[r]
  BY <1>1
<1>. DEFINE f == ActiveAmounts(p)
            g == [n \in Members |-> Counts(orders'[p][n])]
<1>3. ActiveTotal(p)' = SumFunctionOnSet(g, Members)
  BY DEF ActiveTotal, ActiveAmounts, Counts
<1>4. ActiveTotal(p) = SumFunctionOnSet(f, Members)
  BY DEF ActiveTotal
<1>5. /\ IntValued(f, Members) /\ f[m] = Counts(orders[p][m])
      /\ \A n \in Members : f[n] = Counts(orders[p][n])
  BY CountsNat
<1>6. /\ g[m] = Counts(o) /\ Counts(o) \in Nat
      /\ \A n \in Members \ {m} : g[n] = f[n]
  BY <1>1, <1>2, <1>5, CountsNat
<1>7. IntValued(g, Members)
  BY <1>5, <1>6 DEF IntValued
<1>. HIDE DEF f, g
<1>8. SumFunctionOnSet(g, Members) = SumFunctionOnSet(f, Members) - f[m] + g[m]
  BY <1>5, <1>6, <1>7, SetsAssumption, SumUpdate
<1>9. \A r \in Proposals \ {p} : ActiveTotal(r)' = ActiveTotal(r)
  BY <1>2 DEF ActiveTotal, ActiveAmounts, Active
<1>. QED  BY <1>3, <1>4, <1>5, <1>6, <1>8, <1>9

LEMMA PoolInductive ==
  TypeOK /\ PoolAccounting /\ [Next]_vars => PoolAccounting'
<1>. SUFFICES ASSUME TypeOK, PoolAccounting, [Next]_vars
              PROVE  PoolAccounting'
  OBVIOUS
<1>0. /\ orderPool \in [Proposals -> Nat] /\ writtenOff \in [Proposals -> Nat]
      /\ orders \in [Proposals -> [Members -> OrderType]]
  BY DEF TypeOK
<1>1. ASSUME NEW q \in Quotes, NEW s \in Signers, PlaceOrder(q, s)
      PROVE  PoolAccounting'
  <2>. DEFINE p == q.proposal
              old == orders[p][q.member]
  <2>1. /\ p \in Proposals /\ q.member \in Members /\ q.amount \in Nat
        /\ ~Active(old) /\ old \in OrderType /\ Rewritten(old) <= orderPool[p]
        /\ orders' = [orders EXCEPT ![p] = [orders[p] EXCEPT ![q.member] = Order(q)]]
        /\ orderPool' = [orderPool EXCEPT ![p] = (@ - Rewritten(old)) + q.amount]
        /\ writtenOff' = [writtenOff EXCEPT ![p] = @ + Rewritten(old)]
    BY <1>1, PlaceOrderEffect
  <2>2. Order(q) \in OrderType /\ Counts(Order(q)) = q.amount /\ Counts(old) = 0
    BY <2>1 DEF Order, OrderType, Counts, Active
  <2>3. Rewritten(old) \in Nat
    BY <2>1 DEF Rewritten, OrderType
  <2>. HIDE DEF p
  <2>4. /\ ActiveTotal(p)' = ActiveTotal(p) + q.amount
        /\ \A r \in Proposals \ {p} : ActiveTotal(r)' = ActiveTotal(r)
    <3>1. /\ ActiveTotal(p)' = ActiveTotal(p) - Counts(old) + Counts(Order(q))
          /\ \A r \in Proposals \ {p} : ActiveTotal(r)' = ActiveTotal(r)
      BY <2>1, <2>2, OneOrderChanges
    <3>. QED  BY <3>1, <2>1, <2>2, CountsNat
  <2>. HIDE DEF old
  <2>. QED  BY <1>0, <2>1, <2>3, <2>4, CountsNat DEF PoolAccounting
<1>2. ASSUME NEW p \in Proposals, NEW m \in Members, CancelOrder(p, m)
      PROVE  PoolAccounting'
  <2>. DEFINE amount == orders[p][m].amount
  <2>1. PICK o \in OrderType :
           /\ o.cancelled
           /\ Active(orders[p][m]) /\ orders[p][m] \in OrderType
           /\ amount <= orderPool[p]
           /\ orders' = [orders EXCEPT ![p] = [orders[p] EXCEPT ![m] = o]]
           /\ orderPool' = [orderPool EXCEPT ![p] = @ - amount]
           /\ writtenOff' = writtenOff
    BY <1>2, CancelOrderEffect
  <2>2. Counts(o) = 0 /\ Counts(orders[p][m]) = amount /\ amount \in Nat
    BY <2>1 DEF Counts, Active, OrderType
  <2>3. /\ ActiveTotal(p)' = ActiveTotal(p) - amount
        /\ \A r \in Proposals \ {p} : ActiveTotal(r)' = ActiveTotal(r)
    <3>1. /\ ActiveTotal(p)' = ActiveTotal(p) - Counts(orders[p][m]) + Counts(o)
          /\ \A r \in Proposals \ {p} : ActiveTotal(r)' = ActiveTotal(r)
      BY <2>1, OneOrderChanges
    <3>. QED  BY <3>1, <2>2, CountsNat
  <2>. HIDE DEF amount
  <2>. QED  BY <1>0, <2>1, <2>2, <2>3, CountsNat DEF PoolAccounting
<1>3. CASE UNCHANGED orderVars
  BY <1>3 DEF orderVars, PoolAccounting, ActiveTotal, ActiveAmounts, Active
<1>. QED  BY <1>1, <1>2, <1>3, StepsWithoutOrders DEF OrderStep

(* The order pool is exactly the active orders, less what re-ordering after *)
(* a cancellation has written off.                                          *)
THEOREM PoolsAddUp == Spec => []PoolAccounting
<1>1. Init => PoolAccounting
  <2>. SUFFICES ASSUME Init, NEW p \in Proposals
                PROVE  orderPool[p] + writtenOff[p] = ActiveTotal(p)
    BY DEF PoolAccounting
  <2>1. /\ orderPool[p] = 0 /\ writtenOff[p] = 0
        /\ \A m \in Members : ActiveAmounts(p)[m] = 0
    BY DEF Init, ActiveAmounts, Active, NoOrder
  <2>2. ActiveTotal(p) = 0
    BY <2>1, SetsAssumption, SumZero DEF ActiveTotal
  <2>. QED  BY <2>1, <2>2
<1>. QED  BY <1>1, TypeInitially, TypeInductive, PoolInductive, PTL DEF Spec

-----------------------------------------------------------------------------
(* No step changes what a settled proposal decided or holds.                *)
LEMMA SettledStep ==
  TypeOK /\ Stages /\ [Next]_vars =>
    \A p \in Proposals : settled[p] =>
      /\ settled'[p] /\ winner'[p] = winner[p]
      /\ options'[p] = options[p] /\ orders'[p] = orders[p]
      /\ orderPool'[p] = orderPool[p]
<1>. SUFFICES ASSUME TypeOK, Stages, [Next]_vars, NEW p \in Proposals, settled[p]
              PROVE  /\ settled'[p] /\ winner'[p] = winner[p]
                     /\ options'[p] = options[p] /\ orders'[p] = orders[p]
                     /\ orderPool'[p] = orderPool[p]
  OBVIOUS
<1>0. /\ now \in Nat /\ schedule[p].vote \in Nat /\ schedule[p].order \in Nat
      /\ voteFinalized[p] /\ now > schedule[p].vote /\ now > schedule[p].order
  BY DEF TypeOK, Schedule, Stages
<1>1. settled'[p] /\ winner'[p] = winner[p] /\ options'[p] = options[p]
  <2>1. CASE UNCHANGED ballotOutcome
    BY <2>1 DEF ballotOutcome
  <2>2. ASSUME NEW r \in Proposals, NEW m \in Members, AddOption(r, m)
        PROVE  r # p /\ UNCHANGED <<settled, winner>> /\ options'[p] = options[p]
    BY <2>2, <1>0 DEF AddOption, outcomeVars, TypeOK
  <2>3. ASSUME NEW r \in Proposals, NEW m \in Members, NEW a \in VoteAmounts,
               NEW i \in DOMAIN options[r], Vote(r, m, i, a)
        PROVE  r # p /\ UNCHANGED <<settled, winner>> /\ options'[p] = options[p]
    <3>1. r # p
      BY <2>3, <1>0 DEF Vote, VoteOpen
    <3>. QED  BY <2>3, <3>1 DEF Vote, outcomeVars, TypeOK
  <2>4. ASSUME NEW r \in Proposals, FinalizeVote(r)
        PROVE  r # p /\ settled' = settled /\ winner'[p] = winner[p] /\ options' = options
    BY <2>4, <1>0 DEF FinalizeVote, CanFinalize, ballotVars, TypeOK
  <2>5. ASSUME NEW r \in Proposals, SettleProposal(r)
        PROVE  r # p /\ settled'[p] /\ winner'[p] = winner[p] /\ options' = options
    BY <2>5, <1>0 DEF SettleProposal, ballotVars, TypeOK
  <2>. QED  BY <2>1, <2>2, <2>3, <2>4, <2>5, OtherSteps DEF BallotStep
<1>2. orders'[p] = orders[p] /\ orderPool'[p] = orderPool[p]
  <2>1. ASSUME NEW q \in Quotes, NEW s \in Signers, PlaceOrder(q, s)
        PROVE  orders'[p] = orders[p] /\ orderPool'[p] = orderPool[p]
    BY <2>1, PlaceOrderEffect DEF TypeOK
  <2>2. ASSUME NEW r \in Proposals, NEW m \in Members, CancelOrder(r, m)
        PROVE  orders'[p] = orders[p] /\ orderPool'[p] = orderPool[p]
    <3>1. PICK o \in OrderType :
            /\ now <= schedule[r].order
            /\ orders' = [orders EXCEPT ![r] = [orders[r] EXCEPT ![m] = o]]
            /\ orderPool' = [orderPool EXCEPT ![r] = @ - orders[r][m].amount]
      BY <2>2, CancelOrderEffect
    <3>. QED  BY <3>1, <1>0 DEF TypeOK
  <2>3. CASE UNCHANGED orderVars
    BY <2>3 DEF orderVars
  <2>. QED  BY <2>1, <2>2, <2>3, StepsWithoutOrders DEF OrderStep
<1>. QED  BY <1>1, <1>2

(* A settled proposal is frozen for ever.                                   *)
THEOREM SettlementIsFinal == Spec => SettledIsFinal
<1>1. TypeOK /\ Stages /\ [Next]_vars =>
        [\A p \in Proposals : settled[p] =>
           /\ settled'[p] /\ winner'[p] = winner[p]
           /\ options'[p] = options[p] /\ orders'[p] = orders[p]
           /\ orderPool'[p] = orderPool[p]]_vars
  BY SettledStep
<1>. QED  BY <1>1, LifeInOrder, PTL DEF Spec, SettledIsFinal

-----------------------------------------------------------------------------
(* Only a payment moves an expiry, and it moves it forward.                 *)
LEMMA SubscriptionStep ==
  TypeOK /\ [Next]_vars =>
    \A m \in Members : expiry'[m] # expiry[m] =>
      /\ expiry'[m] >= expiry[m] + SubscriptionDuration
      /\ expiry'[m] >= now + SubscriptionDuration
<1>. SUFFICES ASSUME TypeOK, [Next]_vars, NEW m \in Members, expiry'[m] # expiry[m]
              PROVE  /\ expiry'[m] >= expiry[m] + SubscriptionDuration
                     /\ expiry'[m] >= now + SubscriptionDuration
  OBVIOUS
<1>1. expiry[m] \in Nat /\ now \in Nat /\ SubscriptionDuration \in Nat
  BY AmountsAssumption DEF TypeOK
<1>2. PICK k \in Members : SubscribeMonthly(k)
  <2>1. ASSUME NEW k \in Members, MemberStep(k), ~SubscribeMonthly(k)
        PROVE  expiry' = expiry
    BY <2>1 DEF MemberStep, Transfer, ClaimReward, AddOption, CancelOrder, Vote
  <2>2. ASSUME NEW p \in Proposals, AnyoneStep(p)
        PROVE  expiry' = expiry
    BY <2>2 DEF AnyoneStep, CreateProposal, FinalizeVote, SettleProposal
  <2>3. ASSUME NEW q \in Quotes, NEW s \in Signers, PlaceOrder(q, s)
        PROVE  expiry' = expiry
    BY <2>3 DEF PlaceOrder
  <2>4. ASSUME OwnerStep \/ Tick \/ UNCHANGED vars
        PROVE  expiry' = expiry
    BY <2>4 DEF OwnerStep, WithdrawTreasuryTokens, WithdrawTreasuryNative, SetSigner,
       SetPlatformMainWallet, Tick, vars
  <2>. QED  BY <2>1, <2>2, <2>3, <2>4 DEF Next
<1>3. expiry' = [expiry EXCEPT ![k] = SubscriptionBase(k) + SubscriptionDuration]
  BY <1>2 DEF SubscribeMonthly
<1>4. k = m /\ expiry'[m] = SubscriptionBase(m) + SubscriptionDuration
  BY <1>3 DEF TypeOK
<1>. QED  BY <1>1, <1>4 DEF SubscriptionBase

(* A payment never costs a subscriber time, whenever it is made.            *)
THEOREM SubscriptionsGrow == Spec => SubscriptionExtends
<1>1. TypeOK /\ [Next]_vars =>
        [\A m \in Members : expiry'[m] # expiry[m] =>
           /\ expiry'[m] >= expiry[m] + SubscriptionDuration
           /\ expiry'[m] >= now + SubscriptionDuration]_vars
  BY SubscriptionStep
<1>. QED  BY <1>1, TypeCorrect, PTL DEF Spec, SubscriptionExtends

-----------------------------------------------------------------------------
(* Solvency: the contract can always pay the tokens and ether it owes.      *)

(* StakeAt sums only the stakes, so a vote leaves it and an option adds to  *)
(* it.                                                                      *)
LEMMA StakesOfAppend ==
  ASSUME NEW opts \in Seq(Option), NEW o \in Option
  PROVE  SumFunctionOnSet(StakeAt(Append(opts, o)), DOMAIN Append(opts, o)) =
           SumFunctionOnSet(StakeAt(opts), DOMAIN opts) + o.stake
<1>. DEFINE n    == Len(opts) + 1
            more == Append(opts, o)
            f    == StakeAt(more)
            g    == StakeAt(opts)
<1>0. /\ Len(opts) \in Nat /\ DOMAIN opts = 1..Len(opts)
      /\ more \in Seq(Option) /\ Len(more) = n /\ DOMAIN more = 1..n
  OBVIOUS
<1>1. /\ n \in DOMAIN more /\ more[n] = o
      /\ DOMAIN opts = (DOMAIN more) \ {n}
      /\ \A i \in DOMAIN opts : more[i] = opts[i]
  <2>1. \A i \in 1..Len(opts) : more[i] = opts[i]
    OBVIOUS
  <2>2. more[n] = o
    OBVIOUS
  <2>3. 1..Len(opts) = (1..n) \ {n} /\ n \in 1..n
    BY <1>0
  <2>. QED  BY <1>0, <2>1, <2>2, <2>3
<1>. HIDE DEF more, n
<1>2. IsFiniteSet(DOMAIN more) /\ IsFiniteSet(DOMAIN opts)
  BY <1>0, OptionsFinite
<1>3. \A i \in DOMAIN more : more[i].stake \in Int
  <2>1. \A i \in DOMAIN more : more[i] \in Option
    BY <1>0, OptionsFinite
  <2>. QED  BY <2>1 DEF Option
<1>4. IntValued(f, DOMAIN more) /\ IntValued(f, DOMAIN opts) /\ f[n] = o.stake
  BY <1>1, <1>3 DEF IntValued, StakeAt
<1>5. \A i \in DOMAIN opts : f[i] = g[i]
  BY <1>1 DEF StakeAt
<1>. HIDE DEF f, g
<1>6. SumFunctionOnSet(f, DOMAIN opts) = SumFunctionOnSet(g, DOMAIN opts)
  BY <1>2, <1>4, <1>5, SumAgree
<1>7. SumFunctionOnSet(f, DOMAIN more) = f[n] + SumFunctionOnSet(f, (DOMAIN more) \ {n})
      /\ SumFunctionOnSet(f, (DOMAIN more) \ {n}) \in Int
  BY <1>1, <1>2, <1>4, SumStep
<1>8. f[n] \in Int
  BY <1>1, <1>4 DEF IntValued
<1>9. SumFunctionOnSet(f, DOMAIN more) = SumFunctionOnSet(g, DOMAIN opts) + o.stake
  BY <1>1, <1>4, <1>6, <1>7, <1>8
<1>. QED  BY <1>9 DEF f, g, more

LEMMA StakesOfVote ==
  ASSUME NEW opts \in Seq(Option), NEW i \in DOMAIN opts, NEW o \in Option,
         o.stake = opts[i].stake
  PROVE  SumFunctionOnSet(StakeAt([opts EXCEPT ![i] = o]), DOMAIN [opts EXCEPT ![i] = o]) =
           SumFunctionOnSet(StakeAt(opts), DOMAIN opts)
<1>. DEFINE new == [opts EXCEPT ![i] = o]
<1>1. DOMAIN new = DOMAIN opts /\ \A j \in DOMAIN opts : new[j].stake = opts[j].stake
  OBVIOUS
<1>2. StakeAt(new) = StakeAt(opts)
  BY <1>1 DEF StakeAt
<1>. QED  BY <1>1, <1>2

LEMMA StakesInductive ==
  TypeOK /\ Stakes /\ [Next]_vars => Stakes'
<1>. SUFFICES ASSUME TypeOK, Stakes, [Next]_vars
              PROVE  Stakes'
  OBVIOUS
<1>. USE AmountsAssumption
<1>0. options \in [Proposals -> Seq(Option)] /\ optionPool \in [Proposals -> Nat]
  BY DEF TypeOK
<1>1. ASSUME NEW p \in Proposals, NEW m \in Members, AddOption(p, m)
      PROVE  Stakes'
  <2>. DEFINE o == [proposer |-> m, votes |-> 0, stake |-> OptionTokenCost]
  <2>1. o \in Option /\ o.stake = OptionTokenCost
    BY DEF Option
  <2>2. /\ options' = [options EXCEPT ![p] = Append(options[p], o)]
        /\ optionPool' = [optionPool EXCEPT ![p] = @ + OptionTokenCost]
    BY <1>1 DEF AddOption
  <2>. HIDE DEF o
  <2>3. options'[p] = Append(options[p], o)
        /\ \A r \in Proposals \ {p} : options'[r] = options[r]
    BY <1>0, <2>2
  <2>4. SumFunctionOnSet(StakeAt(options'[p]), DOMAIN options'[p]) =
          SumFunctionOnSet(StakeAt(options[p]), DOMAIN options[p]) + OptionTokenCost
    BY <1>0, <2>1, <2>3, StakesOfAppend
  <2>. QED  BY <1>0, <2>2, <2>3, <2>4 DEF Stakes, StakeAt
<1>2. ASSUME NEW p \in Proposals, NEW m \in Members, NEW a \in VoteAmounts,
             NEW i \in DOMAIN options[p], Vote(p, m, i, a)
      PROVE  Stakes'
  <2>. DEFINE o == [options[p][i] EXCEPT !.votes = @ + a]
  <2>1. options[p] \in Seq(Option) /\ options[p][i] \in Option /\ a \in Nat
    BY <1>0, OptionsFinite
  <2>2. o \in Option /\ o.stake = options[p][i].stake
    BY <2>1, RecordUpdates
  <2>3. /\ options' = [options EXCEPT ![p] = [options[p] EXCEPT ![i] = o]]
        /\ optionPool' = optionPool
    BY <1>2 DEF Vote
  <2>. HIDE DEF o
  <2>4. options'[p] = [options[p] EXCEPT ![i] = o]
        /\ \A r \in Proposals \ {p} : options'[r] = options[r]
    BY <1>0, <2>3
  <2>5. SumFunctionOnSet(StakeAt(options'[p]), DOMAIN options'[p]) =
          SumFunctionOnSet(StakeAt(options[p]), DOMAIN options[p])
    <3>1. PICK opts, after : opts = options[p] /\ after = options'[p]
      OBVIOUS
    <3>2. opts \in Seq(Option) /\ i \in DOMAIN opts /\ o.stake = opts[i].stake
          /\ after = [opts EXCEPT ![i] = o]
      BY <2>1, <2>2, <2>4, <3>1
    <3>3. SumFunctionOnSet(StakeAt(after), DOMAIN after) =
            SumFunctionOnSet(StakeAt(opts), DOMAIN opts)
      BY <2>2, <3>2, StakesOfVote
    <3>. QED  BY <3>1, <3>3
  <2>6. ASSUME NEW r \in Proposals
        PROVE  optionPool'[r] = SumFunctionOnSet(StakeAt(options'[r]), DOMAIN options'[r])
    <3>1. optionPool[r] = SumFunctionOnSet(StakeAt(options[r]), DOMAIN options[r])
      BY DEF Stakes
    <3>2. CASE r = p
      BY <2>3, <2>5, <3>1, <3>2
    <3>3. CASE r # p
      <4>1. options'[r] = options[r] /\ optionPool'[r] = optionPool[r]
        BY <2>3, <2>4, <3>3
      <4>. QED  BY <3>1, <4>1
    <3>. QED  BY <3>2, <3>3
  <2>. QED  BY <2>6 DEF Stakes
<1>3. ASSUME NEW m \in Members, MemberStep(m),
             ~ \E p \in Proposals : AddOption(p, m),
             ~ \E p \in Proposals : \E a \in VoteAmounts, i \in DOMAIN options[p] :
                 Vote(p, m, i, a)
      PROVE  UNCHANGED <<options, optionPool>>
  BY <1>3 DEF MemberStep, Transfer, SubscribeMonthly, ClaimReward, CancelOrder, ballotVars
<1>4. ASSUME NEW p \in Proposals, AnyoneStep(p)
      PROVE  UNCHANGED <<options, optionPool>>
  BY <1>4 DEF AnyoneStep, CreateProposal, FinalizeVote, SettleProposal, ballotVars
<1>5. ASSUME NEW q \in Quotes, NEW s \in Signers, PlaceOrder(q, s)
      PROVE  UNCHANGED <<options, optionPool>>
  BY <1>5 DEF PlaceOrder, ballotVars
<1>6. CASE OwnerStep \/ Tick \/ UNCHANGED vars
  <2>1. UNCHANGED <<options, optionPool>>
    BY <1>6 DEF OwnerStep, WithdrawTreasuryTokens, WithdrawTreasuryNative, SetSigner,
       SetPlatformMainWallet, Tick, vars, ballotVars
  <2>. QED  BY <2>1 DEF Stakes, StakeAt
<1>7. CASE UNCHANGED <<options, optionPool>>
  BY <1>7 DEF Stakes, StakeAt
<1>. QED  BY <1>1, <1>2, <1>3, <1>4, <1>5, <1>6, <1>7 DEF Next

LEMMA StakesInitially == Init => Stakes
<1>. SUFFICES ASSUME Init, NEW p \in Proposals
              PROVE  optionPool[p] = SumFunctionOnSet(StakeAt(options[p]), DOMAIN options[p])
  BY DEF Stakes
<1>1. optionPool[p] = 0 /\ DOMAIN options[p] = {}
  BY DEF Init
<1>. QED  BY <1>1, SumEmpty

-----------------------------------------------------------------------------
(* Sums of balances over the members and over the proposals.                *)
LEMMA BalanceSum ==
  ASSUME NEW S \in {Members, Proposals}, NEW f \in [S -> Nat]
  PROVE  /\ SumFunction(f) = SumFunctionOnSet(f, S)
         /\ SumFunction(f) \in Nat /\ IntValued(f, S)
         /\ \A x \in S : f[x] <= SumFunction(f)
<1>1. IsFiniteSet(S) /\ NatValued(f, S) /\ IntValued(f, S)
  BY SetsAssumption DEF NatValued, IntValued
<1>2. SumFunction(f) = SumFunctionOnSet(f, S)
  BY DEF SumFunction
<1>. QED  BY <1>1, <1>2, SumNat

LEMMA BalanceUpdate ==
  ASSUME NEW S \in {Members, Proposals}, NEW f \in [S -> Nat], NEW g \in [S -> Nat],
         NEW x \in S, \A y \in S \ {x} : g[y] = f[y]
  PROVE  SumFunction(g) = SumFunction(f) - f[x] + g[x]
<1>1. IsFiniteSet(S)
  BY SetsAssumption
<1>2. /\ SumFunction(f) = SumFunctionOnSet(f, S) /\ IntValued(f, S)
      /\ SumFunction(g) = SumFunctionOnSet(g, S) /\ IntValued(g, S)
  BY BalanceSum
<1>. QED  BY <1>1, <1>2, SumUpdate

LEMMA BalancePlus ==
  ASSUME NEW f \in [Members -> Nat], NEW d \in [Members -> Nat], NEW g \in [Members -> Nat],
         \A m \in Members : g[m] = f[m] + d[m]
  PROVE  SumFunction(g) = SumFunction(f) + SumFunction(d)
<1>1. /\ SumFunction(f) = SumFunctionOnSet(f, Members) /\ IntValued(f, Members)
      /\ SumFunction(g) = SumFunctionOnSet(g, Members)
      /\ SumFunction(d) = SumFunctionOnSet(d, Members) /\ IntValued(d, Members)
  BY BalanceSum
<1>. QED  BY <1>1, SetsAssumption, SumPlus

-----------------------------------------------------------------------------
(* Token solvency.                                                          *)
tokenView == <<token, treasuryToken, claimable, settled, optionPool, votePool>>

LEMMA TokenTypes ==
  ASSUME TypeOK
  PROVE  /\ token \in [Holders -> Nat] /\ token[Contract] \in Nat
         /\ treasuryToken \in Nat /\ claimable \in [Members -> Nat]
         /\ settled \in [Proposals -> BOOLEAN]
         /\ optionPool \in [Proposals -> Nat] /\ votePool \in [Proposals -> Nat]
         /\ StakeOwed \in [Proposals -> Nat]
         /\ SumFunction(claimable) \in Nat /\ SumFunction(StakeOwed) \in Nat
<1>1. /\ token \in [Holders -> Nat] /\ treasuryToken \in Nat
      /\ claimable \in [Members -> Nat] /\ settled \in [Proposals -> BOOLEAN]
      /\ optionPool \in [Proposals -> Nat] /\ votePool \in [Proposals -> Nat]
  BY DEF TypeOK
<1>2. StakeOwed \in [Proposals -> Nat]
  BY <1>1 DEF StakeOwed
<1>3. SumFunction(claimable) \in Nat /\ SumFunction(StakeOwed) \in Nat
  BY <1>1, <1>2, BalanceSum
<1>. QED  BY <1>1, <1>2, <1>3, HoldersFacts

LEMMA TokenInductive ==
  TypeOK /\ TypeOK' /\ Stakes /\ TokenSolvency /\ [Next]_vars => TokenSolvency'
<1>. SUFFICES ASSUME TypeOK, TypeOK', Stakes, TokenSolvency, [Next]_vars
              PROVE  TokenSolvency'
  OBVIOUS
<1>. USE AmountsAssumption
<1>a. /\ token \in [Holders -> Nat] /\ token[Contract] \in Nat
      /\ treasuryToken \in Nat /\ claimable \in [Members -> Nat]
      /\ settled \in [Proposals -> BOOLEAN]
      /\ optionPool \in [Proposals -> Nat] /\ votePool \in [Proposals -> Nat]
      /\ StakeOwed \in [Proposals -> Nat]
      /\ SumFunction(claimable) \in Nat /\ SumFunction(StakeOwed) \in Nat
  BY TokenTypes
<1>b. claimable' \in [Members -> Nat] /\ StakeOwed' \in [Proposals -> Nat]
  <2>1. /\ claimable' \in [Members -> Nat] /\ settled' \in [Proposals -> BOOLEAN]
        /\ optionPool' \in [Proposals -> Nat] /\ votePool' \in [Proposals -> Nat]
    BY DEF TypeOK
  <2>. QED  BY <2>1 DEF StakeOwed
<1>c. token[Contract] >= treasuryToken + SumFunction(claimable) + SumFunction(StakeOwed)
  BY DEF TokenSolvency
<1>e. UNCHANGED <<settled, optionPool, votePool>> => StakeOwed' = StakeOwed
  BY DEF StakeOwed
<1>0. CASE UNCHANGED tokenView
  BY <1>0, <1>c, <1>e DEF tokenView, TokenSolvency
<1>1. ASSUME NEW m \in Members, NEW to \in Holders, NEW a \in TransferAmounts,
             Transfer(m, to, a)
      PROVE  TokenSolvency'
  <2>1. /\ m # to /\ CanPay(m, a) /\ a \in Nat /\ token' = Moved(m, to, a)
        /\ UNCHANGED <<treasuryToken, claimable, settled, optionPool, votePool>>
    BY <1>1 DEF Transfer, ballotVars, outcomeVars
  <2>2. token'[Contract] >= token[Contract]
    BY <2>1, <1>a, HoldersFacts, MovedType
  <2>3. token'[Contract] \in Nat
    BY <2>1, HoldersFacts DEF TypeOK
  <2>. QED  BY <2>1, <2>2, <2>3, <1>a, <1>c, <1>e DEF TokenSolvency
<1>2. ASSUME NEW m \in Members, SubscribeMonthly(m)
      PROVE  TokenSolvency'
  <2>1. /\ CanPay(m, SubscriptionTokenCost)
        /\ token' = Moved(m, Contract, SubscriptionTokenCost)
        /\ treasuryToken' = treasuryToken + SubscriptionTokenCost
        /\ UNCHANGED <<claimable, settled, optionPool, votePool>>
    BY <1>2 DEF SubscribeMonthly, ballotVars, outcomeVars
  <2>2. token'[Contract] = token[Contract] + SubscriptionTokenCost
    BY <2>1, HoldersFacts, MovedType
  <2>. QED  BY <2>1, <2>2, <1>a, <1>c, <1>e DEF TokenSolvency
<1>3. ASSUME NEW m \in Members, ClaimReward(m)
      PROVE  TokenSolvency'
  <2>1. /\ CanPay(Contract, claimable[m]) /\ claimable[m] \in Nat
        /\ token' = Moved(Contract, m, claimable[m])
        /\ claimable' = [claimable EXCEPT ![m] = 0]
        /\ UNCHANGED <<treasuryToken, settled, optionPool, votePool>>
    BY <1>3, <1>a DEF ClaimReward, ballotVars, outcomeVars
  <2>2. token'[Contract] = token[Contract] - claimable[m]
    BY <2>1, HoldersFacts, MovedType
  <2>3. claimable'[m] = 0 /\ \A n \in Members \ {m} : claimable'[n] = claimable[n]
    BY <2>1, <1>a
  <2>4. SumFunction(claimable') = SumFunction(claimable) - claimable[m]
    <3>1. SumFunction(claimable') = SumFunction(claimable) - claimable[m] + claimable'[m]
      BY <2>3, <1>a, <1>b, BalanceUpdate
    <3>. QED  BY <3>1, <2>1, <2>3, <1>a
  <2>. QED  BY <2>1, <2>2, <2>4, <1>a, <1>c, <1>e DEF TokenSolvency
<1>4. ASSUME NEW m \in Members, NEW p \in Proposals, NEW a \in Nat,
             CanPay(m, a), token' = Moved(m, Contract, a),
             UNCHANGED <<treasuryToken, claimable, settled>>,
             \A r \in Proposals \ {p} : optionPool'[r] = optionPool[r] /\ votePool'[r] = votePool[r],
             optionPool'[p] + votePool'[p] = optionPool[p] + votePool[p] + a
      PROVE  TokenSolvency'
  <2>1. token'[Contract] = token[Contract] + a
    BY <1>4, HoldersFacts, MovedType
  <2>2. StakeOwed'[p] <= StakeOwed[p] + a
        /\ \A r \in Proposals \ {p} : StakeOwed'[r] = StakeOwed[r]
    BY <1>4, <1>a DEF StakeOwed
  <2>3. SumFunction(StakeOwed') = SumFunction(StakeOwed) - StakeOwed[p] + StakeOwed'[p]
    BY <2>2, <1>a, <1>b, BalanceUpdate
  <2>4. StakeOwed[p] \in Nat /\ StakeOwed'[p] \in Nat
    BY <1>a, <1>b
  <2>. HIDE DEF StakeOwed
  <2>. QED  BY <1>4, <2>1, <2>2, <2>3, <2>4, <1>a, <1>c DEF TokenSolvency
<1>5. ASSUME NEW m \in Members, NEW p \in Proposals, AddOption(p, m)
      PROVE  TokenSolvency'
  <2>1. /\ CanPay(m, OptionTokenCost) /\ token' = Moved(m, Contract, OptionTokenCost)
        /\ UNCHANGED <<treasuryToken, claimable, settled, votePool>>
        /\ optionPool' = [optionPool EXCEPT ![p] = @ + OptionTokenCost]
    BY <1>5 DEF AddOption, outcomeVars
  <2>2. /\ \A r \in Proposals \ {p} : optionPool'[r] = optionPool[r] /\ votePool'[r] = votePool[r]
        /\ optionPool'[p] + votePool'[p] = optionPool[p] + votePool[p] + OptionTokenCost
    BY <2>1, <1>a
  <2>. QED  BY <2>1, <2>2, <1>4
<1>6. ASSUME NEW m \in Members, NEW p \in Proposals, NEW a \in VoteAmounts,
             NEW i \in DOMAIN options[p], Vote(p, m, i, a)
      PROVE  TokenSolvency'
  <2>1. /\ a \in Nat /\ CanPay(m, a) /\ token' = Moved(m, Contract, a)
        /\ UNCHANGED <<treasuryToken, claimable, settled, optionPool>>
        /\ votePool' = [votePool EXCEPT ![p] = @ + a]
    BY <1>6 DEF Vote, outcomeVars
  <2>2. /\ \A r \in Proposals \ {p} : optionPool'[r] = optionPool[r] /\ votePool'[r] = votePool[r]
        /\ optionPool'[p] + votePool'[p] = optionPool[p] + votePool[p] + a
    BY <2>1, <1>a
  <2>. QED  BY <2>1, <2>2, <1>4
<1>7. ASSUME NEW p \in Proposals, SettleProposal(p)
      PROVE  TokenSolvency'
  <2>. DEFINE w == IF voteFinalized[p] THEN winner[p] ELSE WinnerIndex(p)
              r == [m \in Members |-> RewardOf(options[p], w, m)]
              dist == Distributed(options[p], w)
  <2>1. /\ ~settled[p] /\ settled' = [settled EXCEPT ![p] = TRUE]
        /\ claimable' = [m \in Members |-> claimable[m] + RewardOf(options[p], w, m)]
        /\ treasuryToken' = treasuryToken + TreasuryGain(p, w)
        /\ UNCHANGED <<token, optionPool, votePool>>
    BY <1>7 DEF SettleProposal, ballotVars
  <2>2. options[p] \in Seq(Option)
    BY DEF TypeOK
  <2>. HIDE DEF w
  <2>3. /\ r \in [Members -> Nat] /\ SumFunction(r) = dist
        /\ dist \in Nat /\ dist <= optionPool[p]
    <3>1. /\ \A m \in Members : RewardOf(options[p], w, m) \in Nat
          /\ SumFunctionOnSet(r, Members) = dist
      BY <2>2, RewardsAddUp
    <3>2. r \in [Members -> Nat]
      BY <3>1
    <3>3. SumFunction(r) = SumFunctionOnSet(r, Members)
      BY <3>2, BalanceSum
    <3>4. dist \in Nat /\ dist <= optionPool[p]
      BY <2>2, DistributedBound DEF Stakes
    <3>. QED  BY <3>1, <3>2, <3>3, <3>4
  <2>4. SumFunction(claimable') = SumFunction(claimable) + dist
    <3>1. \A m \in Members : claimable'[m] = claimable[m] + r[m]
      BY <2>1
    <3>. HIDE DEF r, dist
    <3>. QED  BY <3>1, <2>3, <1>a, <1>b, BalancePlus
  <2>5. treasuryToken' = treasuryToken + votePool[p] + optionPool[p] - dist
    <3>. HIDE DEF r
    <3>. QED  BY <2>1, <2>3, <1>a DEF TreasuryGain
  <2>6. /\ StakeOwed[p] = optionPool[p] + votePool[p] /\ StakeOwed'[p] = 0
        /\ \A q \in Proposals \ {p} : StakeOwed'[q] = StakeOwed[q]
    BY <2>1, <1>a DEF StakeOwed
  <2>. HIDE DEF dist, r
  <2>7. SumFunction(StakeOwed') = SumFunction(StakeOwed) - optionPool[p] - votePool[p]
    <3>1. SumFunction(StakeOwed') = SumFunction(StakeOwed) - StakeOwed[p] + StakeOwed'[p]
      BY <2>6, <1>a, <1>b, BalanceUpdate
    <3>. QED  BY <3>1, <2>6, <1>a
  <2>. QED  BY <2>1, <2>3, <2>4, <2>5, <2>7, <1>a, <1>c DEF TokenSolvency
<1>8. ASSUME NEW a \in WithdrawAmounts, WithdrawTreasuryTokens(a)
      PROVE  TokenSolvency'
  <2>1. /\ a \in Nat /\ a <= treasuryToken /\ CanPay(Contract, a)
        /\ token' = Moved(Contract, Treasurer, a) /\ treasuryToken' = treasuryToken - a
        /\ UNCHANGED <<claimable, settled, optionPool, votePool>>
    BY <1>8 DEF WithdrawTreasuryTokens, ballotVars, outcomeVars
  <2>2. token'[Contract] = token[Contract] - a
    BY <2>1, HoldersFacts, MovedType
  <2>. QED  BY <2>1, <2>2, <1>a, <1>c, <1>e DEF TokenSolvency
<1>9. \/ UNCHANGED tokenView
      \/ \E m \in Members : MemberStep(m)
      \/ \E p \in Proposals : SettleProposal(p)
      \/ \E a \in WithdrawAmounts : WithdrawTreasuryTokens(a)
  BY DEF Next, AnyoneStep, OwnerStep, CreateProposal, FinalizeVote, PlaceOrder,
     WithdrawTreasuryNative, SetSigner, SetPlatformMainWallet, Tick, vars,
     tokenView, tokenVars, ballotVars, outcomeVars
<1>10. ASSUME NEW m \in Members, NEW p \in Proposals, CancelOrder(p, m)
       PROVE  UNCHANGED tokenView
  BY <1>10 DEF CancelOrder, tokenView, tokenVars, ballotVars, outcomeVars
<1>. QED  BY <1>0, <1>1, <1>2, <1>3, <1>5, <1>6, <1>7, <1>8, <1>9, <1>10
     DEF MemberStep, TokenSolvency

(* The contract holds at every moment the tokens it has booked, promised or *)
(* still keeps.                                                             *)
THEOREM TokensSuffice == Spec => []TokenSolvency
<1>1. Init => TokenSolvency
  <2>. SUFFICES ASSUME Init PROVE TokenSolvency
    OBVIOUS
  <2>1. TypeOK
    BY TypeInitially
  <2>2. /\ \A m \in Members : claimable[m] = 0
        /\ \A p \in Proposals : StakeOwed[p] = 0
        /\ treasuryToken = 0
    BY DEF Init, StakeOwed
  <2>3. SumFunction(claimable) = 0 /\ SumFunction(StakeOwed) = 0
    <3>1. /\ SumFunction(claimable) = SumFunctionOnSet(claimable, Members)
          /\ SumFunction(StakeOwed) = SumFunctionOnSet(StakeOwed, Proposals)
      BY <2>1, TokenTypes, BalanceSum
    <3>. QED  BY <3>1, <2>2, SetsAssumption, SumZero
  <2>. QED  BY <2>1, <2>2, <2>3, TokenTypes DEF TokenSolvency
<1>. QED  BY <1>1, TypeInitially, TypeInductive, StakesInitially, StakesInductive,
     TokenInductive, PTL DEF Spec

-----------------------------------------------------------------------------
(* Native solvency.  An unsettled proposal's refunds stay in the contract;  *)
(* on settlement what is paid out is at most what was owed, because the     *)
(* pool never exceeds the active orders.                                    *)

(* The steps that move ether or settle.                                     *)
LEMMA NativeSteps ==
  [Next]_vars =>
    /\ \/ UNCHANGED nativeVars
       \/ OrderStep
       \/ \E p \in Proposals : SettleProposal(p)
       \/ \E a \in WithdrawAmounts : WithdrawTreasuryNative(a)
    /\ settled' = settled \/ \E p \in Proposals : SettleProposal(p)
<1>. SUFFICES ASSUME [Next]_vars, ~ \E p \in Proposals : SettleProposal(p)
              PROVE  /\ \/ UNCHANGED nativeVars
                        \/ OrderStep
                        \/ \E a \in WithdrawAmounts : WithdrawTreasuryNative(a)
                     /\ settled' = settled
  OBVIOUS
<1>1. ASSUME NEW m \in Members, MemberStep(m), ~OrderStep
      PROVE  UNCHANGED nativeVars
  BY <1>1 DEF MemberStep, Transfer, SubscribeMonthly, ClaimReward, AddOption, Vote,
     OrderStep, nativeVars
<1>2. ASSUME NEW p \in Proposals, AnyoneStep(p)
      PROVE  UNCHANGED nativeVars
  BY <1>2 DEF AnyoneStep, CreateProposal, FinalizeVote, nativeVars
<1>3. ASSUME OwnerStep, ~ \E a \in WithdrawAmounts : WithdrawTreasuryNative(a)
      PROVE  UNCHANGED nativeVars
  BY <1>3 DEF OwnerStep, WithdrawTreasuryTokens, SetSigner, SetPlatformMainWallet, nativeVars
<1>4. ASSUME Tick PROVE UNCHANGED nativeVars
  BY <1>4 DEF Tick, nativeVars
<1>5. ASSUME UNCHANGED vars PROVE UNCHANGED nativeVars
  BY <1>5 DEF vars, nativeVars
<1>6. settled' = settled
  <2>1. CASE UNCHANGED ballotOutcome
    BY <2>1 DEF ballotOutcome
  <2>2. CASE BallotStep
    BY <2>2 DEF BallotStep, AddOption, Vote, FinalizeVote, outcomeVars
  <2>. QED  BY <2>1, <2>2, OtherSteps
<1>. QED  BY <1>1, <1>2, <1>3, <1>4, <1>5, <1>6 DEF Next, OrderStep

LEMMA NativeTypes ==
  ASSUME TypeOK
  PROVE  /\ native \in Nat /\ treasuryNative \in Nat
         /\ settled \in [Proposals -> BOOLEAN]
         /\ orders \in [Proposals -> [Members -> OrderType]]
         /\ orderPool \in [Proposals -> Nat] /\ writtenOff \in [Proposals -> Nat]
         /\ RefundOwed \in [Proposals -> Nat] /\ SumFunction(RefundOwed) \in Nat
         /\ \A p \in Proposals : RefundOwed[p] <= SumFunction(RefundOwed)
<1>1. /\ native \in Nat /\ treasuryNative \in Nat
      /\ settled \in [Proposals -> BOOLEAN]
      /\ orders \in [Proposals -> [Members -> OrderType]]
      /\ orderPool \in [Proposals -> Nat] /\ writtenOff \in [Proposals -> Nat]
  BY DEF TypeOK
<1>2. RefundOwed \in [Proposals -> Nat]
  BY CountsNat DEF RefundOwed
<1>3. SumFunction(RefundOwed) \in Nat
      /\ \A p \in Proposals : RefundOwed[p] <= SumFunction(RefundOwed)
  BY <1>2, BalanceSum
<1>. QED  BY <1>1, <1>2, <1>3

LEMMA NativeInductive ==
  TypeOK /\ Stages /\ PoolAccounting /\ NativeSolvency /\ [Next]_vars => NativeSolvency'
<1>. SUFFICES ASSUME TypeOK, Stages, PoolAccounting, NativeSolvency, [Next]_vars
              PROVE  NativeSolvency'
  OBVIOUS
<1>. USE AmountsAssumption
<1>a. /\ native \in Nat /\ treasuryNative \in Nat
      /\ settled \in [Proposals -> BOOLEAN]
      /\ orders \in [Proposals -> [Members -> OrderType]]
      /\ orderPool \in [Proposals -> Nat] /\ writtenOff \in [Proposals -> Nat]
      /\ RefundOwed \in [Proposals -> Nat] /\ SumFunction(RefundOwed) \in Nat
  BY NativeTypes
<1>b. RefundOwed' \in [Proposals -> Nat]
  <2>1. TypeOK'
    BY TypeInductive
  <2>2. settled' \in [Proposals -> BOOLEAN]
        /\ orders' \in [Proposals -> [Members -> OrderType]]
    BY <2>1 DEF TypeOK
  <2>3. ASSUME NEW p \in Proposals
        PROVE  ActiveTotal(p)' \in Nat
    <3>. DEFINE g == [m \in Members |-> Counts(orders'[p][m])]
    <3>1. ActiveTotal(p)' = SumFunctionOnSet(g, Members)
      BY DEF ActiveTotal, ActiveAmounts, Counts
    <3>2. g \in [Members -> Nat]
      BY <2>2, CountsNat
    <3>. HIDE DEF g
    <3>3. SumFunction(g) = SumFunctionOnSet(g, Members) /\ SumFunction(g) \in Nat
      BY <3>2, BalanceSum
    <3>. QED  BY <3>1, <3>3
  <2>. QED  BY <2>2, <2>3 DEF RefundOwed
<1>d. now \in Nat /\ \A p \in Proposals : schedule[p].order \in Nat
  BY DEF TypeOK, Schedule
<1>c. native >= treasuryNative + SumFunction(RefundOwed)
  BY DEF NativeSolvency
<1>0. CASE UNCHANGED <<settled, orders>>
  <2>1. RefundOwed' = RefundOwed
    BY <1>0 DEF RefundOwed, ActiveTotal, ActiveAmounts, Active
  <2>2. \/ UNCHANGED <<native, treasuryNative>>
        \/ \E a \in WithdrawAmounts : WithdrawTreasuryNative(a)
        \/ \E q \in Quotes, s \in Signers : PlaceOrder(q, s)
        \/ \E p \in Proposals, m \in Members : CancelOrder(p, m)
        \/ \E p \in Proposals : SettleProposal(p)
    BY NativeSteps DEF OrderStep, nativeVars
  <2>3. ASSUME NEW a \in WithdrawAmounts, WithdrawTreasuryNative(a)
        PROVE  /\ a \in Nat /\ a <= treasuryNative
               /\ treasuryNative' = treasuryNative - a /\ native' = native - a
    BY <2>3 DEF WithdrawTreasuryNative
  <2>4. ASSUME NEW q \in Quotes, NEW s \in Signers, PlaceOrder(q, s)
        PROVE  FALSE
    <3>1. /\ q.proposal \in Proposals /\ q.member \in Members
          /\ ~Active(orders[q.proposal][q.member])
          /\ orders' = [orders EXCEPT ![q.proposal] =
                          [orders[q.proposal] EXCEPT ![q.member] = Order(q)]]
      BY <2>4, PlaceOrderEffect
    <3>2. orders'[q.proposal][q.member] = Order(q)
      BY <3>1, <1>a
    <3>. QED  BY <1>0, <3>1, <3>2 DEF Order, Active
  <2>5. ASSUME NEW p \in Proposals, NEW m \in Members, CancelOrder(p, m)
        PROVE  FALSE
    <3>1. PICK o \in OrderType :
            /\ o.cancelled /\ Active(orders[p][m])
            /\ orders' = [orders EXCEPT ![p] = [orders[p] EXCEPT ![m] = o]]
      BY <2>5, CancelOrderEffect
    <3>2. orders'[p][m] = o
      BY <3>1, <1>a
    <3>. QED  BY <1>0, <3>1, <3>2 DEF Active
  <2>6. ASSUME NEW p \in Proposals, SettleProposal(p)
        PROVE  FALSE
    BY <2>6, <1>0, <1>a DEF SettleProposal
  <2>7. CASE UNCHANGED <<native, treasuryNative>>
    BY <2>1, <2>7, <1>c DEF NativeSolvency
  <2>8. CASE \E a \in WithdrawAmounts : WithdrawTreasuryNative(a)
    BY <2>1, <2>3, <2>8, <1>a, <1>c DEF NativeSolvency
  <2>. QED  BY <2>2, <2>4, <2>5, <2>6, <2>7, <2>8
<1>1. ASSUME NEW q \in Quotes, NEW s \in Signers, PlaceOrder(q, s)
      PROVE  NativeSolvency'
  <2>. DEFINE p == q.proposal
              old == orders[p][q.member]
  <2>1. /\ p \in Proposals /\ q.member \in Members /\ q.amount \in Nat
        /\ ~settled[p] /\ ~Active(old) /\ old \in OrderType
        /\ orders' = [orders EXCEPT ![p] = [orders[p] EXCEPT ![q.member] = Order(q)]]
        /\ native' = native + q.amount
    BY <1>1, PlaceOrderEffect
  <2>2. UNCHANGED <<settled, treasuryNative>>
    BY <1>1 DEF PlaceOrder, outcomeVars
  <2>3. Order(q) \in OrderType /\ Counts(Order(q)) = q.amount /\ Counts(old) = 0
    BY <2>1 DEF Order, OrderType, Counts, Active
  <2>4. /\ ActiveTotal(p)' = ActiveTotal(p) - Counts(old) + Counts(Order(q))
        /\ \A r \in Proposals \ {p} : ActiveTotal(r)' = ActiveTotal(r)
    BY <2>1, <2>3, OneOrderChanges
  <2>. HIDE DEF p, old
  <2>5. ActiveTotal(p) \in Nat
    BY <2>1, CountsNat
  <2>6. /\ RefundOwed'[p] = RefundOwed[p] + q.amount
        /\ \A r \in Proposals \ {p} : RefundOwed'[r] = RefundOwed[r]
    BY <2>1, <2>2, <2>3, <2>4, <2>5 DEF RefundOwed
  <2>7. SumFunction(RefundOwed') = SumFunction(RefundOwed) - RefundOwed[p] + RefundOwed'[p]
    BY <2>1, <2>6, <1>a, <1>b, BalanceUpdate
  <2>8. RefundOwed[p] \in Nat
    BY <2>1, <1>a
  <2>. QED  BY <2>1, <2>2, <2>6, <2>7, <2>8, <1>a, <1>c DEF NativeSolvency
<1>2. ASSUME NEW p \in Proposals, NEW m \in Members, CancelOrder(p, m)
      PROVE  NativeSolvency'
  <2>. DEFINE amount == orders[p][m].amount
  <2>1. PICK o \in OrderType :
           /\ o.cancelled /\ amount <= native
           /\ Active(orders[p][m]) /\ orders[p][m] \in OrderType
           /\ orders' = [orders EXCEPT ![p] = [orders[p] EXCEPT ![m] = o]]
           /\ native' = native - amount
    BY <1>2, CancelOrderEffect
  <2>2. UNCHANGED <<settled, treasuryNative>>
    BY <1>2 DEF CancelOrder, outcomeVars
  <2>3. Counts(o) = 0 /\ Counts(orders[p][m]) = amount /\ amount \in Nat
    BY <2>1 DEF Counts, Active, OrderType
  <2>4. /\ ActiveTotal(p)' = ActiveTotal(p) - Counts(orders[p][m]) + Counts(o)
        /\ \A r \in Proposals \ {p} : ActiveTotal(r)' = ActiveTotal(r)
    BY <2>1, OneOrderChanges
  <2>. HIDE DEF amount
  <2>5. ActiveTotal(p) \in Nat
    BY CountsNat
  <2>6. ~settled[p]
    BY <1>2, <1>d DEF CancelOrder, CancelWindow, Stages
  <2>7. /\ RefundOwed'[p] = RefundOwed[p] - amount
        /\ \A r \in Proposals \ {p} : RefundOwed'[r] = RefundOwed[r]
    BY <2>2, <2>3, <2>4, <2>5, <2>6 DEF RefundOwed
  <2>8. SumFunction(RefundOwed') = SumFunction(RefundOwed) - RefundOwed[p] + RefundOwed'[p]
    BY <2>7, <1>a, <1>b, BalanceUpdate
  <2>9. RefundOwed[p] \in Nat
    BY <1>a
  <2>. QED  BY <2>1, <2>2, <2>3, <2>7, <2>8, <2>9, <1>a, <1>c DEF NativeSolvency
<1>3. ASSUME NEW p \in Proposals, SettleProposal(p)
      PROVE  NativeSolvency'
  <2>1. /\ ~settled[p] /\ settled' = [settled EXCEPT ![p] = TRUE]
        /\ treasuryNative' = treasuryNative + OrderFee(p)
        /\ native' = native - (orderPool[p] - OrderFee(p))
        /\ orders' = orders
    BY <1>3 DEF SettleProposal, orderVars
  <2>2. OrderFee(p) \in Nat /\ OrderFee(p) <= orderPool[p] /\ orderPool[p] \in Nat
    BY <1>a, BpsBound DEF OrderFee
  <2>3. orderPool[p] <= ActiveTotal(p) /\ ActiveTotal(p) \in Nat
    BY <1>a, CountsNat DEF PoolAccounting
  <2>4. \A r \in Proposals : ActiveTotal(r)' = ActiveTotal(r)
    BY <2>1 DEF ActiveTotal, ActiveAmounts, Active
  <2>5. /\ RefundOwed[p] = ActiveTotal(p) /\ RefundOwed'[p] = 0
        /\ \A r \in Proposals \ {p} : RefundOwed'[r] = RefundOwed[r]
    BY <2>1, <2>4, <1>a DEF RefundOwed
  <2>6. SumFunction(RefundOwed') = SumFunction(RefundOwed) - ActiveTotal(p)
    <3>1. SumFunction(RefundOwed') = SumFunction(RefundOwed) - RefundOwed[p] + RefundOwed'[p]
      BY <2>5, <1>a, <1>b, BalanceUpdate
    <3>. QED  BY <3>1, <2>3, <2>5, <1>a
  <2>. QED  BY <2>1, <2>2, <2>3, <2>6, <1>a, <1>c DEF NativeSolvency
<1>4. \/ UNCHANGED <<settled, orders>>
      \/ OrderStep
      \/ \E p \in Proposals : SettleProposal(p)
  BY NativeSteps, StepsWithoutOrders DEF orderVars
<1>. QED  BY <1>0, <1>1, <1>2, <1>3, <1>4 DEF OrderStep

(* The contract's ether covers at every moment the booked fees and every    *)
(* refund it may still have to make.                                        *)
THEOREM EtherSuffices == Spec => []NativeSolvency
<1>1. Init => NativeSolvency
  <2>. SUFFICES ASSUME Init PROVE NativeSolvency
    OBVIOUS
  <2>1. TypeOK
    BY TypeInitially
  <2>2. \A p \in Proposals : ActiveTotal(p) = 0
    <3>1. \A p \in Proposals, m \in Members : ActiveAmounts(p)[m] = 0
      BY DEF Init, ActiveAmounts, Active, NoOrder
    <3>. QED  BY <3>1, SetsAssumption, SumZero DEF ActiveTotal
  <2>3. \A p \in Proposals : RefundOwed[p] = 0
    BY <2>2 DEF RefundOwed
  <2>4. SumFunction(RefundOwed) = 0
    <3>1. SumFunction(RefundOwed) = SumFunctionOnSet(RefundOwed, Proposals)
      BY <2>1, NativeTypes, BalanceSum
    <3>. QED  BY <3>1, <2>3, SetsAssumption, SumZero
  <2>. QED  BY <2>4 DEF Init, NativeSolvency
<1>2. Init => PoolAccounting
  <2>. SUFFICES ASSUME Init, NEW p \in Proposals
                PROVE  orderPool[p] + writtenOff[p] = ActiveTotal(p)
    BY DEF PoolAccounting
  <2>1. \A m \in Members : ActiveAmounts(p)[m] = 0
    BY DEF Init, ActiveAmounts, Active, NoOrder
  <2>2. ActiveTotal(p) = 0
    BY <2>1, SetsAssumption, SumZero DEF ActiveTotal
  <2>. QED  BY <2>2 DEF Init
<1>. QED  BY <1>1, <1>2, TypeInitially, TypeInductive, StagesInitially, StagesInductive,
     PoolInductive, NativeInductive, PTL DEF Spec

-----------------------------------------------------------------------------
(* The records of the rounds and escrows that TLC plays add up, for any     *)
(* voters and merchants and without the order that MCContracts puts on      *)
(* their steps: ContractsAddUp, for that instance (castVote, _consumeCoupon, *)
(* releasePayout).                                                          *)
THEOREM RecordsAlwaysAddUp == Gov!Spec /\ Gov!Escrows!Spec => []RecordsAddUp
<1>1. Gov!Spec /\ Gov!Escrows!Spec => []Gov!RecordsAddUp
  BY ContractsAssumption, Gov!ContractsAddUp
<1>2. Gov!RecordsAddUp => RecordsAddUp
  BY DEF RecordsAddUp
<1>. QED  BY <1>1, <1>2, PTL

(* And a round played there is an election: GovernanceIsElection, for that  *)
(* instance (_propose, settleRound).                                        *)
THEOREM RoundsAlwaysAreElections == Gov!Spec => RoundsAreElections
<1>1. Gov!Spec => Gov!RoundsAreElections
  BY ContractsAssumption, Gov!GovernanceIsElection
<1>. QED  BY <1>1 DEF RoundsAreElections
=============================================================================

---------------------------- MODULE VotingSystem ----------------------------
(***************************************************************************)
(* The on-chain voting contract contract/VotingSystem-v3.sol together with *)
(* the MembershipToken it moves.                                           *)
(*                                                                         *)
(* A transaction is atomic, so every external function is one action whose *)
(* guard is the conjunction of its require()s; a transaction that reverts  *)
(* changes nothing and is not modelled.  Members are the addresses that    *)
(* call the contract; Contract and Treasurer are the two other holders of  *)
(* membership tokens (Treasurer stands for every address the owner         *)
(* withdraws to).  Members are assumed to have approved the contract and   *)
(* to have the ether they send, and an address that is paid accepts it.    *)
(*                                                                         *)
(* Options are numbered from 1; winner[p] = 0 until finalisation.          *)
(***************************************************************************)
EXTENDS Integers, Sequences, FiniteSets, Functions

CONSTANTS
  Members,               \* addresses that propose, vote and order
  Contract, Treasurer,   \* the contract's own address; the withdrawal target
  Signers,               \* keys the owner may appoint to sign orders
  PlatformWallets,       \* addresses the owner may appoint to be paid
  Proposals,             \* identifiers given out by proposalCount++
  Quotes,                \* orders a signer may sign: the signed digests
  Schedules,             \* deadlines a creator may choose
  InitialTokens,         \* membership tokens minted to each member
  OptionTokenCost, SubscriptionTokenCost, SubscriptionDuration,
  VoteAmounts, TransferAmounts, WithdrawAmounts,   \* amounts tried as inputs
  MaxOptions, MaxTime    \* bounds for model checking

LoserRefundBps  == 4000
WinnerRewardBps == 6000
OrderFeeBps     == 300
Bps(amount, bps) == (amount * bps) \div 10000

ASSUME SetsAssumption ==
  /\ IsFiniteSet(Members) /\ IsFiniteSet(Proposals)
  /\ Contract \notin Members /\ Treasurer \notin Members /\ Contract # Treasurer

ASSUME AmountsAssumption ==
  /\ {InitialTokens, OptionTokenCost, SubscriptionTokenCost, SubscriptionDuration} \subseteq Nat
  /\ VoteAmounts \subseteq Nat /\ TransferAmounts \subseteq Nat
  /\ WithdrawAmounts \subseteq Nat
  /\ MaxOptions \in Nat /\ MaxTime \in Nat

ASSUME RecordsAssumption ==
  /\ Quotes \subseteq [proposal: Proposals, member: Members, hash: STRING,
                       amount: Nat, expiry: Nat]
  /\ Schedules \subseteq [proposal: Nat, vote: Nat, order: Nat]

ASSUME AuthoritiesAssumption == Signers # {} /\ PlatformWallets # {}

VARIABLES
  now,                   \* block.timestamp
  token,                 \* MembershipToken.balanceOf
  native,                \* address(this).balance
  treasuryToken, treasuryNative,
  signer, platformWallet,
  schedule,              \* the three deadlines of each proposal
  exists, voteFinalized, settled, winner,
  options,               \* proposalOptions
  optionPool, votePool, orderPool,
  orders,
  usedDigests,
  claimable, expiry,
  writtenOff             \* history: what re-ordering took out of orderPool

tokenVars    == <<token, treasuryToken, claimable>>
ballotVars   == <<options, optionPool, votePool>>
outcomeVars  == <<voteFinalized, settled, winner>>
orderVars    == <<orders, orderPool, usedDigests, writtenOff>>
nativeVars   == <<native, treasuryNative>>
createVars   == <<schedule, exists>>
adminVars    == <<signer, platformWallet>>
vars == <<now, tokenVars, ballotVars, outcomeVars, orderVars, nativeVars,
          createVars, adminVars, expiry>>

Holders   == Members \cup {Contract, Treasurer}
NoOrder   == [placed |-> FALSE, cancelled |-> FALSE, amount |-> 0]
OrderType == [placed: BOOLEAN, cancelled: BOOLEAN, amount: Nat]
Option    == [proposer: Members, votes: Nat, stake: Nat]
Schedule  == [proposal: Nat, vote: Nat, order: Nat]

TypeOK ==
  /\ now \in Nat
  /\ token \in [Holders -> Nat] /\ native \in Nat
  /\ treasuryToken \in Nat /\ treasuryNative \in Nat
  /\ signer \in Signers /\ platformWallet \in PlatformWallets
  /\ schedule \in [Proposals -> Schedule]
  /\ exists \in [Proposals -> BOOLEAN]
  /\ voteFinalized \in [Proposals -> BOOLEAN]
  /\ settled \in [Proposals -> BOOLEAN]
  /\ winner \in [Proposals -> Nat]
  /\ options \in [Proposals -> Seq(Option)]
  /\ optionPool \in [Proposals -> Nat] /\ votePool \in [Proposals -> Nat]
  /\ orderPool \in [Proposals -> Nat] /\ writtenOff \in [Proposals -> Nat]
  /\ orders \in [Proposals -> [Members -> OrderType]]
  /\ usedDigests \subseteq Quotes
  /\ claimable \in [Members -> Nat] /\ expiry \in [Members -> Nat]

Init ==
  /\ now = 0
  /\ token = [h \in Holders |-> IF h \in Members THEN InitialTokens ELSE 0]
  /\ native = 0 /\ treasuryToken = 0 /\ treasuryNative = 0
  /\ signer \in Signers /\ platformWallet \in PlatformWallets
  /\ schedule = [p \in Proposals |-> [proposal |-> 0, vote |-> 0, order |-> 0]]
  /\ exists = [p \in Proposals |-> FALSE]
  /\ voteFinalized = [p \in Proposals |-> FALSE]
  /\ settled = [p \in Proposals |-> FALSE]
  /\ winner = [p \in Proposals |-> 0]
  /\ options = [p \in Proposals |-> <<>>]
  /\ optionPool = [p \in Proposals |-> 0] /\ votePool = [p \in Proposals |-> 0]
  /\ orderPool = [p \in Proposals |-> 0] /\ writtenOff = [p \in Proposals |-> 0]
  /\ orders = [p \in Proposals |-> [m \in Members |-> NoOrder]]
  /\ usedDigests = {}
  /\ claimable = [m \in Members |-> 0] /\ expiry = [m \in Members |-> 0]

-----------------------------------------------------------------------------
(* MembershipToken: a transfer needs the balance and conserves the supply.  *)
CanPay(from, amount) == token[from] >= amount

Moved(from, to, amount) ==
  [token EXCEPT ![from] = @ - amount, ![to] = @ + amount]

(* Any holder may send tokens to any address, the contract included.        *)
Transfer(m, to, amount) ==
  /\ m # to /\ CanPay(m, amount)
  /\ token' = Moved(m, to, amount)
  /\ UNCHANGED <<now, treasuryToken, claimable, ballotVars, outcomeVars,
                 orderVars, nativeVars, createVars, adminVars, expiry>>

-----------------------------------------------------------------------------
(* The windows a proposal's deadlines open and close.                       *)
ProposalOpen(p)  == now <= schedule[p].proposal
VoteNeverCloses(p) == now > schedule[p].proposal
VoteOpen(p)      == now > schedule[p].proposal /\ now <= schedule[p].vote
VoteOver(p)      == now > schedule[p].vote
OrderWindow(p)   == now > schedule[p].vote /\ now <= schedule[p].order
CancelAnyTime(p) == TRUE
CancelWindow(p)  == now <= schedule[p].order
OrderOverEarly(p) == now >= schedule[p].order
OrderOver(p)     == now > schedule[p].order

CreateProposal(p, s) ==
  /\ ~exists[p]
  /\ s.proposal > now /\ s.vote > s.proposal /\ s.order > s.vote
  /\ schedule' = [schedule EXCEPT ![p] = s]
  /\ exists' = [exists EXCEPT ![p] = TRUE]
  /\ UNCHANGED <<now, tokenVars, ballotVars, outcomeVars, orderVars,
                 nativeVars, adminVars, expiry>>

AddOption(p, m) ==
  /\ exists[p] /\ ProposalOpen(p) /\ ~voteFinalized[p]
  /\ Len(options[p]) < MaxOptions
  /\ CanPay(m, OptionTokenCost)
  /\ token' = Moved(m, Contract, OptionTokenCost)
  /\ options' = [options EXCEPT ![p] = Append(@,
                   [proposer |-> m, votes |-> 0, stake |-> OptionTokenCost])]
  /\ optionPool' = [optionPool EXCEPT ![p] = @ + OptionTokenCost]
  /\ UNCHANGED <<now, treasuryToken, claimable, votePool, outcomeVars,
                 orderVars, nativeVars, createVars, adminVars, expiry>>

(* A member may vote any number of times, for several options.              *)
Vote(p, m, i, amount) ==
  /\ exists[p] /\ VoteOpen(p)
  /\ amount > 0 /\ i \in DOMAIN options[p] /\ CanPay(m, amount)
  /\ token' = Moved(m, Contract, amount)
  /\ options' = [options EXCEPT ![p][i].votes = @ + amount]
  /\ votePool' = [votePool EXCEPT ![p] = @ + amount]
  /\ UNCHANGED <<now, treasuryToken, claimable, optionPool, outcomeVars,
                 orderVars, nativeVars, createVars, adminVars, expiry>>

-----------------------------------------------------------------------------
(* _winnerIndex scans with a strict >, so the earliest of the best wins.    *)
Beats(opts, i, j) ==
  \/ opts[i].votes > opts[j].votes
  \/ opts[i].votes = opts[j].votes /\ i <= j

WinnerIndex(p) ==
  CHOOSE i \in DOMAIN options[p] : \A j \in DOMAIN options[p] : Beats(options[p], i, j)

CanFinalize(p) == VoteOver(p) /\ ~voteFinalized[p] /\ options[p] # <<>>

FinalizeVote(p) ==
  /\ exists[p] /\ CanFinalize(p)
  /\ voteFinalized' = [voteFinalized EXCEPT ![p] = TRUE]
  /\ winner' = [winner EXCEPT ![p] = WinnerIndex(p)]
  /\ UNCHANGED <<now, tokenVars, ballotVars, settled, orderVars, nativeVars,
                 createVars, adminVars, expiry>>

-----------------------------------------------------------------------------
Order(q) == [placed |-> TRUE, cancelled |-> FALSE, amount |-> q.amount]

(* What placing an order first takes out of the pool: the amount of the     *)
(* member's cancelled order, although cancelOrder already took it out.      *)
Rewritten(o) == IF o.cancelled THEN o.amount ELSE 0

SignatureValid(q, s) == s = signer /\ now <= q.expiry /\ q \notin usedDigests

MayOrderTwice(o) == TRUE
MayOrder(o) == ~o.placed \/ o.cancelled

PlaceOrder(q, s) ==
  LET p   == q.proposal
      old == orders[p][q.member]
  IN /\ exists[p] /\ voteFinalized[p] /\ ~settled[p] /\ OrderWindow(p)
     /\ SignatureValid(q, s)
     /\ MayOrder(old)
     /\ Rewritten(old) <= orderPool[p]
     /\ usedDigests' = usedDigests \cup {q}
     /\ orders' = [orders EXCEPT ![p][q.member] = Order(q)]
     /\ orderPool' = [orderPool EXCEPT ![p] = (@ - Rewritten(old)) + q.amount]
     /\ writtenOff' = [writtenOff EXCEPT ![p] = @ + Rewritten(old)]
     /\ native' = native + q.amount
     /\ UNCHANGED <<now, tokenVars, ballotVars, outcomeVars, treasuryNative,
                    createVars, adminVars, expiry>>

Active(o) == o.placed /\ ~o.cancelled

(* The pool and the contract's balance must both cover the refund, or the   *)
(* transaction reverts.                                                     *)
CancelOrder(p, m) ==
  LET amount == orders[p][m].amount
  IN /\ exists[p] /\ CancelWindow(p)
     /\ Active(orders[p][m])
     /\ amount <= orderPool[p] /\ amount <= native
     /\ orders' = [orders EXCEPT ![p][m].cancelled = TRUE]
     /\ orderPool' = [orderPool EXCEPT ![p] = @ - amount]
     /\ native' = native - amount
     /\ UNCHANGED <<now, tokenVars, ballotVars, outcomeVars, usedDigests,
                    writtenOff, treasuryNative, createVars, adminVars, expiry>>

-----------------------------------------------------------------------------
(* Settlement: what each option gives back to its proposer, by class.       *)
Reward(opts, w) ==
  [i \in DOMAIN opts |->
     Bps(opts[i].stake, IF i = w THEN WinnerRewardBps ELSE LoserRefundBps)]

RewardOf(opts, w, m) ==
  SumFunctionOnSet(Reward(opts, w), {i \in DOMAIN opts : opts[i].proposer = m})

Distributed(opts, w) == SumFunctionOnSet(Reward(opts, w), DOMAIN opts)

TreasuryGainAll(p, w) == votePool[p] + optionPool[p]
TreasuryGain(p, w) ==
  LET rest == optionPool[p] - Distributed(options[p], w)
  IN votePool[p] + (IF rest > 0 THEN rest ELSE 0)

OrderFee(p) == Bps(orderPool[p], OrderFeeBps)

(* Settling finalises the vote first when nobody has; with no option that   *)
(* reverts.                                                                 *)
SettleProposal(p) ==
  LET w      == IF voteFinalized[p] THEN winner[p] ELSE WinnerIndex(p)
      payout == orderPool[p] - OrderFee(p)
  IN /\ exists[p] /\ OrderOver(p) /\ ~settled[p]
     /\ voteFinalized[p] \/ CanFinalize(p)
     /\ payout <= native
     /\ voteFinalized' = [voteFinalized EXCEPT ![p] = TRUE]
     /\ winner' = [winner EXCEPT ![p] = w]
     /\ settled' = [settled EXCEPT ![p] = TRUE]
     /\ treasuryNative' = treasuryNative + OrderFee(p)
     /\ native' = native - payout
     /\ claimable' = [m \in Members |-> claimable[m] + RewardOf(options[p], w, m)]
     /\ treasuryToken' = treasuryToken + TreasuryGain(p, w)
     /\ UNCHANGED <<now, token, ballotVars, orderVars, createVars, adminVars, expiry>>

ClaimReward(m) ==
  /\ claimable[m] > 0 /\ CanPay(Contract, claimable[m])
  /\ claimable' = [claimable EXCEPT ![m] = 0]
  /\ token' = Moved(Contract, m, claimable[m])
  /\ UNCHANGED <<now, treasuryToken, ballotVars, outcomeVars, orderVars,
                 nativeVars, createVars, adminVars, expiry>>

-----------------------------------------------------------------------------
(* A subscription is added to what is left of the running one.              *)
SubscriptionBase(m) == IF expiry[m] < now THEN now ELSE expiry[m]

SubscribeMonthly(m) ==
  /\ CanPay(m, SubscriptionTokenCost)
  /\ token' = Moved(m, Contract, SubscriptionTokenCost)
  /\ treasuryToken' = treasuryToken + SubscriptionTokenCost
  /\ expiry' = [expiry EXCEPT ![m] = SubscriptionBase(m) + SubscriptionDuration]
  /\ UNCHANGED <<now, claimable, ballotVars, outcomeVars, orderVars,
                 nativeVars, createVars, adminVars>>

(* The owner's operations.                                                  *)
WithdrawTreasuryTokens(amount) ==
  /\ amount <= treasuryToken /\ CanPay(Contract, amount)
  /\ treasuryToken' = treasuryToken - amount
  /\ token' = Moved(Contract, Treasurer, amount)
  /\ UNCHANGED <<now, claimable, ballotVars, outcomeVars, orderVars,
                 nativeVars, createVars, adminVars, expiry>>

WithdrawTreasuryNative(amount) ==
  /\ amount <= treasuryNative /\ amount <= native
  /\ treasuryNative' = treasuryNative - amount
  /\ native' = native - amount
  /\ UNCHANGED <<now, tokenVars, ballotVars, outcomeVars, orderVars,
                 createVars, adminVars, expiry>>

SetSigner(s) ==
  /\ signer' = s
  /\ UNCHANGED <<now, tokenVars, ballotVars, outcomeVars, orderVars,
                 nativeVars, createVars, platformWallet, expiry>>

SetPlatformMainWallet(w) ==
  /\ platformWallet' = w
  /\ UNCHANGED <<now, tokenVars, ballotVars, outcomeVars, orderVars,
                 nativeVars, createVars, signer, expiry>>

Tick ==
  /\ now < MaxTime
  /\ now' = now + 1
  /\ UNCHANGED <<tokenVars, ballotVars, outcomeVars, orderVars, nativeVars,
                 createVars, adminVars, expiry>>

-----------------------------------------------------------------------------
MemberStep(m) ==
  \/ \E to \in Holders, a \in TransferAmounts : Transfer(m, to, a)
  \/ SubscribeMonthly(m)
  \/ ClaimReward(m)
  \/ \E p \in Proposals :
       \/ AddOption(p, m)
       \/ CancelOrder(p, m)
       \/ \E a \in VoteAmounts, i \in DOMAIN options[p] : Vote(p, m, i, a)

AnyoneStep(p) ==
  \/ \E s \in Schedules : CreateProposal(p, s)
  \/ FinalizeVote(p)
  \/ SettleProposal(p)

OwnerStep ==
  \/ \E a \in WithdrawAmounts : WithdrawTreasuryTokens(a)
  \/ \E a \in WithdrawAmounts : WithdrawTreasuryNative(a)
  \/ \E s \in Signers : SetSigner(s)
  \/ \E w \in PlatformWallets : SetPlatformMainWallet(w)

Next ==
  \/ \E m \in Members : MemberStep(m)
  \/ \E p \in Proposals : AnyoneStep(p)
  \/ \E q \in Quotes, s \in Signers : PlaceOrder(q, s)
  \/ OwnerStep
  \/ Tick

Spec == Init /\ [][Next]_vars

-----------------------------------------------------------------------------
(* What the contract owes.                                                  *)
StakeOwed == [p \in Proposals |-> IF settled[p] THEN 0 ELSE optionPool[p] + votePool[p]]

ActiveAmounts(p) ==
  [m \in Members |-> IF Active(orders[p][m]) THEN orders[p][m].amount ELSE 0]
ActiveTotal(p) == SumFunctionOnSet(ActiveAmounts(p), Members)

RefundOwed == [p \in Proposals |-> IF settled[p] THEN 0 ELSE ActiveTotal(p)]

(* Token solvency: the contract always holds the membership tokens it has   *)
(* booked as treasury, promised as rewards, or still keeps as stakes and    *)
(* votes of unsettled proposals; claimReward and withdrawTreasuryTokens     *)
(* (VotingSystem-v3.sol:377-390) can then never be refused for lack of      *)
(* tokens, whatever the rounding of the basis points.                       *)
TokenSolvency ==
  token[Contract] >= treasuryToken + SumFunction(claimable) + SumFunction(StakeOwed)

(* Native solvency: the contract's ether covers the booked order fees and   *)
(* the refund of every active order of every unsettled proposal, so         *)
(* settleProposal, cancelOrder and withdrawTreasuryNative never take one    *)
(* proposal's ether for another (VotingSystem-v3.sol:319-398).              *)
NativeSolvency == native >= treasuryNative + SumFunction(RefundOwed)

(* The order pool is the sum of the active orders, less what re-ordering    *)
(* after a cancellation subtracted a second time (placeOrder,               *)
(* VotingSystem-v3.sol:303-316).                                            *)
PoolAccounting ==
  \A p \in Proposals : orderPool[p] + writtenOff[p] = ActiveTotal(p)

(* A finalised winner has the most votes and is the earliest such option,   *)
(* and stays so: no vote or option is accepted once it could change the     *)
(* result, although vote() never looks at voteFinalized.                    *)
WinnerIsFirstBest ==
  \A p \in Proposals : voteFinalized[p] =>
    /\ winner[p] \in DOMAIN options[p]
    /\ \A i \in DOMAIN options[p] : Beats(options[p], winner[p], i)

(* An order becomes active only by using up a digest the signer signed for  *)
(* that member, proposal and amount: after a cancellation the old signature *)
(* does not bring the order back (placeOrder, VotingSystem-v3.sol:284-301). *)
SignedOnce ==
  [][\A p \in Proposals, m \in Members :
       Active(orders'[p][m]) /\ orders'[p][m] # orders[p][m] =>
         \E q \in usedDigests' \ usedDigests :
           q.proposal = p /\ q.member = m /\ q.amount = orders'[p][m].amount]_vars

(* A settled proposal is frozen: its orders, pools, options and winner      *)
(* never change again, although cancelOrder and vote do not test settled.   *)
SettledIsFinal ==
  [][\A p \in Proposals : settled[p] =>
       /\ settled'[p] /\ winner'[p] = winner[p]
       /\ options'[p] = options[p] /\ orders'[p] = orders[p]
       /\ orderPool'[p] = orderPool[p]]_vars

(* Paying again never costs a subscriber time: each payment moves the       *)
(* expiry a full period beyond both the old expiry and the present.         *)
SubscriptionExtends ==
  [][\A m \in Members : expiry'[m] # expiry[m] =>
       /\ expiry'[m] >= expiry[m] + SubscriptionDuration
       /\ expiry'[m] >= now + SubscriptionDuration]_vars

(* The only reasons cancelOrder gives for refusing are a closed window and  *)
(* a missing order: an active order can be withdrawn until the deadline.    *)
ActiveOrderRefundable ==
  \A p \in Proposals, m \in Members :
    Active(orders[p][m]) /\ CancelWindow(p) => orders[p][m].amount <= orderPool[p]
=============================================================================

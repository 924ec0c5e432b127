---------------------------- MODULE OrderEscrow ----------------------------
(***************************************************************************)
(* contract/MealVoteOrderEscrow.sol: escrows of the rounds' orders.  The    *)
(* owner opens one for a merchant and a total, members pay into it while it *)
(* is open, the merchant accepts and completes, one member who has paid     *)
(* confirms, and the owner releases the total.  All escrows share the       *)
(* contract's ether, and a payout looks at the total only, never at what    *)
(* was paid in.                                                             *)
(*                                                                         *)
(* A transaction is atomic, and one that reverts changes nothing.  Nothing  *)
(* in the contract refunds, disputes or pauses an escrow, and its timeouts  *)
(* are stored and never read; they are left out.                            *)
(***************************************************************************)
EXTENDS Naturals, Sequences, FiniteSets, Functions

CONSTANTS Members,
          Merchants, Platform,   \* the wallets that payouts go to
          FeeRates,              \* basis points the owner may set
          Totals, Payments,      \* amounts tried as inputs
          AmountRange,           \* 2^128: a total is stored in 128 bits
          MaxOrders, MaxPaid     \* bounds: escrows, and what a member pays into one

ConstantsOK ==
  /\ IsFiniteSet(Members) /\ FeeRates \subseteq 0..10000 /\ AmountRange \in Nat \ {0}
  /\ Totals \subseteq Nat /\ Payments \subseteq Nat

VARIABLES feeBps, escrows, memberPaidWei, ether, received

vars == <<feeBps, escrows, memberPaidWei, ether, received>>

Wallets == Merchants \cup {Platform}
Orders  == DOMAIN escrows

Init ==
  /\ feeBps \in FeeRates
  /\ escrows = <<>> /\ memberPaidWei = <<>> /\ ether = 0
  /\ received = [w \in Wallets |-> 0]

SetEscrowParams(f) ==
  /\ feeBps' = f
  /\ UNCHANGED <<escrows, memberPaidWei, ether, received>>

OpenEscrow(w, total) ==
  /\ Len(escrows) < MaxOrders
  /\ escrows' = Append(escrows, [merchantWallet |-> w, total |-> total % AmountRange,
                                 fee |-> feeBps, status |-> "Open"])
  /\ memberPaidWei' = Append(memberPaidWei, [m \in Members |-> 0])
  /\ UNCHANGED <<feeBps, ether, received>>

PayForOrder(m, e, a) ==
  /\ escrows[e].status = "Open" /\ a > 0
  /\ memberPaidWei[e][m] + a <= MaxPaid
  /\ memberPaidWei' = [memberPaidWei EXCEPT ![e][m] = @ + a]
  /\ ether' = ether + a
  /\ UNCHANGED <<feeBps, escrows, received>>

MovesOn(e, from, to) ==
  /\ escrows[e].status = from
  /\ escrows' = [escrows EXCEPT ![e].status = to]

MerchantAccept(e) ==
  MovesOn(e, "Open", "MerchantAccepted")
  /\ UNCHANGED <<feeBps, memberPaidWei, ether, received>>

MerchantComplete(e) ==
  MovesOn(e, "MerchantAccepted", "MerchantCompleted")
  /\ UNCHANGED <<feeBps, memberPaidWei, ether, received>>

HasPaid(m, e) == memberPaidWei[e][m] > 0

MemberConfirmReceived(m, e) ==
  /\ HasPaid(m, e)
  /\ MovesOn(e, "MerchantCompleted", "MemberConfirmed")
  /\ UNCHANGED <<feeBps, memberPaidWei, ether, received>>

\* An escrow that was paid out is released once more.
ReleasedAgain(e) == escrows[e].status \in {"MemberConfirmed", "PaidOut"}
Releasable(e) == escrows[e].status = "MemberConfirmed"

PlatformShare(e) == (escrows[e].total * escrows[e].fee) \div 10000

\* With too little ether in the contract a transfer fails, and the payout with it.
ReleasePayout(e) ==
  LET merchant == escrows[e].merchantWallet
      share    == PlatformShare(e)
      paid     == [received EXCEPT ![merchant] = @ + (escrows[e].total - share)]
  IN
  /\ Releasable(e) /\ escrows[e].total <= ether
  /\ escrows' = [escrows EXCEPT ![e].status = "PaidOut"]
  /\ received' = [paid EXCEPT ![Platform] = @ + share]
  /\ ether' = ether - escrows[e].total
  /\ UNCHANGED <<feeBps, memberPaidWei>>

Next ==
  \/ \E f \in FeeRates : SetEscrowParams(f)
  \/ \E w \in Merchants, total \in Totals : OpenEscrow(w, total)
  \/ \E e \in Orders :
       \/ \E m \in Members : \/ \E a \in Payments : PayForOrder(m, e, a)
                             \/ MemberConfirmReceived(m, e)
       \/ MerchantAccept(e) \/ MerchantComplete(e) \/ ReleasePayout(e)

Spec == Init /\ [][Next]_vars
-----------------------------------------------------------------------------
PaidIn(e) == SumFunction(memberPaidWei[e])

\* What an escrow's payout took beyond what was paid into it, and what an escrow
\* that is not paid out should hold.
Overdrawn(e) ==
  IF escrows[e].status = "PaidOut" /\ escrows[e].total > PaidIn(e)
  THEN escrows[e].total - PaidIn(e) ELSE 0
Kept(e) == IF escrows[e].status = "PaidOut" THEN 0 ELSE PaidIn(e)

\* What members have paid into the escrows that are not paid out is in the
\* contract, unless the owner has opened an escrow for more than was paid into it
\* and paid that out of the others' ether; and nobody's payout went ahead without a
\* member who had paid (releasePayout, memberConfirmReceived).
EscrowsCovered ==
  /\ ether + SumFunction([e \in Orders |-> Overdrawn(e)]) >= SumFunction([e \in Orders |-> Kept(e)])
  /\ \A e \in Orders : escrows[e].status \in {"MemberConfirmed", "PaidOut"} => PaidIn(e) > 0
=============================================================================

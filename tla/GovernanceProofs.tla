-------------------------- MODULE GovernanceProofs --------------------------
(***************************************************************************)
(* Proofs about Governance and OrderEscrow for every finite set of members *)
(* and merchants, every width of a packed count and every parameter.       *)
(*                                                                         *)
(* Governance: ElectionInv ties each round's status, deadlines, candidates *)
(* and votes together; from it follow the refinement of Election, the      *)
(* tallies and the fees.  OrderEscrow: EscrowInv says what each escrow     *)
(* holds.  RecordsAddUp joins the two contracts.                           *)
(***************************************************************************)
EXTENDS Governance, SequenceTheorems, SumLemmas

(* Where a round is in its life, tied to the clock and to the counter.      *)
Lives ==
  \A r \in Rounds : LET round == rounds[r] IN
    /\ r <= roundCount <=> round.creator # NoOne
    /\ round.creator = NoOne <=> round.status = "Created"
    /\ round.creator # NoOne => round.proposal < round.vote
    /\ round.settled <=> round.status \in {"VotingClosedFailed", "VotingClosedSuccess"}
    /\ round.settled => now > round.vote
    /\ round.winner # 0 => round.status = "VotingClosedSuccess"

(* Candidates are distinct and listed in the order they were proposed.      *)
Lists ==
  \A r \in Rounds :
    /\ rounds[r].creator = NoOne => candidates[r] = <<>>
    /\ \A i \in DOMAIN candidates[r] : candidates[r][i].at <= now
    /\ \A i, j \in DOMAIN candidates[r] :
         /\ candidates[r][i].merchant = candidates[r][j].merchant => i = j
         /\ i <= j => candidates[r][i].at <= candidates[r][j].at

(* A vote that was cast was cast after the last proposal and in an open     *)
(* round, and its record names a candidate and at least one vote.           *)
Cast(r, m) == votes[r][m] # 0
CastWell ==
  \A r \in Rounds : \A m \in Members : Cast(r, m) =>
    /\ now > rounds[r].proposal
    /\ rounds[r].status \in {"ProposalOpen", "VotingClosedFailed", "VotingClosedSuccess"}
    /\ DecodeVote(votes[r][m]).candidate \in DOMAIN candidates[r]
    /\ DecodeVote(votes[r][m]).count > 0

ElectionInv == Lives /\ Lists /\ CastWell /\ TalliesMatchRecords

-----------------------------------------------------------------------------
(* The packed record: two fields below VoteRange and a flag.                *)
LEMMA Quotient ==
  ASSUME NEW V \in Nat \ {0}, NEW q \in Nat, NEW x \in 0..(V - 1)
  PROVE  (x + q * V) % V = x /\ (x + q * V) \div V = q
<1>. DEFINE a == x + q * V
            d == a \div V
            e == a % V
<1>1. q * V \in Nat
  OBVIOUS
<1>2. a \in Nat
  BY <1>1
<1>3. d \in Int /\ e \in 0..(V - 1) /\ a = V * d + e
  BY <1>2
<1>. HIDE DEF d, e
<1>4. V * (d - q) = x - e /\ d - q \in Int
  BY <1>3
<1>5. ASSUME NEW z \in Int, z > 0  PROVE V * z >= V /\ V * (-z) <= -V
  BY <1>5
<1>6. CASE d - q > 0
  BY <1>3, <1>4, <1>5, <1>6
<1>7. CASE d - q < 0
  <2>1. q - d \in Int /\ q - d > 0 /\ -(q - d) = d - q
    BY <1>3, <1>7
  <2>2. V * (d - q) <= -V
    BY <1>5, <2>1
  <2>. QED  BY <1>3, <1>4, <2>2
<1>8. CASE d - q = 0
  BY <1>3, <1>4, <1>8 DEF d, e
<1>. QED  BY <1>3, <1>6, <1>7, <1>8

LEMMA DecodeTypes ==
  ASSUME ConstantsOK, NEW rec \in Nat
  PROVE  /\ DecodeVote(rec).candidate \in 0..(VoteRange - 1)
         /\ DecodeVote(rec).count \in 0..(VoteRange - 1)
<1>1. VoteRange \in Nat \ {0}
  BY DEF ConstantsOK
<1>2. rec % VoteRange \in 0..(VoteRange - 1) /\ rec \div VoteRange \in Int
  BY <1>1
<1>3. (rec \div VoteRange) % VoteRange \in 0..(VoteRange - 1)
  BY <1>1, <1>2
<1>. QED  BY <1>2, <1>3 DEF DecodeVote

LEMMA DecodeZero ==
  ASSUME ConstantsOK
  PROVE  DecodeVote(0) = [candidate |-> 0, count |-> 0]
<1>1. VoteRange \in Nat \ {0}
  BY DEF ConstantsOK
<1>2. 0 % VoteRange = 0 /\ 0 \div VoteRange = 0
  BY <1>1
<1>. QED  BY <1>2 DEF DecodeVote

LEMMA DecodeEncode ==
  ASSUME ConstantsOK, NEW c \in 1..(VoteRange - 1), NEW n \in 0..(VoteRange - 1),
         NEW coupon \in BOOLEAN
  PROVE  /\ EncodeVote(c, n, coupon) \in Nat /\ EncodeVote(c, n, coupon) # 0
         /\ DecodeVote(EncodeVote(c, n, coupon)) = [candidate |-> c, count |-> n]
<1>. DEFINE V == VoteRange
            flag == IF coupon THEN 1 ELSE 0
            q == n + flag * V
            rec == EncodeVote(c, n, coupon)
<1>1. V \in Nat \ {0}
  BY DEF ConstantsOK
<1>. HIDE DEF V
<1>2. c \in 0..(V - 1) /\ n \in 0..(V - 1) /\ c \in Nat \ {0} /\ n \in Nat
  BY <1>1 DEF V
<1>3. flag \in Nat /\ flag * V \in Nat /\ q \in Nat /\ q * V \in Nat
  BY <1>1, <1>2
<1>4. rec = c + q * V
  <2>1. CASE coupon
    BY <2>1, <1>1, <1>2 DEF EncodeVote, V
  <2>2. CASE ~coupon
    BY <2>2, <1>1, <1>2 DEF EncodeVote, V
  <2>. QED  BY <2>1, <2>2
<1>5. rec % V = c /\ rec \div V = q
  <2>. HIDE DEF q, rec
  <2>. QED  BY <1>1, <1>2, <1>3, <1>4, Quotient
<1>6. q % V = n
  <2>. HIDE DEF flag
  <2>. QED  BY <1>1, <1>2, <1>3, Quotient
<1>7. rec \in Nat /\ rec # 0
  <2>. HIDE DEF q, rec
  <2>. QED  BY <1>2, <1>3, <1>4
<1>8. DecodeVote(rec) = [candidate |-> rec % V, count |-> (rec \div V) % V]
  BY DEF DecodeVote, V
<1>. QED  BY <1>5, <1>6, <1>7, <1>8

-----------------------------------------------------------------------------
(* Types.                                                                   *)
LEMMA ParamTypes ==
  ASSUME ConstantsOK, NEW p \in ParamSets
  PROVE  /\ p.createFee \in Nat /\ p.proposalFee \in Nat /\ p.voteFee \in Nat
         /\ p.subscriptionFee \in Nat /\ p.proposalTime \in Nat \ {0}
         /\ p.voteTime \in Nat \ {0} /\ p.orderingTime \in Nat \ {0}
         /\ p.subscriptionTime \in Nat \ {0} /\ p.daily \in [Coupons -> Nat]
<1>. QED  BY DEF ConstantsOK

LEMMA ConstantTypes ==
  ASSUME ConstantsOK
  PROVE  /\ VoteRange \in Nat \ {0} /\ DayKeyRange \in Nat \ {0} /\ MaxRounds \in Nat
         /\ MaxTime \in Nat /\ NoOne \notin Members /\ NoRound \in Round
         /\ \A d \in DayKeys : d % DayKeyRange \in 0..(DayKeyRange - 1)
<1>1. /\ VoteRange \in Nat \ {0} /\ DayKeyRange \in Nat \ {0} /\ MaxRounds \in Nat
      /\ MaxTime \in Nat /\ NoOne \notin Members
  BY DEF ConstantsOK
<1>2. \A d \in DayKeys : d % DayKeyRange \in 0..(DayKeyRange - 1)
  BY <1>1 DEF ConstantsOK
<1>. QED  BY <1>1, <1>2 DEF NoRound, Round, Statuses

(* What one call may take is a natural number of each coupon.               *)
LEMMA TakenTypes ==
  ASSUME NEW a \in Nat, NEW b \in Nat, NEW c \in Nat
  PROVE  /\ \A k \in Coupons : Taken(a, b, c)[k] \in Nat
         /\ Taken(a, b, c)["create"] = a /\ Taken(a, b, c)["proposal"] = b
         /\ Taken(a, b, c)["vote"] = c
<1>. QED  BY DEF Taken, Coupons

LEMMA ConsumeTypes ==
  ASSUME TypeOK, NEW m \in Members, NEW a \in Nat, NEW b \in Nat, NEW c \in Nat,
         ConsumeCoupons(m, Taken(a, b, c))
  PROVE  /\ coupons' \in [Members -> CouponState]
         /\ claims' \in [Members -> Nat] /\ granted' \in [Members -> [Coupons -> Nat]]
         /\ used' \in [Members -> [Coupons -> Nat]]
<1>. DEFINE taken == Taken(a, b, c)
            left  == [k \in Coupons |-> coupons[m].left[k] - taken[k]]
<1>1. \A k \in Coupons : taken[k] \in Nat
  BY TakenTypes
<1>. HIDE DEF taken
<1>2. coupons \in [Members -> CouponState] /\ used \in [Members -> [Coupons -> Nat]]
  BY DEF TypeOK
<1>3. \A k \in Coupons : coupons[m].left[k] \in Nat /\ coupons[m].left[k] >= taken[k]
  BY <1>2 DEF ConsumeCoupons, CouponState, taken
<1>4. left \in [Coupons -> Nat]
  BY <1>1, <1>3
<1>5. coupons' = [coupons EXCEPT ![m].left = left]
  BY DEF ConsumeCoupons, taken
<1>6. coupons' \in [Members -> CouponState]
  <2>. HIDE DEF left
  <2>1. [coupons[m] EXCEPT !.left = left] \in CouponState
    BY <1>2, <1>4 DEF CouponState
  <2>. QED  BY <1>2, <1>5, <2>1
<1>7. used' \in [Members -> [Coupons -> Nat]]
  <2>1. [k \in Coupons |-> used[m][k] + taken[k]] \in [Coupons -> Nat]
    BY <1>1, <1>2
  <2>2. used' = [used EXCEPT ![m] = [k \in Coupons |-> used[m][k] + taken[k]]]
    BY <1>2 DEF ConsumeCoupons, taken
  <2>. QED  BY <1>2, <2>1, <2>2
<1>. QED  BY <1>6, <1>7 DEF ConsumeCoupons, TypeOK

LEMMA KeysTypes ==
  ASSUME NEW keys \in InitialKeys
  PROVE  keys \in Seq(Merchants) /\ DOMAIN keys = 1..Len(keys) /\ Len(keys) \in Nat
<1>1. \A a, b \in Merchants : <<a>> \in Seq(Merchants) /\ <<a, b>> \in Seq(Merchants)
  OBVIOUS
<1>2. \/ \E a \in Merchants : keys = <<a>>
      \/ \E a, b \in Merchants : keys = <<a, b>>
  BY DEF InitialKeys
<1>3. keys \in Seq(Merchants)
  BY <1>1, <1>2
<1>. QED  BY <1>3

LEMMA FreeKeys ==
  ASSUME NEW keys \in InitialKeys, NEW free \in SUBSET DOMAIN keys
  PROVE  /\ Cardinality(free) \in Nat /\ Cardinality(DOMAIN keys \ free) \in Nat
         /\ Cardinality(free) + Cardinality(DOMAIN keys \ free) = Len(keys)
<1>1. DOMAIN keys = 1..Len(keys) /\ Len(keys) \in Nat
  BY KeysTypes
<1>2. IsFiniteSet(DOMAIN keys) /\ Cardinality(DOMAIN keys) = Len(keys)
  BY <1>1, FS_Interval
<1>3. IsFiniteSet(free) /\ IsFiniteSet(DOMAIN keys \ free) /\ DOMAIN keys \cap free = free
  BY <1>2, FS_Subset
<1>4. Cardinality(free) \in Nat /\ Cardinality(DOMAIN keys \ free) \in Nat
  BY <1>3, FS_CardinalityType
<1>5. Cardinality(DOMAIN keys \ free) = Cardinality(DOMAIN keys) - Cardinality(DOMAIN keys \cap free)
  BY <1>2, FS_Difference
<1>6. Cardinality(DOMAIN keys \ free) = Len(keys) - Cardinality(free)
  BY ONLY <1>2, <1>3, <1>5
<1>. QED  BY ONLY <1>1, <1>4, <1>6

LEMMA InitTypes == ASSUME ConstantsOK, Init PROVE TypeOK
<1>1. /\ NoRound \in Round /\ NoCoupons \in [Coupons -> Nat] /\ <<>> \in Seq(CandidateRow)
      /\ [day |-> 0, claimed |-> FALSE, left |-> NoCoupons] \in CouponState
  BY ConstantTypes DEF NoCoupons, CouponState
<1>2. 0 \in 0..MaxTime /\ 0 \in 0..MaxRounds
  BY ConstantTypes
<1>. QED  BY <1>1, <1>2 DEF Init, TypeOK

LEMMA CreateRoundTypes ==
  ASSUME ConstantsOK, TypeOK, NEW m \in Members, NEW keys \in InitialKeys,
         NEW coupon \in BOOLEAN, NEW free \in SUBSET DOMAIN keys,
         CreateRound(m, keys, coupon, free)
  PROVE  TypeOK'
<1>. DEFINE r     == roundCount + 1
            close == now + params.proposalTime
            round == [creator |-> m, status |-> "ProposalOpen", proposal |-> close,
                      vote |-> close + params.voteTime,
                      ordering |-> close + params.voteTime + params.orderingTime,
                      winner |-> 0, settled |-> FALSE]
<1>1. /\ now \in 0..MaxTime /\ params \in ParamSets /\ roundCount \in Nat /\ balance \in Nat
      /\ MaxTime \in Nat
  BY ConstantTypes DEF TypeOK
<1>2. params.proposalTime \in Nat /\ params.voteTime \in Nat /\ params.orderingTime \in Nat
      /\ params.createFee \in Nat /\ params.proposalFee \in Nat
  BY <1>1, ParamTypes
<1>3. keys \in Seq(Merchants) /\ Len(keys) \in 1..2 /\ DOMAIN keys = 1..Len(keys)
  BY KeysTypes DEF CreateRound
<1>4. Cardinality(free) \in Nat /\ Cardinality(DOMAIN keys \ free) \in Nat
  BY FreeKeys
<1>5. r \in Rounds /\ roundCount' = r
  BY DEF CreateRound
<1>6. round \in Round
  BY <1>1, <1>2 DEF Round, Statuses
<1>7. rounds' \in [Rounds -> Round]
  <2>1. rounds' = [rounds EXCEPT ![r] = round]
    BY DEF CreateRound
  <2>. HIDE DEF round, r
  <2>. QED  BY <1>5, <1>6, <2>1 DEF TypeOK
<1>8. candidates' \in [Rounds -> Seq(CandidateRow)]
  <2>1. \A i \in 1..Len(keys) : Candidate(keys[i]) \in CandidateRow
    BY <1>1, <1>3, ConstantTypes DEF Candidate, CandidateRow
  <2>2. [i \in 1..Len(keys) |-> Candidate(keys[i])] \in Seq(CandidateRow)
    BY <1>3, <2>1
  <2>3. candidates' = [candidates EXCEPT ![r] = [i \in 1..Len(keys) |-> Candidate(keys[i])]]
    BY <1>3 DEF CreateRound
  <2>. QED  BY <1>5, <2>2, <2>3 DEF TypeOK
<1>9. memberProposalCount' \in [Rounds -> [Members -> 0..2]]
  <2>1. memberProposalCount' = [memberProposalCount EXCEPT ![r][m] = Len(keys)]
    BY DEF CreateRound
  <2>. QED  BY <1>3, <1>5, <2>1 DEF TypeOK
<1>10. balance' \in Nat
  <2>. DEFINE some == Cardinality(DOMAIN keys \ free)
  <2>1. balance' = balance + ((IF coupon THEN 0 ELSE params.createFee)
                              + some * params.proposalFee)
    BY DEF CreateRound
  <2>2. some * params.proposalFee \in Nat
    BY <1>2, <1>4
  <2>. QED  BY <1>1, <1>2, <2>1, <2>2
<1>11. /\ coupons' \in [Members -> CouponState] /\ claims' \in [Members -> Nat]
       /\ granted' \in [Members -> [Coupons -> Nat]]
       /\ used' \in [Members -> [Coupons -> Nat]]
  <2>1. ConsumeCoupons(m, Taken(One(coupon), Cardinality(free), 0)) /\ One(coupon) \in Nat
    BY DEF CreateRound, One
  <2>. QED  BY <1>4, <2>1, ConsumeTypes
<1>12. roundCount' \in 0..MaxRounds
  BY <1>5 DEF Rounds
<1>13. UNCHANGED <<now, params, votes, subscriptionExpiresAt, subscriptions>>
  BY DEF CreateRound, subscriptionVars
<1>. QED  BY <1>7, <1>8, <1>9, <1>10, <1>11, <1>12, <1>13 DEF TypeOK

LEMMA ProposeTypes ==
  ASSUME ConstantsOK, TypeOK, NEW m \in Members, NEW r \in Rounds, NEW key \in Merchants,
         NEW coupon \in BOOLEAN, ProposeMerchant(m, r, key, coupon)
  PROVE  TypeOK'
<1>1. /\ now \in 0..MaxTime /\ params \in ParamSets /\ balance \in Nat /\ MaxTime \in Nat
      /\ params.proposalFee \in Nat
  BY ConstantTypes, ParamTypes DEF TypeOK
<1>2. candidates' \in [Rounds -> Seq(CandidateRow)]
  <2>1. Candidate(key) \in CandidateRow
    BY <1>1, ConstantTypes DEF Candidate, CandidateRow
  <2>2. candidates[r] \in Seq(CandidateRow)
    BY DEF TypeOK
  <2>3. Append(candidates[r], Candidate(key)) \in Seq(CandidateRow)
    BY <2>1, <2>2
  <2>4. candidates' = [candidates EXCEPT ![r] = Append(candidates[r], Candidate(key))]
    BY DEF ProposeMerchant, TypeOK
  <2>. QED  BY <2>3, <2>4 DEF TypeOK
<1>3. memberProposalCount' \in [Rounds -> [Members -> 0..2]]
  <2>0. memberProposalCount[r][m] \in 0..2 /\ memberProposalCount[r][m] < 2
    <3>1. memberProposalCount[r][m] \in 0..2
      BY DEF TypeOK
    <3>. QED  BY <3>1 DEF ProposeMerchant
  <2>1. memberProposalCount[r][m] + 1 \in 0..2
    BY <2>0
  <2>2. memberProposalCount' =
          [memberProposalCount EXCEPT ![r][m] = memberProposalCount[r][m] + 1]
    BY DEF ProposeMerchant, TypeOK
  <2>. QED  BY <2>1, <2>2 DEF TypeOK
<1>4. balance' \in Nat
  <2>1. balance' = balance + (IF coupon THEN 0 ELSE params.proposalFee)
    BY DEF ProposeMerchant
  <2>. QED  BY <1>1, <2>1
<1>5. /\ coupons' \in [Members -> CouponState] /\ claims' \in [Members -> Nat]
      /\ granted' \in [Members -> [Coupons -> Nat]]
      /\ used' \in [Members -> [Coupons -> Nat]]
  <2>1. ConsumeCoupons(m, Taken(0, One(coupon), 0)) /\ One(coupon) \in Nat
    BY DEF ProposeMerchant, One
  <2>. QED  BY <2>1, ConsumeTypes
<1>6. UNCHANGED <<now, params, roundCount, rounds, votes, subscriptionExpiresAt, subscriptions>>
  BY DEF ProposeMerchant, subscriptionVars
<1>. QED  BY <1>2, <1>3, <1>4, <1>5, <1>6 DEF TypeOK

(* The guard Fits keeps a count within its 24 bits, so nothing wraps.       *)
LEMMA CastVoteEffect ==
  ASSUME ConstantsOK, TypeOK, NEW m \in Members, NEW r \in Rounds,
         NEW c \in DOMAIN candidates[r], NEW n \in VoteCounts, NEW coupon \in BOOLEAN,
         CastVote(m, r, c, n, coupon)
  PROVE  /\ n \in 1..(VoteRange - 1)
         /\ candidates[r][c] \in CandidateRow /\ candidates[r] \in Seq(CandidateRow)
         /\ candidates[r][c].votes + n \in 0..(VoteRange - 1)
         /\ candidates' = [candidates EXCEPT ![r] =
              [candidates[r] EXCEPT ![c] =
                WithVotes(candidates[r][c], candidates[r][c].votes + n)]]
<1>1. VoteRange \in Nat \ {0} /\ n \in Nat \ {0}
  BY DEF ConstantsOK
<1>2. candidates[r] \in Seq(CandidateRow) /\ candidates[r][c] \in CandidateRow
  BY DEF TypeOK
<1>3. candidates[r][c].votes \in Nat
  BY <1>1, <1>2 DEF CandidateRow
<1>4. n < VoteRange /\ candidates[r][c].votes + n < VoteRange
  BY DEF CastVote, Fits
<1>5. (candidates[r][c].votes + n) % VoteRange = candidates[r][c].votes + n
  BY <1>1, <1>3, <1>4
<1>6. candidates' = [candidates EXCEPT ![r][c] =
        WithVotes(candidates[r][c], (candidates[r][c].votes + n) % VoteRange)]
  BY DEF CastVote, TypeOK
<1>7. [candidates EXCEPT ![r][c] = WithVotes(candidates[r][c], candidates[r][c].votes + n)]
      = [candidates EXCEPT ![r] =
           [candidates[r] EXCEPT ![c] = WithVotes(candidates[r][c], candidates[r][c].votes + n)]]
  OBVIOUS
<1>8. candidates[r][c].votes + n \in 0..(VoteRange - 1)
  BY <1>1, <1>3, <1>4
<1>9. n \in 1..(VoteRange - 1)
  BY <1>1, <1>4
<1>. QED  BY <1>2, <1>5, <1>6, <1>7, <1>8, <1>9

LEMMA CastVoteTypes ==
  ASSUME ConstantsOK, TypeOK, NEW m \in Members, NEW r \in Rounds,
         NEW c \in DOMAIN candidates[r], NEW n \in VoteCounts, NEW coupon \in BOOLEAN,
         CastVote(m, r, c, n, coupon)
  PROVE  TypeOK'
<1>. DEFINE list == candidates[r]
            new  == WithVotes(list[c], list[c].votes + n)
<1>1. /\ n \in 1..(VoteRange - 1) /\ list[c] \in CandidateRow /\ list \in Seq(CandidateRow)
      /\ list[c].votes + n \in 0..(VoteRange - 1)
      /\ candidates' = [candidates EXCEPT ![r] = [list EXCEPT ![c] = new]]
  BY CastVoteEffect
<1>2. candidates' \in [Rounds -> Seq(CandidateRow)]
  <2>1. new \in CandidateRow /\ c \in DOMAIN list
    BY <1>1 DEF WithVotes, CandidateRow
  <2>. HIDE DEF list, new
  <2>2. [list EXCEPT ![c] = new] \in Seq(CandidateRow)
    BY <1>1, <2>1
  <2>. QED  BY <1>1, <2>2 DEF TypeOK
<1>3. votes' \in [Rounds -> [Members -> Nat]]
  <2>1. votes' = [votes EXCEPT ![r][m] = EncodeVote(c, n, coupon)]
    BY DEF CastVote
  <2>2. c \in Nat /\ VoteRange \in Nat
    BY <1>1, ConstantTypes
  <2>3. EncodeVote(c, n, coupon) \in Nat
    BY <1>1, <2>2 DEF EncodeVote
  <2>. QED  BY <2>1, <2>3 DEF TypeOK
<1>4. balance' \in Nat
  <2>1. balance' = balance + VoteFee(n, coupon) /\ params \in ParamSets /\ balance \in Nat
    BY DEF CastVote, TypeOK
  <2>2. params.voteFee \in Nat /\ VoteRange \in Nat
    BY <2>1, ParamTypes, ConstantTypes
  <2>3. n - One(coupon) \in Nat
    BY <1>1, <2>2 DEF One
  <2>4. VoteFee(n, coupon) \in Nat
    BY <2>2, <2>3 DEF VoteFee
  <2>. QED  BY <2>1, <2>4
<1>5. /\ coupons' \in [Members -> CouponState] /\ claims' \in [Members -> Nat]
      /\ granted' \in [Members -> [Coupons -> Nat]]
      /\ used' \in [Members -> [Coupons -> Nat]]
  <2>1. ConsumeCoupons(m, Taken(0, 0, One(coupon))) /\ One(coupon) \in Nat
    BY DEF CastVote, One
  <2>. QED  BY <2>1, ConsumeTypes
<1>6. UNCHANGED <<now, params, roundCount, rounds, memberProposalCount,
                  subscriptionExpiresAt, subscriptions>>
  BY DEF CastVote, subscriptionVars
<1>. QED  BY <1>2, <1>3, <1>4, <1>5, <1>6 DEF TypeOK

LEMMA TotalVotesType ==
  ASSUME ConstantsOK, TypeOK, NEW r \in Rounds
  PROVE  /\ DOMAIN candidates[r] = 1..Len(candidates[r]) /\ Len(candidates[r]) \in Nat
         /\ IsFiniteSet(DOMAIN candidates[r])
         /\ \A i \in DOMAIN candidates[r] : /\ candidates[r][i] \in CandidateRow
                                            /\ candidates[r][i].votes \in Nat
                                            /\ candidates[r][i].at \in Nat
         /\ TotalVotes(r) \in Nat
         /\ \A i \in DOMAIN candidates[r] : candidates[r][i].votes <= TotalVotes(r)
<1>. DEFINE list == candidates[r]
            f    == [i \in DOMAIN list |-> list[i].votes]
<1>1. list \in Seq(CandidateRow)
  BY DEF TypeOK
<1>2. DOMAIN list = 1..Len(list) /\ Len(list) \in Nat
  BY <1>1
<1>3. IsFiniteSet(DOMAIN list)
  BY <1>2, FS_Interval
<1>4. \A i \in DOMAIN list : list[i] \in CandidateRow /\ list[i].votes \in Nat /\ list[i].at \in Nat
  <2>1. VoteRange \in Nat
    BY ConstantTypes
  <2>2. \A i \in DOMAIN list : list[i] \in CandidateRow
    BY <1>1
  <2>. QED  BY <2>1, <2>2 DEF CandidateRow
<1>5. NatValued(f, DOMAIN list) /\ DOMAIN f = DOMAIN list
  BY <1>4 DEF NatValued
<1>6. \A i \in DOMAIN list : f[i] = list[i].votes
  OBVIOUS
<1>7. TotalVotes(r) = SumFunctionOnSet(f, DOMAIN list)
  BY <1>5 DEF TotalVotes, SumFunction
<1>. HIDE DEF f, list
<1>8. /\ SumFunctionOnSet(f, DOMAIN list) \in Nat
      /\ \A i \in DOMAIN list : f[i] <= SumFunctionOnSet(f, DOMAIN list)
  BY <1>3, <1>5, SumNat
<1>. QED  BY <1>2, <1>3, <1>4, <1>6, <1>7, <1>8 DEF list

(* The loop of _findWinner finds a candidate when there is one.             *)
LEMMA WinnerFound ==
  ASSUME ConstantsOK, TypeOK, NEW r \in Rounds, candidates[r] # <<>>
  PROVE  /\ FindWinner(r) \in DOMAIN candidates[r] /\ FindWinner(r) \in Nat \ {0}
         /\ \A j \in DOMAIN candidates[r] : Beats(r, FindWinner(r), j)
<1>. DEFINE D == DOMAIN candidates[r]
            R == {x \in D \X D : Beats(r, x[1], x[2])}
<1>1. /\ IsFiniteSet(D) /\ D = 1..Len(candidates[r]) /\ Len(candidates[r]) \in Nat
      /\ \A i \in D : candidates[r][i].votes \in Nat /\ candidates[r][i].at \in Nat
  BY TotalVotesType
<1>2. D # {}
  <2>1. candidates[r] \in Seq(CandidateRow)
    BY DEF TypeOK
  <2>. QED  BY <2>1, EmptySeq, <1>1
<1>3. \A i, j \in D : <<i, j>> \in R <=> Beats(r, i, j)
  OBVIOUS
<1>4. \A i, j \in D : Beats(r, i, j) \/ Beats(r, j, i)
  BY <1>1 DEF Beats
<1>5. \A i, j, k \in D : Beats(r, i, j) /\ Beats(r, j, k) => Beats(r, i, k)
  BY <1>1 DEF Beats
<1>6. \E i \in D : \A j \in D : <<i, j>> \in R
  <2>0. R \in SUBSET (D \X D)
    OBVIOUS
  <2>1. \A i, j \in D : <<i, j>> \in R \/ <<j, i>> \in R
    BY <1>3, <1>4
  <2>2. \A i, j, k \in D : <<i, j>> \in R /\ <<j, k>> \in R => <<i, k>> \in R
    BY <1>3, <1>5
  <2>. HIDE DEF D, R
  <2>. SUFFICES ASSUME NEW S, S = D, NEW T, T = R
                PROVE  \E i \in S : \A j \in S : <<i, j>> \in T
    OBVIOUS
  <2>3. IsFiniteSet(S) /\ S # {} /\ T \in SUBSET (S \X S)
    BY <1>1, <1>2, <2>0
  <2>4. \A i, j \in S : <<i, j>> \in T \/ <<j, i>> \in T
    BY <2>1
  <2>5. \A i, j, k \in S : <<i, j>> \in T /\ <<j, k>> \in T => <<i, k>> \in T
    BY <2>2
  <2>. QED  BY ONLY <2>3, <2>4, <2>5, BestExists
<1>7. \E i \in D : \A j \in D : Beats(r, i, j)
  BY <1>3, <1>6
<1>8. FindWinner(r) \in D /\ \A j \in D : Beats(r, FindWinner(r), j)
  BY <1>7 DEF FindWinner
<1>. QED  BY <1>1, <1>8

LEMMA SettleTypes ==
  ASSUME ConstantsOK, TypeOK, NEW r \in Rounds, SettleRound(r)
  PROVE  /\ TypeOK'
         /\ IF TotalVotes(r) = 0
              THEN rounds' = [rounds EXCEPT ![r] =
                     Settled(rounds[r], rounds[r].winner, "VotingClosedFailed")]
              ELSE /\ candidates[r] # <<>>
                   /\ rounds' = [rounds EXCEPT ![r] =
                        Settled(rounds[r], FindWinner(r), "VotingClosedSuccess")]
<1>1. rounds \in [Rounds -> Round] /\ rounds[r] \in Round
  BY DEF TypeOK
<1>2. \A w \in Nat, s \in Statuses : Settled(rounds[r], w, s) \in Round
  BY <1>1 DEF Settled, Round
<1>3. UNCHANGED <<now, params, roundCount, candidates, memberProposalCount, votes,
                  coupons, claims, granted, used, subscriptionExpiresAt, subscriptions, balance>>
  BY DEF SettleRound, couponVars, subscriptionVars
<1>4. CASE TotalVotes(r) = 0
  <2>1. rounds' = [rounds EXCEPT ![r] =
                     Settled(rounds[r], rounds[r].winner, "VotingClosedFailed")]
    BY <1>1, <1>4 DEF SettleRound
  <2>2. Settled(rounds[r], rounds[r].winner, "VotingClosedFailed") \in Round
    <3>1. rounds[r].winner \in Nat /\ "VotingClosedFailed" \in Statuses
      BY <1>1 DEF Round, Statuses
    <3>. QED  BY <3>1, <1>2
  <2>3. rounds' \in [Rounds -> Round]
    BY <1>1, <2>1, <2>2
  <2>4. TypeOK'
    BY <1>3, <2>3 DEF TypeOK
  <2>. QED  BY <1>4, <2>1, <2>4
<1>5. CASE TotalVotes(r) # 0
  <2>1. candidates[r] # <<>>
    <3>1. SUFFICES ASSUME candidates[r] = <<>> PROVE TotalVotes(r) = 0
      BY <1>5
    <3>2. DOMAIN candidates[r] = {}
      BY <3>1
    <3>3. DOMAIN [i \in DOMAIN candidates[r] |-> candidates[r][i].votes] = {}
      BY <3>2
    <3>. QED  BY <3>3, SumEmpty DEF TotalVotes, SumFunction
  <2>2. rounds' = [rounds EXCEPT ![r] =
                     Settled(rounds[r], FindWinner(r), "VotingClosedSuccess")]
    BY <1>1, <1>5 DEF SettleRound
  <2>3. Settled(rounds[r], FindWinner(r), "VotingClosedSuccess") \in Round
    <3>1. FindWinner(r) \in Nat /\ "VotingClosedSuccess" \in Statuses
      BY <2>1, WinnerFound DEF Statuses
    <3>. QED  BY <3>1, <1>2
  <2>4. rounds' \in [Rounds -> Round]
    BY <1>1, <2>2, <2>3
  <2>5. TypeOK'
    BY <1>3, <2>4 DEF TypeOK
  <2>. QED  BY <1>5, <2>1, <2>2, <2>5
<1>. QED  BY <1>4, <1>5

LEMMA CancelTypes ==
  ASSUME TypeOK, NEW r \in Rounds, CancelRound(r)
  PROVE  TypeOK'
<1>1. rounds' = [rounds EXCEPT ![r].status = "Cancelled"] /\ rounds[r] \in Round
  BY DEF CancelRound, TypeOK
<1>2. [rounds[r] EXCEPT !.status = "Cancelled"] \in Round
  BY <1>1 DEF Round, Statuses
<1>3. rounds' \in [Rounds -> Round]
  BY <1>1, <1>2 DEF TypeOK
<1>4. UNCHANGED <<now, params, roundCount, candidates, memberProposalCount, votes,
                  coupons, claims, granted, used, subscriptionExpiresAt, subscriptions, balance>>
  BY DEF CancelRound, couponVars, subscriptionVars
<1>. QED  BY <1>3, <1>4 DEF TypeOK

LEMMA ClaimTypes ==
  ASSUME ConstantsOK, TypeOK, NEW m \in Members, NEW day \in DayKeys,
         ClaimDailyCoupons(m, day)
  PROVE  TypeOK'
<1>. DEFINE more == [k \in Coupons |-> granted[m][k] + params.daily[k]]
            state == [day |-> day % DayKeyRange, claimed |-> TRUE, left |-> params.daily]
<1>1. params \in ParamSets /\ params.daily \in [Coupons -> Nat]
  BY ParamTypes DEF TypeOK
<1>2. state \in CouponState
  <2>1. day % DayKeyRange \in 0..(DayKeyRange - 1)
    BY ConstantTypes
  <2>. QED  BY <1>1, <2>1 DEF CouponState
<1>3. granted[m] \in [Coupons -> Nat] /\ granted \in [Members -> [Coupons -> Nat]]
      /\ coupons \in [Members -> CouponState] /\ claims \in [Members -> Nat]
  BY DEF TypeOK
<1>4. more \in [Coupons -> Nat]
  BY <1>1, <1>3
<1>5. /\ coupons' = [coupons EXCEPT ![m] = state] /\ claims' = [claims EXCEPT ![m] = claims[m] + 1]
      /\ granted' = [granted EXCEPT ![m] = more]
  BY <1>3 DEF ClaimDailyCoupons
<1>6. UNCHANGED <<now, params, roundCount, rounds, candidates, memberProposalCount, votes,
                  used, subscriptionExpiresAt, subscriptions, balance>>
  BY DEF ClaimDailyCoupons, roundVars, subscriptionVars
<1>. HIDE DEF more, state
<1>7. /\ coupons' \in [Members -> CouponState] /\ claims' \in [Members -> Nat]
      /\ granted' \in [Members -> [Coupons -> Nat]]
  BY <1>2, <1>3, <1>4, <1>5
<1>. QED  BY <1>6, <1>7 DEF TypeOK

LEMMA SubscribeTypes ==
  ASSUME ConstantsOK, TypeOK, NEW m \in Members, SubscribeMonthly(m) \/ CancelSubscription(m)
  PROVE  TypeOK'
<1>1. /\ params.subscriptionTime \in Nat /\ params.subscriptionFee \in Nat /\ now \in Nat
      /\ balance \in Nat /\ subscriptions \in Nat
  BY ParamTypes, ConstantTypes DEF TypeOK
<1>2. /\ UNCHANGED <<now, params, roundCount, rounds, candidates, memberProposalCount, votes,
                     coupons, claims, granted, used>>
      /\ subscriptions' \in {subscriptions, subscriptions + 1}
      /\ balance' \in {balance, balance + params.subscriptionFee}
      /\ \/ subscriptionExpiresAt' = [subscriptionExpiresAt EXCEPT ![m] = 0]
         \/ subscriptionExpiresAt' = [subscriptionExpiresAt EXCEPT ![m] =
              (IF subscriptionExpiresAt[m] > now THEN subscriptionExpiresAt[m] ELSE now)
                + params.subscriptionTime]
  BY DEF SubscribeMonthly, CancelSubscription, roundVars, couponVars
<1>3. subscriptionExpiresAt' \in [Members -> Nat]
  BY <1>1, <1>2 DEF TypeOK
<1>4. balance' \in Nat /\ subscriptions' \in Nat
  BY <1>1, <1>2
<1>. QED  BY <1>2, <1>3, <1>4 DEF TypeOK

(* A step of the contract, as the lemmas below take it apart.               *)
LEMMA Steps ==
  ASSUME Next
  PROVE  \/ \E m \in Members : \E day \in DayKeys : ClaimDailyCoupons(m, day)
         \/ \E m \in Members : SubscribeMonthly(m) \/ CancelSubscription(m)
         \/ \E m \in Members, keys \in InitialKeys, coupon \in BOOLEAN :
              \E free \in SUBSET DOMAIN keys : CreateRound(m, keys, coupon, free)
         \/ \E m \in Members, r \in Rounds, coupon \in BOOLEAN, key \in Merchants :
              ProposeMerchant(m, r, key, coupon)
         \/ \E m \in Members, r \in Rounds, coupon \in BOOLEAN :
              \E c \in DOMAIN candidates[r], n \in VoteCounts : CastVote(m, r, c, n, coupon)
         \/ \E r \in Rounds : CancelRound(r)
         \/ \E r \in Rounds : SettleRound(r)
         \/ \E p \in ParamSets : SetGovernanceParams(p)
         \/ Tick
<1>. QED  BY DEF Next, MemberStep

LEMMA TypesInductive == ConstantsOK /\ TypeOK /\ [Next]_vars => TypeOK'
<1>. SUFFICES ASSUME ConstantsOK, TypeOK, [Next]_vars  PROVE TypeOK'
  OBVIOUS
<1>1. CASE UNCHANGED vars
  BY <1>1 DEF vars, roundVars, couponVars, subscriptionVars, TypeOK
<1>2. ASSUME NEW p \in ParamSets, SetGovernanceParams(p)  PROVE TypeOK'
  BY <1>2 DEF SetGovernanceParams, roundVars, couponVars, subscriptionVars, TypeOK
<1>3. CASE Tick
  <2>1. now' \in 0..MaxTime
    BY <1>3, ConstantTypes DEF Tick, TypeOK
  <2>. QED  BY <1>3, <2>1 DEF Tick, roundVars, couponVars, subscriptionVars, TypeOK
<1>. QED  BY <1>1, <1>2, <1>3, Steps, ClaimTypes, SubscribeTypes, CreateRoundTypes,
             ProposeTypes, CastVoteTypes, CancelTypes, SettleTypes

-----------------------------------------------------------------------------
(* Tallies of one round's ballots.                                          *)
Tally(b, i) ==
  SumFunctionOnSet([m \in Members |-> b[m].count], {m \in Members : b[m].candidate = i})

IsBallots(b) == \A m \in Members : b[m].candidate \in Nat /\ b[m].count \in Nat

LEMMA BallotTypes ==
  ASSUME ConstantsOK, TypeOK, NEW r \in Rounds
  PROVE  /\ IsBallots(BallotsOf(r))
         /\ \A m \in Members : ~Cast(r, m) =>
              BallotsOf(r)[m] = [candidate |-> 0, count |-> 0]
<1>1. \A m \in Members : votes[r][m] \in Nat /\ BallotsOf(r)[m] = DecodeVote(votes[r][m])
  BY DEF TypeOK, BallotsOf
<1>2. IsBallots(BallotsOf(r))
  <2>1. VoteRange \in Nat
    BY ConstantTypes
  <2>. QED  BY <1>1, <2>1, DecodeTypes DEF IsBallots
<1>3. \A m \in Members : ~Cast(r, m) => BallotsOf(r)[m] = [candidate |-> 0, count |-> 0]
  BY <1>1, DecodeZero DEF Cast
<1>. QED  BY <1>2, <1>3

LEMMA TallyDef ==
  TalliesMatchRecords <=>
    \A r \in Rounds : \A i \in DOMAIN candidates[r] :
      candidates[r][i].votes = Tally(BallotsOf(r), i)
<1>. QED  BY DEF TalliesMatchRecords, Tally

(* Ballots that nobody cast count for no candidate.                         *)
LEMMA TallyNone ==
  ASSUME NEW b, NEW i, \A m \in Members : b[m].candidate # i
  PROVE  Tally(b, i) = 0
<1>1. {m \in Members : b[m].candidate = i} = {}
  OBVIOUS
<1>. QED  BY <1>1, SumEmpty DEF Tally

LEMMA TallyAfterVote ==
  ASSUME IsFiniteSet(Members), NEW b, NEW d, IsBallots(b), IsBallots(d),
         NEW v \in Members, NEW c \in Nat \ {0}, NEW n \in Nat,
         b[v].candidate = 0, d[v] = [candidate |-> c, count |-> n],
         \A m \in Members \ {v} : d[m] = b[m]
  PROVE  \A i \in Nat \ {0} : Tally(d, i) = Tally(b, i) + (IF i = c THEN n ELSE 0)
<1>. SUFFICES ASSUME NEW i \in Nat \ {0}
              PROVE  Tally(d, i) = Tally(b, i) + (IF i = c THEN n ELSE 0)
  OBVIOUS
<1>. DEFINE f == [m \in Members |-> b[m].count]
            g == [m \in Members |-> d[m].count]
            S == {m \in Members : b[m].candidate = i}
            T == {m \in Members : d[m].candidate = i}
<1>1. IsFiniteSet(S) /\ IsFiniteSet(T) /\ v \notin S
  BY FS_Subset
<1>2. IntValued(f, Members) /\ IntValued(g, Members)
  BY DEF IsBallots, IntValued
<1>3. IntValued(f, S) /\ IntValued(g, S) /\ IntValued(g, T)
  BY <1>2 DEF IntValued
<1>4. \A m \in S : f[m] = g[m]
  BY <1>1
<1>5. g[v] = n
  OBVIOUS
<1>6. Tally(b, i) = SumFunctionOnSet(f, S) /\ Tally(d, i) = SumFunctionOnSet(g, T)
  BY DEF Tally
<1>7. /\ i # c => T = S
      /\ i = c => v \in T /\ T \ {v} = S
  OBVIOUS
<1>. HIDE DEF f, g, S, T
<1>8. SumFunctionOnSet(f, S) = SumFunctionOnSet(g, S) /\ SumFunctionOnSet(f, S) \in Int
  BY <1>1, <1>3, <1>4, SumAgree, SumStep
<1>9. CASE i = c
  <2>1. SumFunctionOnSet(g, T) = g[v] + SumFunctionOnSet(g, T \ {v})
    BY <1>1, <1>3, <1>7, <1>9, SumStep
  <2>2. SumFunctionOnSet(g, T) = n + SumFunctionOnSet(f, S)
    BY <1>5, <1>7, <1>8, <1>9, <2>1
  <2>3. Tally(d, i) = Tally(b, i) + n
    BY ONLY <1>6, <1>8, <2>2, n \in Nat
  <2>. QED  BY <1>9, <2>3
<1>10. CASE i # c
  <2>1. Tally(d, i) = Tally(b, i) /\ Tally(b, i) \in Int
    BY <1>6, <1>7, <1>8, <1>10
  <2>. QED  BY <1>10, <2>1
<1>. QED  BY <1>9, <1>10

-----------------------------------------------------------------------------
(* Each action keeps the invariant of the rounds.                           *)
LEMMA NobodyBefore ==
  ASSUME ConstantsOK, TypeOK, ElectionInv, NEW r \in Rounds,
         now <= rounds[r].proposal \/ rounds[r].creator = NoOne
  PROVE  \A m \in Members : ~Cast(r, m) /\ BallotsOf(r)[m] = [candidate |-> 0, count |-> 0]
<1>1. now \in Nat /\ rounds[r].proposal \in Nat
  BY ConstantTypes DEF TypeOK, Round
<1>2. rounds[r].creator = NoOne => rounds[r].status = "Created"
  BY DEF ElectionInv, Lives
<1>3. \A m \in Members : ~Cast(r, m)
  BY <1>1, <1>2 DEF ElectionInv, CastWell
<1>. QED  BY <1>3, BallotTypes

LEMMA IdleKeepsElection ==
  ASSUME ConstantsOK, TypeOK, TypeOK', ElectionInv, now' >= now,
         UNCHANGED <<roundCount, rounds, candidates, votes>>
  PROVE  ElectionInv'
<1>1. now \in Nat /\ now' \in Nat
  BY ConstantTypes DEF TypeOK
<1>2. \A r \in Rounds : /\ rounds[r].proposal \in Nat /\ rounds[r].vote \in Nat
                        /\ \A i \in DOMAIN candidates[r] : candidates[r][i].at \in Nat
  BY TotalVotesType DEF TypeOK, Round
<1>3. Lives'
  BY <1>1, <1>2 DEF ElectionInv, Lives
<1>4. Lists'
  BY <1>1, <1>2 DEF ElectionInv, Lists
<1>5. CastWell'
  BY <1>1, <1>2 DEF ElectionInv, CastWell, Cast
<1>6. TalliesMatchRecords'
  BY DEF ElectionInv, TalliesMatchRecords, BallotsOf
<1>. QED  BY <1>3, <1>4, <1>5, <1>6 DEF ElectionInv

LEMMA CreateKeepsElection ==
  ASSUME ConstantsOK, TypeOK, TypeOK', ElectionInv, NEW m \in Members,
         NEW keys \in InitialKeys, NEW coupon \in BOOLEAN, NEW free \in SUBSET DOMAIN keys,
         CreateRound(m, keys, coupon, free)
  PROVE  ElectionInv'
<1>. DEFINE q     == roundCount + 1
            close == now + params.proposalTime
            round == [creator |-> m, status |-> "ProposalOpen", proposal |-> close,
                      vote |-> close + params.voteTime,
                      ordering |-> close + params.voteTime + params.orderingTime,
                      winner |-> 0, settled |-> FALSE]
            list  == [i \in DOMAIN keys |-> Candidate(keys[i])]
<1>1. /\ roundCount \in Nat /\ now \in Nat /\ m # NoOne
      /\ params.proposalTime \in Nat /\ params.voteTime \in Nat \ {0}
  BY ConstantTypes, ParamTypes DEF TypeOK
<1>2. /\ q \in Rounds /\ roundCount' = q
      /\ \A i, j \in DOMAIN keys : keys[i] = keys[j] => i = j
      /\ rounds' = [rounds EXCEPT ![q] = round]
      /\ candidates' = [candidates EXCEPT ![q] = list]
      /\ UNCHANGED <<now, votes>>
  <2>1. q \in Rounds /\ roundCount' = q /\ rounds' = [rounds EXCEPT ![q] = round]
    BY DEF CreateRound
  <2>2. \A i, j \in DOMAIN keys : keys[i] = keys[j] => i = j
    BY DEF CreateRound
  <2>3. candidates' = [candidates EXCEPT ![q] = list] /\ UNCHANGED <<now, votes>>
    BY DEF CreateRound
  <2>. QED  BY <2>1, <2>2, <2>3
<1>3. keys \in Seq(Merchants) /\ DOMAIN keys = 1..Len(keys) /\ Len(keys) \in Nat
  BY KeysTypes
<1>4. /\ rounds'[q] = round /\ candidates'[q] = list
      /\ \A r \in Rounds \ {q} : rounds'[r] = rounds[r] /\ candidates'[r] = candidates[r]
  BY <1>2 DEF TypeOK
<1>5. rounds[q].creator = NoOne
  BY <1>1, <1>2 DEF ElectionInv, Lives
<1>6. \A v \in Members : ~Cast(q, v) /\ BallotsOf(q)[v] = [candidate |-> 0, count |-> 0]
  BY <1>2, <1>5, NobodyBefore
<1>7. \A i \in DOMAIN keys : list[i].merchant = keys[i] /\ list[i].at = now /\ list[i].votes = 0
  BY DEF Candidate
<1>8. DOMAIN list = DOMAIN keys /\ \A i \in DOMAIN keys : i \in Nat \ {0}
  BY <1>3
<1>9. /\ round.creator = m /\ round.status = "ProposalOpen" /\ round.proposal < round.vote
      /\ ~round.settled /\ round.winner = 0
  BY <1>1
<1>. HIDE DEF round, list, q
<1>10. Lives'
  <2>1. \A r \in Rounds \ {q} : r <= q <=> r <= roundCount
    BY <1>1, <1>2 DEF Rounds, q
  <2>2. ASSUME NEW r \in Rounds \ {q}
        PROVE  /\ r <= roundCount' <=> rounds'[r].creator # NoOne
    BY <1>2, <1>4, <2>1, <2>2 DEF ElectionInv, Lives
  <2>3. q <= roundCount'
    BY <1>1, <1>2 DEF q
  <2>. QED  BY <1>1, <1>2, <1>4, <1>9, <2>2, <2>3 DEF ElectionInv, Lives
<1>11. Lists'
  BY <1>1, <1>2, <1>4, <1>7, <1>8, <1>9 DEF ElectionInv, Lists
<1>12. CastWell'
  BY <1>2, <1>4, <1>6 DEF ElectionInv, CastWell, Cast
<1>13. TalliesMatchRecords'
  <2>1. \A r \in Rounds : BallotsOf(r)' = BallotsOf(r)
    BY <1>2 DEF BallotsOf
  <2>2. \A i \in DOMAIN list : Tally(BallotsOf(q), i) = 0
    BY <1>6, <1>8, TallyNone
  <2>3. ASSUME NEW r \in Rounds, NEW i \in DOMAIN candidates'[r]
        PROVE  candidates'[r][i].votes = Tally(BallotsOf(r), i)
    BY <1>4, <1>7, <1>8, <2>2, TallyDef DEF ElectionInv
  <2>4. \A r \in Rounds : \A i \in DOMAIN candidates'[r] :
          candidates'[r][i].votes = Tally(BallotsOf(r)', i)
    BY <2>1, <2>3
  <2>. QED  BY <2>4 DEF TalliesMatchRecords, Tally
<1>. QED  BY <1>10, <1>11, <1>12, <1>13 DEF ElectionInv

(* No merchant is listed twice, so a candidate's number fits its field.     *)
LEMMA CandidatesFit ==
  ASSUME ConstantsOK, TypeOK, Lists, NEW r \in Rounds
  PROVE  \A c \in DOMAIN candidates[r] : c \in 1..(VoteRange - 1)
<1>. DEFINE n == Len(candidates[r])
            f == [i \in 1..n |-> candidates[r][i].merchant]
<1>1. DOMAIN candidates[r] = 1..n /\ n \in Nat
      /\ \A i \in 1..n : candidates[r][i].merchant \in Merchants
  BY TotalVotesType DEF CandidateRow
<1>2. f \in [1..n -> Merchants] /\ \A i, j \in 1..n : f[i] = f[j] => i = j
  BY <1>1 DEF Lists
<1>3. IsFiniteSet(Merchants) /\ Cardinality(Merchants) < VoteRange /\ VoteRange \in Nat
  BY ConstantTypes DEF ConstantsOK
<1>4. Cardinality(Merchants) \in Nat
  BY <1>3, FS_CardinalityType
<1>5. IsFiniteSet(1..n) /\ Cardinality(1..n) = n
  BY <1>1, FS_Interval
<1>6. n <= Cardinality(Merchants)
  <2>1. f \in Injection(1..n, Merchants)
    BY <1>2 DEF Injection, IsInjective
  <2>. HIDE DEF f, n
  <2>. QED  BY <1>3, <1>5, <2>1, FS_Injection
<1>. HIDE DEF n
<1>. QED  BY <1>1, <1>3, <1>4, <1>6

LEMMA ProposeKeepsElection ==
  ASSUME ConstantsOK, TypeOK, TypeOK', ElectionInv, NEW m \in Members, NEW q \in Rounds,
         NEW key \in Merchants, NEW coupon \in BOOLEAN, ProposeMerchant(m, q, key, coupon)
  PROVE  ElectionInv'
<1>. DEFINE list == candidates[q]
            n    == Len(list) + 1
            new  == Append(list, Candidate(key))
<1>1. /\ rounds[q].creator # NoOne /\ now <= rounds[q].proposal
      /\ \A i \in DOMAIN list : list[i].merchant # key
      /\ UNCHANGED <<now, roundCount, rounds, votes>>
  BY DEF ProposeMerchant, ProposalWindow, Proposed
<1>2. candidates' = [candidates EXCEPT ![q] = new]
  BY DEF ProposeMerchant
<1>3. candidates'[q] = new /\ \A r \in Rounds \ {q} : candidates'[r] = candidates[r]
  BY <1>2 DEF TypeOK
<1>4. now \in Nat /\ list \in Seq(CandidateRow) /\ DOMAIN list = 1..Len(list)
      /\ Len(list) \in Nat /\ \A i \in DOMAIN list : list[i].at \in Nat
  <2>1. now \in Nat /\ list \in Seq(CandidateRow)
    BY ConstantTypes DEF TypeOK
  <2>2. DOMAIN list = 1..Len(list) /\ Len(list) \in Nat
        /\ \A i \in DOMAIN list : list[i].at \in Nat
    BY TotalVotesType
  <2>. QED  BY <2>1, <2>2
<1>5. Candidate(key).merchant = key /\ Candidate(key).at = now /\ Candidate(key).votes = 0
  BY DEF Candidate
<1>6. /\ DOMAIN new = 1..n /\ new[n] = Candidate(key)
      /\ \A i \in DOMAIN list : i \in DOMAIN new /\ i < n /\ new[i] = list[i]
      /\ \A i \in DOMAIN new : i \in DOMAIN list \/ i = n
      /\ n \in Nat \ {0} /\ n \notin DOMAIN list
  <2>1. DOMAIN new = 1..n /\ new[n] = Candidate(key)
    BY <1>4
  <2>2. \A i \in DOMAIN list : new[i] = list[i]
    BY <1>4
  <2>. QED  BY <1>4, <2>1, <2>2
<1>7. \A v \in Members : ~Cast(q, v) /\ BallotsOf(q)[v] = [candidate |-> 0, count |-> 0]
  BY <1>1, NobodyBefore
<1>. HIDE DEF list, n, new
<1>8. Lives'
  BY <1>1 DEF ElectionInv, Lives
<1>9. Lists'
  <2>1. \A i \in DOMAIN new : new[i].at <= now
    BY <1>4, <1>5, <1>6 DEF ElectionInv, Lists, list
  <2>2. \A i, j \in DOMAIN new : new[i].merchant = new[j].merchant => i = j
    BY <1>1, <1>5, <1>6 DEF ElectionInv, Lists, list
  <2>3. ASSUME NEW i \in DOMAIN new, NEW j \in DOMAIN new, i <= j
        PROVE  new[i].at <= new[j].at
    <3>1. CASE i \in DOMAIN list /\ j \in DOMAIN list
      BY <1>6, <2>3, <3>1 DEF ElectionInv, Lists, list
    <3>2. CASE j = n
      BY <1>4, <1>5, <1>6, <2>1, <3>2
    <3>3. CASE i = n /\ j \in DOMAIN list
      <4>1. j < n /\ j \in Nat /\ i = n /\ n \in Nat
        BY <1>4, <1>6, <3>3
      <4>. QED  BY <4>1, <2>3
    <3>. QED  BY <1>6, <3>1, <3>2, <3>3
  <2>. QED  BY <1>1, <1>3, <2>1, <2>2, <2>3 DEF ElectionInv, Lists
<1>10. CastWell'
  BY <1>1, <1>3, <1>7 DEF ElectionInv, CastWell, Cast
<1>11. TalliesMatchRecords'
  <2>1. \A r \in Rounds : BallotsOf(r)' = BallotsOf(r)
    BY <1>1 DEF BallotsOf
  <2>2. Tally(BallotsOf(q), n) = 0
    BY <1>6, <1>7, TallyNone
  <2>3. ASSUME NEW r \in Rounds, NEW i \in DOMAIN candidates'[r]
        PROVE  candidates'[r][i].votes = Tally(BallotsOf(r), i)
    <3>1. CASE r # q
      BY <1>3, <3>1, TallyDef DEF ElectionInv
    <3>2. CASE r = q /\ i = n
      BY <1>3, <1>5, <1>6, <2>2, <3>2
    <3>3. CASE r = q /\ i \in DOMAIN list
      BY <1>3, <1>6, <3>3, TallyDef DEF ElectionInv, list
    <3>. QED  BY <1>3, <1>6, <3>1, <3>2, <3>3
  <2>. QED  BY <2>1, <2>3 DEF TalliesMatchRecords, Tally
<1>. QED  BY <1>8, <1>9, <1>10, <1>11 DEF ElectionInv

(* A vote is recorded as it was cast, and is added to its candidate.        *)
LEMMA BallotsAfterVote ==
  ASSUME ConstantsOK, TypeOK, TypeOK', Lists, NEW m \in Members, NEW q \in Rounds,
         NEW c \in DOMAIN candidates[q], NEW n \in VoteCounts, NEW coupon \in BOOLEAN,
         CastVote(m, q, c, n, coupon)
  PROVE  /\ c \in Nat \ {0} /\ n \in Nat \ {0}
         /\ BallotsOf(q)[m] = [candidate |-> 0, count |-> 0]
         /\ BallotsOf(q)'[m] = [candidate |-> c, count |-> n]
         /\ \A v \in Members \ {m} : votes'[q][v] = votes[q][v] /\ BallotsOf(q)'[v] = BallotsOf(q)[v]
         /\ \A r \in Rounds \ {q} : votes'[r] = votes[r] /\ BallotsOf(r)' = BallotsOf(r)
         /\ votes'[q][m] # 0
<1>. DEFINE rec == EncodeVote(c, n, coupon)
<1>1. c \in 1..(VoteRange - 1) /\ n \in 1..(VoteRange - 1) /\ VoteRange \in Nat
  BY CandidatesFit, CastVoteEffect, ConstantTypes
<1>2. c \in Nat \ {0} /\ n \in Nat \ {0} /\ n \in 0..(VoteRange - 1)
  BY <1>1
<1>3. votes' = [votes EXCEPT ![q][m] = rec] /\ votes[q][m] = 0
  BY DEF CastVote
<1>4. rec # 0 /\ DecodeVote(rec) = [candidate |-> c, count |-> n]
  BY <1>1, <1>2, DecodeEncode
<1>. HIDE DEF rec
<1>5. /\ votes'[q][m] = rec /\ \A v \in Members \ {m} : votes'[q][v] = votes[q][v]
      /\ \A r \in Rounds \ {q} : votes'[r] = votes[r]
  BY <1>3 DEF TypeOK
<1>. QED  BY <1>2, <1>3, <1>4, <1>5, DecodeZero DEF BallotsOf

LEMMA CastKeepsElection ==
  ASSUME ConstantsOK, TypeOK, TypeOK', ElectionInv, NEW m \in Members, NEW q \in Rounds,
         NEW c \in DOMAIN candidates[q], NEW n \in VoteCounts, NEW coupon \in BOOLEAN,
         CastVote(m, q, c, n, coupon)
  PROVE  ElectionInv'
<1>. DEFINE list == candidates[q]
            row  == WithVotes(list[c], list[c].votes + n)
            new  == [list EXCEPT ![c] = row]
<1>0. Lists
  BY DEF ElectionInv
<1>1. /\ candidates' = [candidates EXCEPT ![q] = new] /\ list \in Seq(CandidateRow)
  BY CastVoteEffect
<1>2. /\ rounds[q].status = "ProposalOpen" /\ now > rounds[q].proposal
      /\ UNCHANGED <<now, roundCount, rounds>>
  BY DEF CastVote
<1>3. /\ DOMAIN new = DOMAIN list /\ new[c] = row
      /\ \A i \in DOMAIN list \ {c} : new[i] = list[i]
      /\ row.merchant = list[c].merchant /\ row.at = list[c].at
      /\ row.votes = list[c].votes + n
  BY <1>1 DEF WithVotes
<1>4. candidates'[q] = new /\ \A r \in Rounds \ {q} : candidates'[r] = candidates[r]
  BY <1>1 DEF TypeOK
<1>5. /\ c \in Nat \ {0} /\ n \in Nat \ {0}
      /\ BallotsOf(q)[m] = [candidate |-> 0, count |-> 0]
      /\ BallotsOf(q)'[m] = [candidate |-> c, count |-> n]
      /\ \A v \in Members \ {m} : votes'[q][v] = votes[q][v] /\ BallotsOf(q)'[v] = BallotsOf(q)[v]
      /\ \A r \in Rounds \ {q} : votes'[r] = votes[r] /\ BallotsOf(r)' = BallotsOf(r)
  BY <1>0, BallotsAfterVote
<1>6. \A i \in DOMAIN list : i \in Nat \ {0}
  BY TotalVotesType
<1>. HIDE DEF list, row, new
<1>7. Lives'
  BY <1>2 DEF ElectionInv, Lives
<1>8. \A i \in DOMAIN list : new[i].merchant = list[i].merchant /\ new[i].at = list[i].at
  BY <1>3
<1>9. Lists'
  BY <1>2, <1>3, <1>4, <1>8 DEF ElectionInv, Lists, list
<1>10. CastWell'
  <2>1. /\ DecodeVote(votes[q][m])' = [candidate |-> c, count |-> n]
        /\ \A v \in Members \ {m} : DecodeVote(votes[q][v])' = DecodeVote(votes[q][v])
    BY <1>5 DEF BallotsOf
  <2>2. c \in DOMAIN new
    BY <1>3 DEF list
  <2>3. ASSUME NEW v \in Members, Cast(q, v)'
        PROVE  /\ now' > rounds'[q].proposal
               /\ rounds'[q].status \in {"ProposalOpen", "VotingClosedFailed", "VotingClosedSuccess"}
               /\ DecodeVote(votes[q][v])'.candidate \in DOMAIN candidates'[q]
               /\ DecodeVote(votes[q][v])'.count > 0
    <3>1. CASE v = m
      BY <1>2, <1>4, <1>5, <2>1, <2>2, <3>1
    <3>2. CASE v # m
      BY <1>2, <1>3, <1>4, <1>5, <2>1, <2>3, <3>2 DEF ElectionInv, CastWell, Cast, list
    <3>. QED  BY <3>1, <3>2
  <2>4. ASSUME NEW r \in Rounds \ {q}, NEW v \in Members, Cast(r, v)'
        PROVE  /\ now' > rounds'[r].proposal
               /\ rounds'[r].status \in {"ProposalOpen", "VotingClosedFailed", "VotingClosedSuccess"}
               /\ DecodeVote(votes[r][v])'.candidate \in DOMAIN candidates'[r]
               /\ DecodeVote(votes[r][v])'.count > 0
    BY <1>2, <1>4, <1>5, <2>4 DEF ElectionInv, CastWell, Cast
  <2>. QED  BY <2>3, <2>4 DEF CastWell
<1>11. TalliesMatchRecords'
  <2>1. IsBallots(BallotsOf(q)) /\ IsBallots(BallotsOf(q)') /\ IsFiniteSet(Members)
    <3>1. IsBallots(BallotsOf(q)) /\ IsFiniteSet(Members)
      BY BallotTypes DEF ConstantsOK
    <3>2. \A v \in Members : BallotsOf(q)'[v].candidate \in Nat /\ BallotsOf(q)'[v].count \in Nat
      BY <1>5, <3>1 DEF IsBallots
    <3>. QED  BY <3>1, <3>2 DEF IsBallots
  <2>2. \A i \in Nat \ {0} : Tally(BallotsOf(q)', i) =
          Tally(BallotsOf(q), i) + (IF i = c THEN n ELSE 0)
    BY <1>5, <2>1, TallyAfterVote
  <2>3. \A i \in DOMAIN list : list[i].votes = Tally(BallotsOf(q), i) /\ list[i].votes \in Nat
    BY TallyDef, TotalVotesType DEF ElectionInv, list
  <2>4. \A i \in DOMAIN new : new[i].votes = Tally(BallotsOf(q)', i)
    BY <1>3, <1>5, <1>6, <2>2, <2>3
  <2>5. \A r \in Rounds : \A i \in DOMAIN candidates'[r] :
          candidates'[r][i].votes = Tally(BallotsOf(r)', i)
    BY <1>4, <1>5, <2>4, TallyDef DEF ElectionInv
  <2>. QED  BY <2>5 DEF TalliesMatchRecords, Tally
<1>. QED  BY <1>7, <1>9, <1>10, <1>11 DEF ElectionInv

LEMMA CancelKeepsElection ==
  ASSUME ConstantsOK, TypeOK, TypeOK', ElectionInv, NEW q \in Rounds, CancelRound(q)
  PROVE  ElectionInv'
<1>1. /\ rounds[q].status = "ProposalOpen" /\ now <= rounds[q].proposal
      /\ rounds' = [rounds EXCEPT ![q].status = "Cancelled"]
      /\ UNCHANGED <<now, roundCount, candidates, votes>>
  BY DEF CancelRound, ProposalWindow
<1>2. rounds \in [Rounds -> Round] /\ rounds[q] \in Round
  BY DEF TypeOK
<1>3. /\ rounds'[q].creator = rounds[q].creator /\ rounds'[q].status = "Cancelled"
      /\ rounds'[q].proposal = rounds[q].proposal /\ rounds'[q].vote = rounds[q].vote
      /\ rounds'[q].winner = rounds[q].winner /\ rounds'[q].settled = rounds[q].settled
      /\ \A r \in Rounds \ {q} : rounds'[r] = rounds[r]
  BY <1>1, <1>2 DEF Round
<1>4. \A v \in Members : ~Cast(q, v)
  BY <1>1, NobodyBefore
<1>5. Lives'
  BY <1>1, <1>3 DEF ElectionInv, Lives
<1>6. Lists'
  <2>1. \A r \in Rounds : rounds'[r].creator = rounds[r].creator
    BY <1>3
  <2>. QED  BY <1>1, <2>1 DEF ElectionInv, Lists
<1>7. CastWell'
  BY <1>1, <1>3, <1>4 DEF ElectionInv, CastWell, Cast
<1>8. TalliesMatchRecords'
  BY <1>1 DEF ElectionInv, TalliesMatchRecords, BallotsOf
<1>. QED  BY <1>5, <1>6, <1>7, <1>8 DEF ElectionInv

LEMMA SettleKeepsElection ==
  ASSUME ConstantsOK, TypeOK, TypeOK', ElectionInv, NEW q \in Rounds, SettleRound(q)
  PROVE  ElectionInv'
<1>1. /\ rounds[q].creator # NoOne /\ now > rounds[q].vote /\ ~rounds[q].settled
      /\ UNCHANGED <<now, roundCount, candidates, votes>>
  BY DEF SettleRound
<1>2. PICK w \in Nat, s \in {"VotingClosedFailed", "VotingClosedSuccess"} :
        /\ rounds' = [rounds EXCEPT ![q] = Settled(rounds[q], w, s)]
        /\ w # 0 => s = "VotingClosedSuccess"
  <2>1. rounds[q].winner \in Nat
    BY DEF TypeOK, Round
  <2>2. rounds[q].winner = 0
    BY <1>1 DEF ElectionInv, Lives
  <2>. QED  BY <2>1, <2>2, SettleTypes, WinnerFound
<1>3. /\ rounds'[q].creator = rounds[q].creator /\ rounds'[q].status = s
      /\ rounds'[q].proposal = rounds[q].proposal /\ rounds'[q].vote = rounds[q].vote
      /\ rounds'[q].winner = w /\ rounds'[q].settled = TRUE
      /\ \A r \in Rounds \ {q} : rounds'[r] = rounds[r]
  BY <1>2 DEF Settled, TypeOK
<1>4. Lives'
  BY <1>1, <1>2, <1>3 DEF ElectionInv, Lives
<1>5. Lists'
  <2>1. \A r \in Rounds : rounds'[r].creator = rounds[r].creator
    BY <1>3
  <2>. QED  BY <1>1, <2>1 DEF ElectionInv, Lists
<1>6. CastWell'
  BY <1>1, <1>3 DEF ElectionInv, CastWell, Cast
<1>7. TalliesMatchRecords'
  BY <1>1 DEF ElectionInv, TalliesMatchRecords, BallotsOf
<1>. QED  BY <1>4, <1>5, <1>6, <1>7 DEF ElectionInv

LEMMA InitElection == ConstantsOK /\ Init => ElectionInv
<1>. SUFFICES ASSUME ConstantsOK, Init  PROVE ElectionInv
  OBVIOUS
<1>1. \A r \in Rounds : r \in Nat /\ r >= 1
  BY ConstantTypes DEF Rounds
<1>2. \A r \in Rounds : rounds[r] = NoRound /\ candidates[r] = <<>>
        /\ \A m \in Members : votes[r][m] = 0
  BY DEF Init
<1>3. Lives
  BY <1>1, <1>2 DEF Init, Lives, NoRound
<1>4. Lists
  BY <1>2 DEF Lists
<1>5. CastWell
  BY <1>2 DEF CastWell, Cast
<1>6. TalliesMatchRecords
  BY <1>2 DEF TalliesMatchRecords
<1>. QED  BY <1>3, <1>4, <1>5, <1>6 DEF ElectionInv

LEMMA ElectionInductive ==
  ConstantsOK /\ TypeOK /\ ElectionInv /\ [Next]_vars => ElectionInv'
<1>. SUFFICES ASSUME ConstantsOK, TypeOK, ElectionInv, [Next]_vars  PROVE ElectionInv'
  OBVIOUS
<1>0. TypeOK' /\ now \in Nat
  BY TypesInductive, ConstantTypes DEF TypeOK
<1>1. CASE UNCHANGED vars
  BY <1>0, <1>1, IdleKeepsElection DEF vars, roundVars
<1>2. ASSUME NEW m \in Members, NEW day \in DayKeys, ClaimDailyCoupons(m, day)
      PROVE  ElectionInv'
  BY <1>0, <1>2, IdleKeepsElection DEF ClaimDailyCoupons, roundVars
<1>3. ASSUME NEW m \in Members, SubscribeMonthly(m) \/ CancelSubscription(m)
      PROVE  ElectionInv'
  BY <1>0, <1>3, IdleKeepsElection DEF SubscribeMonthly, CancelSubscription, roundVars
<1>4. ASSUME NEW p \in ParamSets, SetGovernanceParams(p)  PROVE ElectionInv'
  BY <1>0, <1>4, IdleKeepsElection DEF SetGovernanceParams, roundVars
<1>5. CASE Tick
  BY <1>0, <1>5, IdleKeepsElection DEF Tick, roundVars
<1>. QED  BY <1>0, <1>1, <1>2, <1>3, <1>4, <1>5, Steps, CreateKeepsElection,
             ProposeKeepsElection, CastKeepsElection, CancelKeepsElection, SettleKeepsElection

(* The state of the contract is always well typed: a count fits its 24      *)
(* bits, a member proposes at most two merchants and takes no coupon that   *)
(* is not there.                                                            *)
THEOREM GovernanceTypes == ASSUME ConstantsOK PROVE Spec => []TypeOK
<1>1. Init => TypeOK
  BY InitTypes
<1>2. TypeOK /\ [Next]_vars => TypeOK'
  BY TypesInductive
<1>. QED  BY <1>1, <1>2, PTL DEF Spec

LEMMA ElectionInvariant == ASSUME ConstantsOK PROVE Spec => [](TypeOK /\ ElectionInv)
<1>1. Init => TypeOK /\ ElectionInv
  BY InitTypes, InitElection
<1>2. TypeOK /\ ElectionInv /\ [Next]_vars => TypeOK' /\ ElectionInv'
  BY TypesInductive, ElectionInductive
<1>. QED  BY <1>1, <1>2, PTL DEF Spec

-----------------------------------------------------------------------------
(* A round is an election.                                                  *)
AllStages == [r \in Rounds |-> Stage(r)]
AllListed == [r \in Rounds |-> Len(candidates[r])]
AllBallots == [r \in Rounds |-> BallotsOf(r)]
AllWinners == [r \in Rounds |-> rounds[r].winner]

LEMMA StageOf ==
  ASSUME TypeOK, Lives, NEW r \in Rounds
  PROVE  /\ Stage(r) = "none" <=> rounds[r].creator = NoOne
         /\ Stage(r) = "open" <=> rounds[r].status = "ProposalOpen"
         /\ Stage(r) = "cancelled" <=> rounds[r].status = "Cancelled"
         /\ Stage(r) = "failed" <=> rounds[r].status = "VotingClosedFailed"
         /\ Stage(r) = "elected" <=> rounds[r].status = "VotingClosedSuccess"
         /\ Stage(r) \in {"none", "open", "cancelled", "failed", "elected"}
<1>1. rounds[r].status \in Statuses /\ (rounds[r].creator = NoOne <=> rounds[r].status = "Created")
  BY DEF TypeOK, Round, Lives
<1>. QED  BY <1>1 DEF Stage, Statuses

(* Whether a ballot was cast shows in the ballot.                           *)
LEMMA BallotShows ==
  ASSUME ConstantsOK, TypeOK, CastWell, NEW r \in Rounds, NEW m \in Members
  PROVE  /\ RoundElection!HasVoted(r, m) <=> Cast(r, m)
         /\ Cast(r, m) => BallotsOf(r)[m].count > 0
                          /\ BallotsOf(r)[m].candidate \in DOMAIN candidates[r]
<1>1. BallotsOf(r)[m] = DecodeVote(votes[r][m])
  BY DEF BallotsOf
<1>2. ~Cast(r, m) => BallotsOf(r)[m] = [candidate |-> 0, count |-> 0]
  BY BallotTypes
<1>3. Cast(r, m) => BallotsOf(r)[m].count > 0 /\ BallotsOf(r)[m].candidate \in DOMAIN candidates[r]
  BY <1>1 DEF CastWell
<1>4. Cast(r, m) => BallotsOf(r)[m] # [candidate |-> 0, count |-> 0]
  <2>1. \A b : b = [candidate |-> 0, count |-> 0] => ~(b.count > 0)
    OBVIOUS
  <2>. QED  BY <1>3, <2>1
<1>5. RoundElection!HasVoted(r, m) <=> BallotsOf(r)[m] # [candidate |-> 0, count |-> 0]
  BY DEF RoundElection!HasVoted, RoundElection!NoBallot
<1>. QED  BY <1>2, <1>3, <1>4, <1>5

(* The sums of Election are those of Governance.                            *)
LEMMA SameSum ==
  ASSUME NEW f, NEW S
  PROVE  RoundElection!SumFunctionOnSet(f, S) = SumFunctionOnSet(f, S)
<1>. QED  BY DEF RoundElection!SumFunctionOnSet, SumFunctionOnSet,
     RoundElection!FoldFunctionOnSet, FoldFunctionOnSet,
     RoundElection!MapThenFoldSet, MapThenFoldSet

LEMMA CountsAreVotes ==
  ASSUME TalliesMatchRecords, NEW r \in Rounds, NEW c \in DOMAIN candidates[r]
  PROVE  RoundElection!VotesFor(r, c) = candidates[r][c].votes
<1>1. [v \in Members |-> AllBallots[r][v].count] = [m \in Members |-> BallotsOf(r)[m].count]
      /\ {v \in Members : AllBallots[r][v].candidate = c}
           = {m \in Members : BallotsOf(r)[m].candidate = c}
  BY DEF AllBallots
<1>2. candidates[r][c].votes = SumFunctionOnSet([m \in Members |-> BallotsOf(r)[m].count],
                                  {m \in Members : BallotsOf(r)[m].candidate = c})
  BY DEF TalliesMatchRecords
<1>3. RoundElection!VotesFor(r, c) =
        RoundElection!SumFunctionOnSet([v \in Members |-> AllBallots[r][v].count],
                                       {v \in Members : AllBallots[r][v].candidate = c})
  BY DEF RoundElection!VotesFor, AllBallots
<1>. QED  BY <1>1, <1>2, <1>3, SameSum

(* What a step on one round does to the election.                           *)
LEMMA OneRound ==
  ASSUME NEW q \in Rounds, \A r \in Rounds \ {q} : rounds'[r] = rounds[r]
  PROVE  /\ AllStages' = [AllStages EXCEPT ![q] = Stage(q)']
         /\ AllWinners' = [AllWinners EXCEPT ![q] = rounds'[q].winner]
<1>1. \A r \in Rounds \ {q} : Stage(r)' = Stage(r)
  BY DEF Stage
<1>2. AllStages' = [r \in Rounds |-> Stage(r)']
  BY DEF AllStages
<1>3. \A r \in Rounds : [AllStages EXCEPT ![q] = Stage(q)'][r] = Stage(r)'
  BY <1>1 DEF AllStages
<1>. QED  BY <1>2, <1>3 DEF AllStages, AllWinners

LEMMA SameBallots ==
  ASSUME votes' = votes
  PROVE  AllBallots' = AllBallots /\ \A r \in Rounds : BallotsOf(r)' = BallotsOf(r)
<1>. QED  BY DEF AllBallots, BallotsOf

LEMMA CreateOpens ==
  ASSUME ConstantsOK, TypeOK, TypeOK', ElectionInv, ElectionInv', NEW m \in Members,
         NEW keys \in InitialKeys, NEW coupon \in BOOLEAN, NEW free \in SUBSET DOMAIN keys,
         CreateRound(m, keys, coupon, free)
  PROVE  RoundElection!Next
<1>0. PICK q \in Rounds : q = roundCount + 1
  BY DEF CreateRound
<1>1. q \in Rounds /\ roundCount \in Nat /\ m # NoOne /\ ~(q <= roundCount)
  BY <1>0, ConstantTypes DEF TypeOK
<1>2. /\ rounds'[q].creator = m /\ rounds'[q].status = "ProposalOpen" /\ rounds'[q].winner = 0
      /\ \A r \in Rounds \ {q} : rounds'[r] = rounds[r]
  BY <1>0, <1>1 DEF CreateRound, TypeOK
<1>3. candidates' = [candidates EXCEPT ![q] = [i \in DOMAIN keys |-> Candidate(keys[i])]]
  BY <1>0 DEF CreateRound
<1>4. votes' = votes /\ Len(keys) \in 1..2
  BY DEF CreateRound
<1>5. rounds[q].creator = NoOne /\ rounds[q].winner = 0
  <2>1. rounds[q].creator = NoOne
    BY <1>1 DEF ElectionInv, Lives
  <2>. QED  BY <2>1 DEF ElectionInv, Lives
<1>6. AllStages[q] = "none" /\ Stage(q)' = "open"
  <2>1. AllStages[q] = Stage(q) /\ Stage(q) = "none"
    BY <1>5, StageOf DEF AllStages, ElectionInv
  <2>2. Stage(q)' = "open"
    BY <1>1, <1>2 DEF Stage
  <2>. QED  BY <2>1, <2>2
<1>7. AllStages' = [AllStages EXCEPT ![q] = "open"] /\ AllWinners' = AllWinners
  <2>1. /\ AllStages' = [AllStages EXCEPT ![q] = Stage(q)']
        /\ AllWinners' = [AllWinners EXCEPT ![q] = rounds'[q].winner]
    BY <1>1, <1>2, OneRound
  <2>. QED  BY <1>1, <1>2, <1>5, <1>6, <2>1 DEF AllWinners
<1>8. AllListed' = [AllListed EXCEPT ![q] = Len(keys)]
  <2>1. keys \in Seq(Merchants) /\ DOMAIN keys = 1..Len(keys) /\ Len(keys) \in Nat
    BY KeysTypes
  <2>2. Len([i \in DOMAIN keys |-> Candidate(keys[i])]) = Len(keys)
    BY <2>1
  <2>3. candidates \in [Rounds -> Seq(CandidateRow)]
    BY DEF TypeOK
  <2>4. \A r \in Rounds : Len(candidates'[r]) = IF r = q THEN Len(keys) ELSE Len(candidates[r])
    BY <1>1, <1>3, <2>2, <2>3
  <2>. QED  BY <2>4 DEF AllListed
<1>9. AllBallots' = AllBallots
  BY <1>4, SameBallots
<1>10. RoundElection!Open(q, Len(keys))
  BY <1>6, <1>7, <1>8, <1>9 DEF RoundElection!Open, AllStages, AllWinners, AllListed, AllBallots
<1>. QED  BY <1>1, <1>4, <1>10 DEF RoundElection!Next

LEMMA ProposeNominates ==
  ASSUME ConstantsOK, TypeOK, TypeOK', ElectionInv, ElectionInv', NEW m \in Members,
         NEW q \in Rounds, NEW key \in Merchants, NEW coupon \in BOOLEAN,
         ProposeMerchant(m, q, key, coupon)
  PROVE  RoundElection!Next
<1>1. /\ rounds[q].creator # NoOne /\ now <= rounds[q].proposal
      /\ UNCHANGED <<rounds, votes>>
  BY DEF ProposeMerchant, ProposalWindow
<1>2. Lives /\ CastWell
  BY DEF ElectionInv
<1>3. AllStages[q] \in {"open", "cancelled"}
  <2>1. now \in Nat /\ rounds[q].proposal \in Nat /\ rounds[q].vote \in Nat
    <3>1. now \in Nat
      BY ConstantTypes DEF TypeOK
    <3>. QED  BY <3>1 DEF TypeOK, Round
  <2>2. ~rounds[q].settled
    BY <1>1, <1>2, <2>1 DEF Lives
  <2>3. Stage(q) \notin {"none", "failed", "elected"}
    BY <1>1, <1>2, <2>2, StageOf DEF Lives
  <2>. QED  BY <1>2, <2>3, StageOf DEF AllStages
<1>4. RoundElection!NobodyVoted(q)
  BY <1>1, <1>2, NobodyBefore, BallotShows DEF RoundElection!NobodyVoted
<1>5. AllListed' = [AllListed EXCEPT ![q] = AllListed[q] + 1]
  <2>1. candidates \in [Rounds -> Seq(CandidateRow)]
    BY DEF TypeOK
  <2>2. candidates' = [candidates EXCEPT ![q] = Append(candidates[q], Candidate(key))]
    BY DEF ProposeMerchant
  <2>3. Len(Append(candidates[q], Candidate(key))) = Len(candidates[q]) + 1
    BY <2>1
  <2>. QED  BY <2>1, <2>2, <2>3 DEF AllListed
<1>6. AllStages' = AllStages /\ AllWinners' = AllWinners
  BY <1>1 DEF AllStages, AllWinners, Stage
<1>7. AllBallots' = AllBallots
  BY <1>1, SameBallots
<1>8. RoundElection!Nominate(q)
  BY <1>3, <1>4, <1>5, <1>6, <1>7
     DEF RoundElection!Nominate, AllStages, AllWinners, AllListed, AllBallots
<1>. QED  BY <1>8 DEF RoundElection!Next

LEMMA CastCasts ==
  ASSUME ConstantsOK, TypeOK, TypeOK', ElectionInv, ElectionInv', NEW m \in Members,
         NEW q \in Rounds, NEW c \in DOMAIN candidates[q], NEW n \in VoteCounts,
         NEW coupon \in BOOLEAN, CastVote(m, q, c, n, coupon)
  PROVE  RoundElection!Next
<1>1. rounds[q].status = "ProposalOpen" /\ votes[q][m] = 0 /\ UNCHANGED rounds
  BY DEF CastVote
<1>2. Lives /\ CastWell /\ Lists
  BY DEF ElectionInv
<1>3. AllStages[q] = "open"
  BY <1>1, <1>2, StageOf DEF AllStages
<1>4. ~RoundElection!HasVoted(q, m)
  BY <1>1, <1>2, BallotShows DEF Cast
<1>5. c \in 1..AllListed[q]
  BY TotalVotesType DEF AllListed
<1>6. AllStages' = AllStages /\ AllWinners' = AllWinners
  BY <1>1 DEF AllStages, AllWinners, Stage
<1>7. AllListed' = AllListed
  <2>1. \A r \in Rounds : Len(candidates'[r]) = Len(candidates[r])
    <3>. DEFINE row == WithVotes(candidates[q][c], candidates[q][c].votes + n)
    <3>1. /\ candidates[q] \in Seq(CandidateRow)
          /\ candidates' = [candidates EXCEPT ![q] = [candidates[q] EXCEPT ![c] = row]]
      BY CastVoteEffect
    <3>. HIDE DEF row
    <3>2. Len([candidates[q] EXCEPT ![c] = row]) = Len(candidates[q])
      BY <3>1
    <3>. QED  BY <3>1, <3>2 DEF TypeOK
  <2>. QED  BY <2>1 DEF AllListed
<1>8. AllBallots' = [AllBallots EXCEPT ![q][m] = [candidate |-> c, count |-> n]]
  <2>. DEFINE b == [candidate |-> c, count |-> n]
  <2>1. /\ BallotsOf(q)'[m] = b
        /\ \A v \in Members \ {m} : BallotsOf(q)'[v] = BallotsOf(q)[v]
        /\ \A r \in Rounds \ {q} : BallotsOf(r)' = BallotsOf(r)
    BY <1>2, BallotsAfterVote
  <2>2. BallotsOf(q)' = [v \in Members |-> BallotsOf(q)'[v]]
        /\ BallotsOf(q) = [v \in Members |-> BallotsOf(q)[v]]
    BY DEF BallotsOf
  <2>. HIDE DEF b
  <2>3. BallotsOf(q)' = [BallotsOf(q) EXCEPT ![m] = b]
    BY <2>1, <2>2
  <2>4. AllBallots' = [r \in Rounds |-> BallotsOf(r)']
    BY DEF AllBallots
  <2>5. \A r \in Rounds : [AllBallots EXCEPT ![q] = [BallotsOf(q) EXCEPT ![m] = b]][r]
                            = BallotsOf(r)'
    BY <2>1, <2>3 DEF AllBallots
  <2>6. AllBallots' = [AllBallots EXCEPT ![q] = [BallotsOf(q) EXCEPT ![m] = b]]
    BY <2>4, <2>5 DEF AllBallots
  <2>. QED  BY <2>6 DEF b, AllBallots
<1>9. RoundElection!Cast(q, m, c, n)
  BY <1>3, <1>4, <1>5, <1>6, <1>7, <1>8
     DEF RoundElection!Cast, AllStages, AllWinners, AllListed, AllBallots
<1>. QED  BY <1>5, <1>9 DEF RoundElection!Next, AllListed

LEMMA CancelCancels ==
  ASSUME ConstantsOK, TypeOK, TypeOK', ElectionInv, ElectionInv', NEW q \in Rounds,
         CancelRound(q)
  PROVE  RoundElection!Next
<1>1. /\ rounds[q].status = "ProposalOpen" /\ now <= rounds[q].proposal
      /\ rounds' = [rounds EXCEPT ![q].status = "Cancelled"]
      /\ UNCHANGED <<candidates, votes>>
  BY DEF CancelRound, ProposalWindow
<1>2. Lives /\ CastWell /\ Lives'
  BY DEF ElectionInv
<1>3. /\ rounds'[q].status = "Cancelled" /\ rounds'[q].winner = rounds[q].winner
      /\ rounds'[q].creator = rounds[q].creator
      /\ \A r \in Rounds \ {q} : rounds'[r] = rounds[r]
  BY <1>1 DEF TypeOK, Round
<1>4. AllStages[q] = "open" /\ Stage(q)' = "cancelled"
  <2>1. Stage(q) = "open"
    BY <1>1, <1>2, StageOf
  <2>2. rounds[q].creator # NoOne
    BY <1>1, <1>2 DEF Lives
  <2>3. Stage(q)' = "cancelled"
    BY <1>3, <2>2 DEF Stage
  <2>. QED  BY <2>1, <2>3 DEF AllStages
<1>5. AllStages' = [AllStages EXCEPT ![q] = "cancelled"] /\ AllWinners' = AllWinners
  <2>1. /\ AllStages' = [AllStages EXCEPT ![q] = Stage(q)']
        /\ AllWinners' = [AllWinners EXCEPT ![q] = rounds'[q].winner]
    BY <1>3, OneRound
  <2>. QED  BY <1>3, <1>4, <2>1 DEF AllWinners
<1>6. RoundElection!NobodyVoted(q)
  BY <1>1, <1>2, NobodyBefore, BallotShows DEF RoundElection!NobodyVoted
<1>7. AllListed' = AllListed /\ AllBallots' = AllBallots
  BY <1>1, SameBallots DEF AllListed
<1>8. RoundElection!Cancel(q)
  BY <1>4, <1>5, <1>6, <1>7 DEF RoundElection!Cancel, AllStages, AllWinners, AllListed, AllBallots
<1>. QED  BY <1>8 DEF RoundElection!Next

(* The winner the loop finds has the most votes, and among equals it is the *)
(* first: candidates are listed in the order of their times.                *)
LEMMA WinnerWins ==
  ASSUME ConstantsOK, TypeOK, ElectionInv, NEW q \in Rounds, candidates[q] # <<>>
  PROVE  RoundElection!Wins(q, FindWinner(q))
<1>. DEFINE w == FindWinner(q)
            D == DOMAIN candidates[q]
<1>1. w \in D /\ \A d \in D : Beats(q, w, d)
  BY WinnerFound
<1>2. D = 1..AllListed[q] /\ \A d \in D : candidates[q][d].votes \in Nat /\ candidates[q][d].at \in Nat
                                           /\ d \in Nat
  <2>1. DOMAIN candidates[q] = 1..Len(candidates[q]) /\ Len(candidates[q]) \in Nat
    BY TotalVotesType
  <2>. QED  BY <2>1, TotalVotesType DEF AllListed
<1>3. \A d \in D : RoundElection!VotesFor(q, d) = candidates[q][d].votes
  BY CountsAreVotes DEF ElectionInv
<1>. HIDE DEF w
<1>4. ASSUME NEW d \in D, candidates[q][w].at < candidates[q][d].at
      PROVE  w <= d
  <2>1. d <= w => candidates[q][d].at <= candidates[q][w].at
    BY <1>1 DEF ElectionInv, Lists
  <2>2. w \in Nat /\ d \in Nat /\ candidates[q][w].at \in Nat /\ candidates[q][d].at \in Nat
    BY <1>1, <1>2
  <2>. QED  BY <1>4, <2>1, <2>2
<1>5. \A d \in D : \/ RoundElection!VotesFor(q, w) > RoundElection!VotesFor(q, d)
                   \/ RoundElection!VotesFor(q, w) = RoundElection!VotesFor(q, d) /\ w <= d
  BY <1>1, <1>2, <1>3, <1>4 DEF Beats
<1>. HIDE DEF D
<1>6. RoundElection!Wins(q, w)
  BY <1>1, <1>2, <1>5 DEF RoundElection!Wins, AllListed
<1>. QED  BY <1>6 DEF w

LEMMA SettleDecides ==
  ASSUME ConstantsOK, TypeOK, TypeOK', ElectionInv, ElectionInv', NEW q \in Rounds,
         SettleRound(q)
  PROVE  RoundElection!Next
<1>1. /\ rounds[q].creator # NoOne /\ ~rounds[q].settled /\ UNCHANGED <<candidates, votes>>
  BY DEF SettleRound
<1>2. Lives /\ CastWell /\ TalliesMatchRecords
  BY DEF ElectionInv
<1>3. AllStages[q] \in {"open", "cancelled"}
  BY <1>1, <1>2, StageOf DEF AllStages, Lives
<1>4. AllListed' = AllListed /\ AllBallots' = AllBallots
  BY <1>1, SameBallots DEF AllListed
<1>5. CASE TotalVotes(q) = 0
  <2>1. rounds' = [rounds EXCEPT ![q] =
                     Settled(rounds[q], rounds[q].winner, "VotingClosedFailed")]
    BY <1>5, SettleTypes
  <2>2. /\ rounds'[q].creator = rounds[q].creator /\ rounds'[q].status = "VotingClosedFailed"
        /\ rounds'[q].winner = rounds[q].winner
        /\ \A r \in Rounds \ {q} : rounds'[r] = rounds[r]
    BY <2>1 DEF TypeOK, Settled
  <2>3. Stage(q)' = "failed"
    BY <1>1, <2>2 DEF Stage
  <2>4. AllStages' = [AllStages EXCEPT ![q] = "failed"] /\ AllWinners' = AllWinners
    <3>1. /\ AllStages' = [AllStages EXCEPT ![q] = Stage(q)']
          /\ AllWinners' = [AllWinners EXCEPT ![q] = rounds'[q].winner]
      BY <2>2, OneRound
    <3>. QED  BY <2>2, <2>3, <3>1 DEF AllWinners
  <2>5. RoundElection!NobodyVoted(q)
    <3>1. SUFFICES ASSUME NEW m \in Members, Cast(q, m)  PROVE FALSE
      BY <1>2, BallotShows DEF RoundElection!NobodyVoted
    <3>. DEFINE c == BallotsOf(q)[m].candidate
                S == {v \in Members : BallotsOf(q)[v].candidate = c}
                f == [v \in Members |-> BallotsOf(q)[v].count]
    <3>2. c \in DOMAIN candidates[q] /\ BallotsOf(q)[m].count > 0
      BY <1>2, <3>1, BallotShows
    <3>3. candidates[q][c].votes = SumFunctionOnSet(f, S)
      BY <1>2, <3>2 DEF TalliesMatchRecords
    <3>4. candidates[q][c].votes <= 0 /\ candidates[q][c].votes \in Nat
      BY <1>5, <3>2, TotalVotesType
    <3>5. IsFiniteSet(S) /\ NatValued(f, S) /\ m \in S /\ f[m] = BallotsOf(q)[m].count
      <4>1. IsFiniteSet(S)
        BY FS_Subset DEF ConstantsOK
      <4>. QED  BY <4>1, BallotTypes DEF NatValued, IsBallots
    <3>6. f[m] <= SumFunctionOnSet(f, S)
      <4>. HIDE DEF f, S
      <4>. QED  BY <3>5, SumNat
    <3>7. f[m] \in Nat
      BY <3>5 DEF NatValued
    <3>. HIDE DEF f, S, c
    <3>. QED  BY <3>2, <3>3, <3>4, <3>5, <3>6, <3>7
  <2>6. RoundElection!Fail(q)
    BY <1>3, <1>4, <2>4, <2>5 DEF RoundElection!Fail, AllStages, AllWinners, AllListed, AllBallots
  <2>. QED  BY <2>6 DEF RoundElection!Next
<1>6. CASE TotalVotes(q) # 0
  <2>1. candidates[q] # <<>> /\ rounds' = [rounds EXCEPT ![q] =
                     Settled(rounds[q], FindWinner(q), "VotingClosedSuccess")]
    BY <1>6, SettleTypes
  <2>2. /\ rounds'[q].creator = rounds[q].creator /\ rounds'[q].status = "VotingClosedSuccess"
        /\ rounds'[q].winner = FindWinner(q)
        /\ \A r \in Rounds \ {q} : rounds'[r] = rounds[r]
    BY <2>1 DEF TypeOK, Settled
  <2>3. Stage(q)' = "elected"
    BY <1>1, <2>2 DEF Stage
  <2>4. /\ AllStages' = [AllStages EXCEPT ![q] = "elected"]
        /\ AllWinners' = [AllWinners EXCEPT ![q] = FindWinner(q)]
    <3>1. /\ AllStages' = [AllStages EXCEPT ![q] = Stage(q)']
          /\ AllWinners' = [AllWinners EXCEPT ![q] = rounds'[q].winner]
      BY <2>2, OneRound
    <3>. QED  BY <2>2, <2>3, <3>1
  <2>5. \E m \in Members : Cast(q, m)
    <3>1. SUFFICES ASSUME \A m \in Members : ~Cast(q, m)  PROVE FALSE
      OBVIOUS
    <3>2. \A i \in DOMAIN candidates[q] : i # 0
      BY TotalVotesType
    <3>3. \A m \in Members : BallotsOf(q)[m].candidate = 0
      BY <3>1, BallotTypes
    <3>4. \A i \in DOMAIN candidates[q] : candidates[q][i].votes = 0
      BY <1>2, <3>2, <3>3, TallyDef, TallyNone
    <3>5. TotalVotes(q) = 0
      <4>. DEFINE f == [i \in DOMAIN candidates[q] |-> candidates[q][i].votes]
      <4>1. IsFiniteSet(DOMAIN candidates[q])
        BY TotalVotesType
      <4>2. DOMAIN f = DOMAIN candidates[q] /\ \A i \in DOMAIN candidates[q] : f[i] = 0
        BY <3>4
      <4>3. TotalVotes(q) = SumFunctionOnSet(f, DOMAIN candidates[q])
        BY <4>2 DEF TotalVotes, SumFunction
      <4>. HIDE DEF f
      <4>. QED  BY <4>1, <4>2, <4>3, SumZero
    <3>. QED  BY <1>6, <3>5
  <2>6. ~RoundElection!NobodyVoted(q)
    BY <1>2, <2>5, BallotShows DEF RoundElection!NobodyVoted
  <2>7. AllStages[q] = "open"
    <3>1. rounds[q].status # "Cancelled"
      BY <1>2, <2>5 DEF CastWell
    <3>2. Stage(q) # "cancelled"
      BY <1>2, <3>1, StageOf
    <3>. QED  BY <1>3, <3>2 DEF AllStages
  <2>8. RoundElection!Wins(q, FindWinner(q)) /\ FindWinner(q) \in 1..AllListed[q]
    BY <2>1, WinnerWins DEF RoundElection!Wins, AllListed
  <2>9. PICK w \in 1..AllListed[q] : w = FindWinner(q)
    BY <2>8
  <2>10. RoundElection!Elect(q, w)
    BY <1>4, <2>4, <2>6, <2>7, <2>8, <2>9
       DEF RoundElection!Elect, AllStages, AllWinners, AllListed, AllBallots
  <2>. QED  BY <2>10 DEF RoundElection!Next, AllListed
<1>. QED  BY <1>5, <1>6

LEMMA IdleStutters ==
  ASSUME UNCHANGED <<rounds, candidates, votes>>
  PROVE  UNCHANGED RoundElection!electionVars
<1>. QED  BY DEF RoundElection!electionVars, Stage, BallotsOf

LEMMA StepIsElectionStep ==
  ASSUME ConstantsOK, TypeOK, ElectionInv, TypeOK', ElectionInv', [Next]_vars
  PROVE  [RoundElection!Next]_(RoundElection!electionVars)
<1>1. CASE UNCHANGED vars
  BY <1>1, IdleStutters DEF vars, roundVars
<1>2. ASSUME NEW m \in Members, NEW day \in DayKeys, ClaimDailyCoupons(m, day)
      PROVE  UNCHANGED RoundElection!electionVars
  BY <1>2, IdleStutters DEF ClaimDailyCoupons, roundVars
<1>3. ASSUME NEW m \in Members, SubscribeMonthly(m) \/ CancelSubscription(m)
      PROVE  UNCHANGED RoundElection!electionVars
  BY <1>3, IdleStutters DEF SubscribeMonthly, CancelSubscription, roundVars
<1>4. ASSUME NEW p \in ParamSets, SetGovernanceParams(p)
      PROVE  UNCHANGED RoundElection!electionVars
  BY <1>4, IdleStutters DEF SetGovernanceParams, roundVars
<1>5. CASE Tick
  BY <1>5, IdleStutters DEF Tick, roundVars
<1>. QED  BY <1>1, <1>2, <1>3, <1>4, <1>5, Steps, CreateOpens, ProposeNominates, CastCasts,
             CancelCancels, SettleDecides

LEMMA InitIsElectionInit == ConstantsOK /\ Init => RoundElection!Init
<1>. SUFFICES ASSUME ConstantsOK, Init  PROVE RoundElection!Init
  OBVIOUS
<1>1. \A r \in Rounds : rounds[r] = NoRound /\ candidates[r] = <<>>
        /\ \A m \in Members : votes[r][m] = 0
  BY DEF Init
<1>2. \A r \in Rounds : Stage(r) = "none" /\ Len(candidates[r]) = 0 /\ rounds[r].winner = 0
  BY <1>1 DEF Stage, NoRound
<1>3. \A r \in Rounds : BallotsOf(r) = [m \in Members |-> [candidate |-> 0, count |-> 0]]
  BY <1>1, DecodeZero DEF BallotsOf
<1>. QED  BY <1>2, <1>3 DEF RoundElection!Init, RoundElection!NoBallot

(* Whatever is created, proposed, voted, cancelled and settled when, the    *)
(* rounds of the contract are elections: castVote, cancelRound, _propose    *)
(* and settleRound do no more than Election allows.                         *)
THEOREM GovernanceIsElection == ASSUME ConstantsOK PROVE Spec => RoundsAreElections
<1>1. Init => RoundElection!Init
  BY InitIsElectionInit
<1>2. /\ TypeOK /\ ElectionInv /\ TypeOK' /\ ElectionInv' /\ [Next]_vars
      => [RoundElection!Next]_(RoundElection!electionVars)
  BY StepIsElectionStep
<1>3. Spec => [](TypeOK /\ ElectionInv)
  BY ElectionInvariant
<1>. QED  BY <1>1, <1>2, <1>3, PTL DEF Spec, RoundsAreElections, RoundElection!Spec

(* Nothing wraps and no field of a packed vote spills into the next.        *)
THEOREM GovernanceTallies == ASSUME ConstantsOK PROVE Spec => []TalliesMatchRecords
<1>1. TypeOK /\ ElectionInv => TalliesMatchRecords
  BY DEF ElectionInv
<1>. QED  BY <1>1, ElectionInvariant, PTL

-----------------------------------------------------------------------------
(* Coupons.                                                                 *)
LEMMA ConsumeBacked ==
  ASSUME TypeOK, CouponsBacked, NEW m \in Members,
         NEW a \in Nat, NEW b \in Nat, NEW c \in Nat, ConsumeCoupons(m, Taken(a, b, c))
  PROVE  CouponsBacked'
<1>. DEFINE taken == Taken(a, b, c)
<1>1. \A k \in Coupons : taken[k] \in Nat
  BY TakenTypes
<1>2. /\ coupons' = [coupons EXCEPT ![m].left = [k \in Coupons |-> coupons[m].left[k] - taken[k]]]
      /\ used' = [used EXCEPT ![m] = [k \in Coupons |-> used[m][k] + taken[k]]]
      /\ granted' = granted
  BY DEF ConsumeCoupons, TypeOK
<1>. HIDE DEF taken
<1>3. \A v \in Members, k \in Coupons :
        used[v][k] \in Nat /\ coupons[v].left[k] \in Nat /\ granted[v][k] \in Nat
  BY DEF TypeOK, CouponState
<1>4. \A k \in Coupons : /\ used'[m][k] = used[m][k] + taken[k]
                         /\ coupons'[m].left[k] = coupons[m].left[k] - taken[k]
  BY <1>2 DEF TypeOK, CouponState
<1>5. \A v \in Members \ {m} : used'[v] = used[v] /\ coupons'[v] = coupons[v]
  BY <1>2 DEF TypeOK
<1>6. \A k \in Coupons : used'[m][k] + coupons'[m].left[k] = used[m][k] + coupons[m].left[k]
  BY <1>1, <1>3, <1>4
<1>. QED  BY <1>2, <1>5, <1>6 DEF CouponsBacked

LEMMA ClaimBacked ==
  ASSUME ConstantsOK, TypeOK, CouponsBacked, NEW m \in Members, NEW day \in DayKeys,
         ClaimDailyCoupons(m, day)
  PROVE  CouponsBacked'
<1>1. \A k \in Coupons : params.daily[k] \in Nat
  BY ParamTypes DEF TypeOK
<1>2. \A v \in Members, k \in Coupons :
        used[v][k] \in Nat /\ coupons[v].left[k] \in Nat /\ granted[v][k] \in Nat
  BY DEF TypeOK, CouponState
<1>3. /\ coupons'[m].left = params.daily /\ used' = used
      /\ \A k \in Coupons : granted'[m][k] = granted[m][k] + params.daily[k]
      /\ \A v \in Members \ {m} : granted'[v] = granted[v] /\ coupons'[v] = coupons[v]
  BY DEF ClaimDailyCoupons, TypeOK
<1>4. \A k \in Coupons : used[m][k] <= granted[m][k]
  BY <1>2 DEF CouponsBacked
<1>5. \A k \in Coupons : used[m][k] + params.daily[k] <= granted[m][k] + params.daily[k]
  BY <1>1, <1>2, <1>4
<1>. QED  BY <1>3, <1>5 DEF CouponsBacked

LEMMA BackedInductive == ConstantsOK /\ TypeOK /\ CouponsBacked /\ [Next]_vars => CouponsBacked'
<1>. SUFFICES ASSUME ConstantsOK, TypeOK, CouponsBacked, [Next]_vars  PROVE CouponsBacked'
  OBVIOUS
<1>1. CASE UNCHANGED couponVars
  BY <1>1 DEF couponVars, CouponsBacked
<1>2. CASE UNCHANGED vars
  BY <1>1, <1>2 DEF vars
<1>3. ASSUME NEW m \in Members, SubscribeMonthly(m) \/ CancelSubscription(m)
      PROVE  UNCHANGED couponVars
  BY <1>3 DEF SubscribeMonthly, CancelSubscription
<1>4. ASSUME NEW r \in Rounds, CancelRound(r) \/ SettleRound(r)  PROVE UNCHANGED couponVars
  BY <1>4 DEF CancelRound, SettleRound
<1>5. ASSUME NEW p \in ParamSets, SetGovernanceParams(p)  PROVE UNCHANGED couponVars
  BY <1>5 DEF SetGovernanceParams
<1>6. CASE Tick
  BY <1>1, <1>6 DEF Tick
<1>7. ASSUME NEW m \in Members, NEW keys \in InitialKeys, NEW coupon \in BOOLEAN,
             NEW free \in SUBSET DOMAIN keys, CreateRound(m, keys, coupon, free)
      PROVE  CouponsBacked'
  <2>1. ConsumeCoupons(m, Taken(One(coupon), Cardinality(free), 0)) /\ One(coupon) \in Nat
    BY <1>7 DEF CreateRound, One
  <2>2. Cardinality(free) \in Nat
    BY FreeKeys
  <2>. QED  BY <2>1, <2>2, ConsumeBacked
<1>8. ASSUME NEW m \in Members, NEW r \in Rounds, NEW coupon \in BOOLEAN,
             \/ \E key \in Merchants : ProposeMerchant(m, r, key, coupon)
             \/ \E c \in DOMAIN candidates[r], n \in VoteCounts : CastVote(m, r, c, n, coupon)
      PROVE  CouponsBacked'
  <2>1. One(coupon) \in Nat /\ (\/ ConsumeCoupons(m, Taken(0, One(coupon), 0))
                                \/ ConsumeCoupons(m, Taken(0, 0, One(coupon))))
    BY <1>8 DEF ProposeMerchant, CastVote, One
  <2>. QED  BY <2>1, ConsumeBacked
<1>. QED  BY <1>1, <1>2, <1>3, <1>4, <1>5, <1>6, <1>7, <1>8, Steps, ClaimBacked

(* No coupon is spent that was not granted, however often a member claims.  *)
THEOREM GovernanceCoupons == ASSUME ConstantsOK PROVE Spec => []CouponsBacked
<1>1. Init => CouponsBacked
  BY DEF Init, CouponsBacked, NoCoupons
<1>2. TypeOK /\ CouponsBacked /\ [Next]_vars => CouponsBacked'
  BY BackedInductive
<1>. QED  BY <1>1, <1>2, GovernanceTypes, PTL DEF Spec

-----------------------------------------------------------------------------
(* Fees: what a list of candidates costs, what coupons are worth, and how   *)
(* a step changes either, for parameters p that set the fees.               *)
VotesIn(list) == SumFunctionOnSet([i \in DOMAIN list |-> list[i].votes], DOMAIN list)
ListCost(list, p) == Len(list) * p.proposalFee + VotesIn(list) * p.voteFee
TotalCost(lists, p) == SumFunctionOnSet([r \in Rounds |-> ListCost(lists[r], p)], Rounds)
Worth(taken, p) == taken["create"] * p.createFee
  + taken["proposal"] * p.proposalFee + taken["vote"] * p.voteFee
TotalWorth(u, p) == SumFunctionOnSet([m \in Members |-> Worth(u[m], p)], Members)

FeesFixed ==
  \A p, q \in ParamSets : p.createFee = q.createFee /\ p.proposalFee = q.proposalFee
     /\ p.voteFee = q.voteFee /\ p.subscriptionFee = q.subscriptionFee
Balanced(p) ==
  balance + TotalWorth(used, p)
    = roundCount * p.createFee + subscriptions * p.subscriptionFee + TotalCost(candidates, p)

LEMMA Products ==
  ASSUME NEW x \in Nat, NEW y \in Nat
  PROVE  x * y \in Nat /\ (x + 1) * y = x * y + y
<1>. QED  OBVIOUS

(* Both sides of the books grow by the same amount.                         *)
LEMMA StaysEven ==
  ASSUME NEW ether \in Int, NEW worth \in Int, NEW rows \in Int, NEW cost \in Int,
         ether + worth = rows + cost,
         NEW fee \in Int, NEW taken \in Int, NEW fixed \in Int, NEW more \in Int,
         fee + taken = fixed + more
  PROVE  (ether + fee) + (worth + taken) = (rows + fixed) + (cost + more)
<1>. QED  OBVIOUS

LEMMA ListTypes ==
  ASSUME ConstantsOK, NEW list \in Seq(CandidateRow)
  PROVE  /\ DOMAIN list = 1..Len(list) /\ Len(list) \in Nat /\ IsFiniteSet(DOMAIN list)
         /\ \A i \in DOMAIN list : list[i] \in CandidateRow /\ list[i].votes \in Nat
         /\ VotesIn(list) \in Nat
<1>1. DOMAIN list = 1..Len(list) /\ Len(list) \in Nat
  OBVIOUS
<1>2. IsFiniteSet(DOMAIN list)
  BY <1>1, FS_Interval
<1>3. \A i \in DOMAIN list : list[i] \in CandidateRow
  OBVIOUS
<1>4. \A i \in DOMAIN list : list[i].votes \in Nat
  BY <1>3, ConstantTypes DEF CandidateRow
<1>. DEFINE f == [i \in DOMAIN list |-> list[i].votes]
<1>5. NatValued(f, DOMAIN list)
  BY <1>4 DEF NatValued
<1>6. VotesIn(list) = SumFunctionOnSet(f, DOMAIN list)
  BY DEF VotesIn
<1>. HIDE DEF f
<1>7. VotesIn(list) \in Nat
  BY <1>2, <1>5, <1>6, SumNat
<1>. QED  BY <1>1, <1>2, <1>3, <1>4, <1>7

LEMMA VotesFresh ==
  ASSUME NEW list, IsFiniteSet(DOMAIN list), \A i \in DOMAIN list : list[i].votes = 0
  PROVE  VotesIn(list) = 0
<1>. DEFINE f == [i \in DOMAIN list |-> list[i].votes]
<1>1. \A i \in DOMAIN list : f[i] = 0
  OBVIOUS
<1>2. VotesIn(list) = SumFunctionOnSet(f, DOMAIN list)
  BY DEF VotesIn
<1>. HIDE DEF f
<1>. QED  BY <1>1, <1>2, SumZero

LEMMA VotesAppend ==
  ASSUME ConstantsOK, NEW list \in Seq(CandidateRow), NEW row \in CandidateRow, row.votes = 0
  PROVE  VotesIn(Append(list, row)) = VotesIn(list)
<1>. DEFINE more == Append(list, row)
            n == Len(list) + 1
            f == [i \in DOMAIN list |-> list[i].votes]
            g == [i \in DOMAIN more |-> more[i].votes]
<1>1. /\ DOMAIN list = 1..Len(list) /\ Len(list) \in Nat /\ IsFiniteSet(DOMAIN list)
      /\ \A i \in DOMAIN list : list[i].votes \in Nat
  BY ListTypes
<1>2. more \in Seq(CandidateRow) /\ DOMAIN more = 1..n /\ more[n] = row
      /\ \A i \in DOMAIN list : more[i] = list[i]
  BY <1>1
<1>3. IsFiniteSet(DOMAIN more) /\ \A i \in DOMAIN more : more[i].votes \in Nat
  BY <1>2, ListTypes
<1>4. n \in DOMAIN more /\ DOMAIN more \ {n} = DOMAIN list
  BY <1>1, <1>2
<1>5. IntValued(f, DOMAIN list) /\ IntValued(g, DOMAIN more)
      /\ g[n] = 0 /\ \A i \in DOMAIN list : f[i] = g[i]
  BY <1>1, <1>2, <1>3, <1>4 DEF IntValued
<1>6. VotesIn(list) = SumFunctionOnSet(f, DOMAIN list)
      /\ VotesIn(more) = SumFunctionOnSet(g, DOMAIN more)
  BY DEF VotesIn
<1>. HIDE DEF f, g, more, n
<1>7. SumFunctionOnSet(f, DOMAIN list) = SumFunctionOnSet(g, DOMAIN list)
  BY <1>1, <1>5, SumAgree
<1>8. /\ SumFunctionOnSet(g, DOMAIN list) \in Int
      /\ SumFunctionOnSet(g, DOMAIN more) = g[n] + SumFunctionOnSet(g, DOMAIN list)
  BY <1>3, <1>4, <1>5, SumStep
<1>9. VotesIn(more) = VotesIn(list)
  BY ONLY <1>5, <1>6, <1>7, <1>8
<1>. QED  BY <1>9 DEF more

LEMMA VotesUpdate ==
  ASSUME ConstantsOK, NEW list \in Seq(CandidateRow), NEW c \in DOMAIN list,
         NEW row \in CandidateRow
  PROVE  VotesIn([list EXCEPT ![c] = row]) = VotesIn(list) - list[c].votes + row.votes
<1>. DEFINE new == [list EXCEPT ![c] = row]
            D == DOMAIN list
            f == [i \in D |-> list[i].votes]
            g == [i \in D |-> new[i].votes]
<1>1. IsFiniteSet(D) /\ \A i \in D : list[i].votes \in Nat
  BY ListTypes
<1>2. row.votes \in Nat
  BY ConstantTypes DEF CandidateRow
<1>3. DOMAIN new = D /\ new[c] = row /\ \A i \in D \ {c} : new[i] = list[i]
  OBVIOUS
<1>4. IntValued(f, D) /\ IntValued(g, D) /\ \A i \in D \ {c} : g[i] = f[i]
  BY <1>1, <1>2, <1>3 DEF IntValued
<1>5. f[c] = list[c].votes /\ g[c] = row.votes
  BY <1>3
<1>6. VotesIn(list) = SumFunctionOnSet(f, D) /\ VotesIn(new) = SumFunctionOnSet(g, D)
  BY <1>3 DEF VotesIn
<1>7. c \in D
  OBVIOUS
<1>. HIDE DEF f, g, D
<1>8. SumFunctionOnSet(g, D) = SumFunctionOnSet(f, D) - f[c] + g[c]
  BY <1>1, <1>4, <1>7, SumUpdate
<1>. QED  BY <1>5, <1>6, <1>8

LEMMA CostTypes ==
  ASSUME ConstantsOK, NEW p \in ParamSets, NEW list \in Seq(CandidateRow)
  PROVE  ListCost(list, p) \in Nat
<1>1. p.proposalFee \in Nat /\ p.voteFee \in Nat
  BY ParamTypes
<1>2. Len(list) \in Nat /\ VotesIn(list) \in Nat
  BY ListTypes
<1>. QED  BY <1>1, <1>2 DEF ListCost

LEMMA CostType ==
  ASSUME ConstantsOK, NEW p \in ParamSets, NEW lists \in [Rounds -> Seq(CandidateRow)]
  PROVE  TotalCost(lists, p) \in Int
<1>. DEFINE f == [r \in Rounds |-> ListCost(lists[r], p)]
<1>1. \A r \in Rounds : ListCost(lists[r], p) \in Nat
  BY CostTypes
<1>2. IntValued(f, Rounds) /\ IsFiniteSet(Rounds)
  BY <1>1, ConstantTypes, FS_Interval DEF IntValued, Rounds
<1>3. TotalCost(lists, p) = SumFunctionOnSet(f, Rounds)
  BY DEF TotalCost
<1>. HIDE DEF f
<1>. QED  BY <1>2, <1>3, SumStep

LEMMA CostUpdate ==
  ASSUME ConstantsOK, NEW p \in ParamSets, NEW lists \in [Rounds -> Seq(CandidateRow)],
         NEW q \in Rounds, NEW list \in Seq(CandidateRow)
  PROVE  /\ TotalCost(lists, p) \in Int
         /\ TotalCost([lists EXCEPT ![q] = list], p)
              = TotalCost(lists, p) - ListCost(lists[q], p) + ListCost(list, p)
<1>. DEFINE new == [lists EXCEPT ![q] = list]
            f == [r \in Rounds |-> ListCost(lists[r], p)]
            g == [r \in Rounds |-> ListCost(new[r], p)]
<1>1. \A r \in Rounds : lists[r] \in Seq(CandidateRow) /\ new[r] \in Seq(CandidateRow)
  OBVIOUS
<1>2. \A r \in Rounds : ListCost(lists[r], p) \in Nat /\ ListCost(new[r], p) \in Nat
  BY <1>1, CostTypes
<1>3. IntValued(f, Rounds) /\ IntValued(g, Rounds)
  BY <1>2 DEF IntValued
<1>4. \A r \in Rounds \ {q} : g[r] = f[r]
  OBVIOUS
<1>5. f[q] = ListCost(lists[q], p) /\ g[q] = ListCost(list, p)
  OBVIOUS
<1>6. IsFiniteSet(Rounds)
  BY ConstantTypes, FS_Interval DEF Rounds
<1>7. TotalCost(lists, p) = SumFunctionOnSet(f, Rounds)
      /\ TotalCost(new, p) = SumFunctionOnSet(g, Rounds)
  BY DEF TotalCost
<1>. HIDE DEF f, g, new
<1>8. SumFunctionOnSet(f, Rounds) \in Int
  BY <1>3, <1>6, SumStep
<1>9. SumFunctionOnSet(g, Rounds) = SumFunctionOnSet(f, Rounds) - f[q] + g[q]
  BY <1>3, <1>4, <1>6, SumUpdate
<1>. QED  BY <1>5, <1>7, <1>8, <1>9 DEF new

LEMMA WorthType ==
  ASSUME ConstantsOK, NEW p \in ParamSets, NEW u \in [Members -> [Coupons -> Nat]]
  PROVE  TotalWorth(u, p) \in Int
<1>. DEFINE f == [v \in Members |-> Worth(u[v], p)]
<1>1. p.createFee \in Nat /\ p.proposalFee \in Nat /\ p.voteFee \in Nat
  BY ParamTypes
<1>2. \A v \in Members : Worth(u[v], p) \in Nat
  <2>1. \A v \in Members : u[v]["create"] \in Nat /\ u[v]["proposal"] \in Nat
                           /\ u[v]["vote"] \in Nat
    BY DEF Coupons
  <2>2. \A x, y, z \in Nat : x * p.createFee + y * p.proposalFee + z * p.voteFee \in Nat
    BY <1>1
  <2>. QED  BY <2>1, <2>2 DEF Worth
<1>3. IntValued(f, Members) /\ IsFiniteSet(Members)
  BY <1>2 DEF IntValued, ConstantsOK
<1>4. TotalWorth(u, p) = SumFunctionOnSet(f, Members)
  BY DEF TotalWorth
<1>. HIDE DEF f
<1>. QED  BY <1>3, <1>4, SumStep

LEMMA WorthUpdate ==
  ASSUME ConstantsOK, NEW p \in ParamSets, NEW u \in [Members -> [Coupons -> Nat]],
         NEW m \in Members, NEW t \in [Coupons -> Nat]
  PROVE  /\ TotalWorth(u, p) \in Int
         /\ TotalWorth([u EXCEPT ![m] = [k \in Coupons |-> u[m][k] + t[k]]], p)
              = TotalWorth(u, p) + Worth(t, p)
<1>. DEFINE new == [u EXCEPT ![m] = [k \in Coupons |-> u[m][k] + t[k]]]
            f == [v \in Members |-> Worth(u[v], p)]
            g == [v \in Members |-> Worth(new[v], p)]
<1>1. p.createFee \in Nat /\ p.proposalFee \in Nat /\ p.voteFee \in Nat
  BY ParamTypes
<1>2. "create" \in Coupons /\ "proposal" \in Coupons /\ "vote" \in Coupons
  BY DEF Coupons
<1>3. new \in [Members -> [Coupons -> Nat]]
  <2>1. [k \in Coupons |-> u[m][k] + t[k]] \in [Coupons -> Nat]
    OBVIOUS
  <2>. QED  BY <2>1
<1>4. ASSUME NEW w \in [Coupons -> Nat]  PROVE Worth(w, p) \in Nat
  <2>1. w["create"] \in Nat /\ w["proposal"] \in Nat /\ w["vote"] \in Nat
    BY <1>2
  <2>. QED  BY <1>1, <2>1 DEF Worth
<1>5. \A v \in Members : Worth(u[v], p) \in Nat /\ Worth(new[v], p) \in Nat
  <2>1. \A v \in Members : u[v] \in [Coupons -> Nat] /\ new[v] \in [Coupons -> Nat]
    BY <1>3
  <2>. QED  BY <1>4, <2>1
<1>6. IntValued(f, Members) /\ IntValued(g, Members)
  <2>. HIDE DEF new
  <2>1. \A v \in Members : f[v] = Worth(u[v], p) /\ g[v] = Worth(new[v], p)
    OBVIOUS
  <2>. HIDE DEF f, g
  <2>. QED  BY <1>5, <2>1 DEF IntValued
<1>7. \A v \in Members \ {m} : g[v] = f[v]
  OBVIOUS
<1>8. f[m] = Worth(u[m], p) /\ g[m] = Worth(new[m], p)
  OBVIOUS
<1>9. Worth(new[m], p) = Worth(u[m], p) + Worth(t, p)
  <2>1. \A k \in Coupons : new[m][k] = u[m][k] + t[k] /\ u[m][k] \in Nat /\ t[k] \in Nat
    OBVIOUS
  <2>. DEFINE a == u[m]["create"]
              b == u[m]["proposal"]
              c == u[m]["vote"]
              x == t["create"]
              y == t["proposal"]
              z == t["vote"]
  <2>2. /\ new[m]["create"] = a + x /\ new[m]["proposal"] = b + y /\ new[m]["vote"] = c + z
        /\ {a, b, c, x, y, z} \subseteq Nat
    BY <1>2, <2>1
  <2>3. /\ Worth(new[m], p) = (a + x) * p.createFee + (b + y) * p.proposalFee + (c + z) * p.voteFee
        /\ Worth(u[m], p) = a * p.createFee + b * p.proposalFee + c * p.voteFee
        /\ Worth(t, p) = x * p.createFee + y * p.proposalFee + z * p.voteFee
    BY <2>2 DEF Worth
  <2>. HIDE DEF a, b, c, x, y, z, new
  <2>. QED  BY ONLY <1>1, <2>2, <2>3
<1>10. TotalWorth(u, p) = SumFunctionOnSet(f, Members)
       /\ TotalWorth(new, p) = SumFunctionOnSet(g, Members)
  BY DEF TotalWorth
<1>11. IsFiniteSet(Members)
  BY DEF ConstantsOK
<1>12. Worth(u[m], p) \in Nat /\ Worth(t, p) \in Nat
  BY <1>4, <1>5
<1>. HIDE DEF f, g, new
<1>13. SumFunctionOnSet(f, Members) \in Int
  BY <1>6, <1>11, SumStep
<1>14. SumFunctionOnSet(g, Members) = SumFunctionOnSet(f, Members) - f[m] + g[m]
  BY <1>6, <1>7, <1>11, SumUpdate
<1>15. TotalWorth(new, p) = TotalWorth(u, p) + Worth(t, p) /\ TotalWorth(u, p) \in Int
  BY ONLY <1>8, <1>9, <1>10, <1>12, <1>13, <1>14
<1>. QED  BY <1>15 DEF new

LEMMA FeesForm ==
  /\ FeesMatchRecords <=> (FeesFixed => Balanced(params))
  /\ FeesMatchRecords' <=> (FeesFixed => Balanced(params)')
<1>1. /\ SumFunction([m \in Members |-> CouponValue(m)]) = TotalWorth(used, params)
      /\ SumFunction([m \in Members |-> CouponValue(m)])' = TotalWorth(used, params)'
  BY DEF SumFunction, CouponValue, TotalWorth, Worth
<1>2. \A r \in Rounds : RoundCost(r) = ListCost(candidates[r], params)
                        /\ RoundCost(r)' = ListCost(candidates[r], params)'
  BY DEF RoundCost, TotalVotes, ListCost, VotesIn, SumFunction
<1>3. /\ SumFunction([r \in Rounds |-> RoundCost(r)]) = TotalCost(candidates, params)
      /\ SumFunction([r \in Rounds |-> RoundCost(r)])' = TotalCost(candidates, params)'
  BY <1>2 DEF SumFunction, TotalCost
<1>. QED  BY <1>1, <1>3 DEF FeesMatchRecords, FeesFixed, Balanced

(* Parameters that set the same fees balance the same books.                *)
LEMMA SameFees ==
  ASSUME FeesFixed, NEW p \in ParamSets, NEW q \in ParamSets
  PROVE  /\ Balanced(p) <=> Balanced(q)
         /\ Balanced(p)' <=> Balanced(q)'
<1>1. /\ p.createFee = q.createFee /\ p.proposalFee = q.proposalFee
      /\ p.voteFee = q.voteFee /\ p.subscriptionFee = q.subscriptionFee
  BY DEF FeesFixed
<1>2. \A u : TotalWorth(u, p) = TotalWorth(u, q)
  BY <1>1 DEF TotalWorth, Worth
<1>3. \A lists : TotalCost(lists, p) = TotalCost(lists, q)
  BY <1>1 DEF TotalCost, ListCost
<1>. QED  BY <1>1, <1>2, <1>3 DEF Balanced

(* A call that takes a, b and c coupons, pays fee and adds one list.        *)
LEMMA PaidStep ==
  ASSUME ConstantsOK, TypeOK, NEW p \in ParamSets, Balanced(p),
         NEW m \in Members, NEW a \in Nat, NEW b \in Nat, NEW c \in Nat,
         ConsumeCoupons(m, Taken(a, b, c)),
         NEW q \in Rounds, NEW list \in Seq(CandidateRow),
         candidates' = [candidates EXCEPT ![q] = list],
         NEW fee \in Int, balance' = balance + fee, UNCHANGED subscriptions,
         NEW n \in Nat, roundCount' = roundCount + n,
         fee + a * p.createFee + b * p.proposalFee + c * p.voteFee
           = n * p.createFee + ListCost(list, p) - ListCost(candidates[q], p)
  PROVE  Balanced(p)'
<1>1. /\ p.createFee \in Nat /\ p.proposalFee \in Nat /\ p.voteFee \in Nat
      /\ p.subscriptionFee \in Nat
  BY ParamTypes
<1>2. /\ balance \in Nat /\ roundCount \in Nat /\ subscriptions \in Nat
      /\ candidates \in [Rounds -> Seq(CandidateRow)] /\ used \in [Members -> [Coupons -> Nat]]
  BY ConstantTypes DEF TypeOK
<1>3. used' = [used EXCEPT ![m] = [k \in Coupons |-> used[m][k] + Taken(a, b, c)[k]]]
  BY DEF ConsumeCoupons, TypeOK
<1>4. Taken(a, b, c) \in [Coupons -> Nat]
  BY DEF Taken, Coupons
<1>5. /\ TotalWorth(used, p) \in Int
      /\ TotalWorth(used', p) = TotalWorth(used, p) + Worth(Taken(a, b, c), p)
  BY <1>2, <1>3, <1>4, WorthUpdate
<1>6. Worth(Taken(a, b, c), p) = a * p.createFee + b * p.proposalFee + c * p.voteFee
  BY TakenTypes DEF Worth
<1>7. /\ TotalCost(candidates, p) \in Int
      /\ TotalCost(candidates', p)
           = TotalCost(candidates, p) - ListCost(candidates[q], p) + ListCost(list, p)
  BY <1>2, CostUpdate
<1>8. ListCost(candidates[q], p) \in Nat /\ ListCost(list, p) \in Nat
  BY <1>2, CostTypes
<1>9. PICK cf \in Nat, pf \in Nat, vf \in Nat, sf \in Nat :
        cf = p.createFee /\ pf = p.proposalFee /\ vf = p.voteFee /\ sf = p.subscriptionFee
  BY <1>1
<1>10. PICK rc \in Nat, sub \in Nat, bal \in Nat :
         rc = roundCount /\ sub = subscriptions /\ bal = balance
  BY <1>2
<1>11. PICK W \in Int, K \in Int, X \in Int, Y \in Int :
         /\ W = TotalWorth(used, p) /\ K = TotalCost(candidates, p)
         /\ X = ListCost(list, p) /\ Y = ListCost(candidates[q], p)
  BY <1>5, <1>7, <1>8
<1>. DEFINE A == a * cf
            B == b * pf
            C == c * vf
            N == n * cf
            R == rc * cf
            S == sub * sf
<1>12. /\ A \in Int /\ B \in Int /\ C \in Int /\ N \in Int /\ R \in Int /\ S \in Int
       /\ (rc + n) * cf = R + N
  OBVIOUS
<1>13. bal + W = R + S + K
  BY <1>9, <1>10, <1>11 DEF Balanced
<1>14. fee + A + B + C = N + X - Y
  BY <1>9, <1>11
<1>15. TotalWorth(used', p) = W + (A + B + C) /\ TotalCost(candidates', p) = K - Y + X
  BY <1>5, <1>6, <1>7, <1>9, <1>11
<1>16. (bal + fee) + (W + (A + B + C)) = (R + N) + S + (K - Y + X)
  <2>. HIDE DEF A, B, C, N, R, S
  <2>. QED  BY ONLY <1>12, <1>13, <1>14, fee \in Int, bal \in Nat,
              W \in Int, K \in Int, X \in Int, Y \in Int
<1>17. /\ roundCount' * p.createFee = R + N /\ subscriptions' * p.subscriptionFee = S
       /\ balance' = bal + fee
  BY <1>9, <1>10, <1>12
<1>. HIDE DEF A, B, C, N, R, S
<1>. QED  BY <1>15, <1>16, <1>17 DEF Balanced

LEMMA CreatePays ==
  ASSUME ConstantsOK, TypeOK, ElectionInv, Balanced(params),
         NEW m \in Members, NEW keys \in InitialKeys,
         NEW coupon \in BOOLEAN, NEW free \in SUBSET DOMAIN keys,
         CreateRound(m, keys, coupon, free)
  PROVE  Balanced(params)'
<1>. DEFINE list == [i \in DOMAIN keys |-> Candidate(keys[i])]
            some == Cardinality(DOMAIN keys \ free)
<1>0. PICK p \in ParamSets : p = params
  BY DEF TypeOK
<1>1. PICK q \in Rounds : q = roundCount + 1
  BY DEF CreateRound
<1>2. /\ p.createFee \in Nat /\ p.proposalFee \in Nat /\ p.voteFee \in Nat
  BY ParamTypes
<1>3. keys \in Seq(Merchants) /\ DOMAIN keys = 1..Len(keys) /\ Len(keys) \in Nat
  BY KeysTypes
<1>4. /\ some \in Nat /\ Cardinality(free) \in Nat /\ Cardinality(free) + some = Len(keys)
  BY FreeKeys
<1>5. /\ list \in Seq(CandidateRow) /\ Len(list) = Len(keys)
      /\ \A i \in DOMAIN list : list[i].votes = 0
  <2>1. now \in 0..MaxTime /\ MaxTime \in Nat
    BY ConstantTypes DEF TypeOK
  <2>2. \A i \in 1..Len(keys) : Candidate(keys[i]) \in CandidateRow /\ Candidate(keys[i]).votes = 0
    BY <1>3, <2>1, ConstantTypes DEF Candidate, CandidateRow
  <2>3. list = [i \in 1..Len(keys) |-> Candidate(keys[i])]
    BY <1>3
  <2>. QED  BY <1>3, <2>2, <2>3
<1>6. ListCost(list, p) = Len(keys) * p.proposalFee
  <2>1. VotesIn(list) = 0
    BY <1>5, ListTypes, VotesFresh
  <2>. HIDE DEF list
  <2>. QED  BY <1>2, <1>3, <1>5, <2>1 DEF ListCost
<1>7. ListCost(candidates[q], p) = 0
  <2>1. roundCount \in Nat
    BY ConstantTypes DEF TypeOK
  <2>2. candidates[q] = <<>>
    BY <1>1, <2>1 DEF ElectionInv, Lives, Lists
  <2>3. VotesIn(<<>>) = 0
    <3>1. IsFiniteSet(DOMAIN <<>>) /\ \A i \in DOMAIN <<>> : <<>>[i].votes = 0
      BY FS_EmptySet
    <3>. QED  BY <3>1, VotesFresh
  <2>. QED  BY <1>2, <2>2, <2>3 DEF ListCost
<1>8. /\ balance' = balance + ((IF coupon THEN 0 ELSE p.createFee) + some * p.proposalFee)
      /\ candidates' = [candidates EXCEPT ![q] = list]
      /\ roundCount' = roundCount + 1 /\ UNCHANGED <<subscriptions, params>>
      /\ ConsumeCoupons(m, Taken(One(coupon), Cardinality(free), 0))
  BY <1>0, <1>1 DEF CreateRound, subscriptionVars
<1>. DEFINE fee == (IF coupon THEN 0 ELSE p.createFee) + some * p.proposalFee
            k   == Cardinality(free)
<1>9. /\ fee \in Int /\ One(coupon) \in Nat
      /\ fee + One(coupon) * p.createFee + k * p.proposalFee + 0 * p.voteFee
           = 1 * p.createFee + ListCost(list, p) - ListCost(candidates[q], p)
  <2>. HIDE DEF some, list, k
  <2>1. some * p.proposalFee + k * p.proposalFee = Len(keys) * p.proposalFee
        /\ some * p.proposalFee \in Nat /\ k * p.proposalFee \in Nat
    BY <1>2, <1>3, <1>4 DEF k
  <2>2. One(coupon) \in {0, 1} /\ (One(coupon) = 1 <=> coupon)
    BY DEF One
  <2>3. (IF coupon THEN 0 ELSE p.createFee) + One(coupon) * p.createFee = p.createFee
        /\ (IF coupon THEN 0 ELSE p.createFee) \in Nat
    BY <1>2, <2>2
  <2>4. 0 * p.voteFee = 0 /\ 1 * p.createFee = p.createFee /\ One(coupon) * p.createFee \in Nat
    BY <1>2, <2>2
  <2>5. fee \in Int /\ One(coupon) \in Nat
    BY <1>2, <2>1, <2>2, <2>3
  <2>6. fee + One(coupon) * p.createFee + k * p.proposalFee
          = p.createFee + Len(keys) * p.proposalFee
    <3>. SUFFICES ASSUME NEW a, a = (IF coupon THEN 0 ELSE p.createFee), NEW b, b = some * p.proposalFee,
                         NEW c, c = One(coupon) * p.createFee, NEW d, d = k * p.proposalFee,
                         NEW e, e = p.createFee, NEW l, l = Len(keys) * p.proposalFee
                  PROVE  (a + b) + c + d = e + l
      OBVIOUS
    <3>1. a \in Nat /\ b \in Nat /\ c \in Nat /\ d \in Nat /\ e \in Nat /\ a + c = e /\ b + d = l /\ l \in Nat
      BY <1>2, <2>1, <2>3, <2>4
    <3>. QED  BY ONLY <3>1
  <2>7. ListCost(list, p) = Len(keys) * p.proposalFee /\ ListCost(candidates[q], p) = 0
        /\ Len(keys) * p.proposalFee \in Nat
    BY <1>6, <1>7, <2>1
  <2>. HIDE DEF fee
  <2>8. 1 * p.createFee + ListCost(list, p) - ListCost(candidates[q], p)
          = p.createFee + Len(keys) * p.proposalFee
    <3>. SUFFICES ASSUME NEW e \in Nat, e = p.createFee, NEW x \in Nat, x = Len(keys) * p.proposalFee
                  PROVE  e + x - 0 = e + x
      BY <1>2, <2>4, <2>7
    <3>. QED  OBVIOUS
  <2>9. fee + One(coupon) * p.createFee + k * p.proposalFee \in Int
        /\ fee + One(coupon) * p.createFee + k * p.proposalFee + 0 * p.voteFee
             = fee + One(coupon) * p.createFee + k * p.proposalFee
    <3>. SUFFICES ASSUME NEW a \in Int, a = fee + One(coupon) * p.createFee + k * p.proposalFee
                  PROVE  a + 0 = a
      BY <2>1, <2>4, <2>5
    <3>. QED  OBVIOUS
  <2>. QED  BY <2>5, <2>6, <2>8, <2>9
<1>10. Balanced(p)
  BY <1>0
<1>11. /\ balance' = balance + fee /\ ConsumeCoupons(m, Taken(One(coupon), k, 0)) /\ k \in Nat
  BY <1>4, <1>8
<1>. HIDE DEF fee, k, list
<1>12. Balanced(p)'
  BY <1>5, <1>8, <1>9, <1>10, <1>11, PaidStep
<1>13. params' = p
  BY <1>0, <1>8
<1>. QED  BY <1>12, <1>13 DEF Balanced

LEMMA ProposePays ==
  ASSUME ConstantsOK, TypeOK, Balanced(params), NEW m \in Members, NEW r \in Rounds,
         NEW key \in Merchants, NEW coupon \in BOOLEAN, ProposeMerchant(m, r, key, coupon)
  PROVE  Balanced(params)'
<1>0. PICK p \in ParamSets : p = params
  BY DEF TypeOK
<1>. DEFINE list == candidates[r]
            row  == Candidate(key)
            fee  == IF coupon THEN 0 ELSE p.proposalFee
<1>1. /\ p.createFee \in Nat /\ p.proposalFee \in Nat /\ p.voteFee \in Nat
  BY ParamTypes
<1>2. list \in Seq(CandidateRow) /\ now \in 0..MaxTime /\ MaxTime \in Nat
  BY ConstantTypes DEF TypeOK
<1>3. row \in CandidateRow /\ row.votes = 0
  BY <1>2, ConstantTypes DEF Candidate, CandidateRow
<1>4. Append(list, row) \in Seq(CandidateRow) /\ Len(Append(list, row)) = Len(list) + 1
      /\ Len(list) \in Nat
  BY <1>2, <1>3
<1>5. VotesIn(Append(list, row)) = VotesIn(list) /\ VotesIn(list) \in Nat
  BY <1>2, <1>3, VotesAppend, ListTypes
<1>6. ListCost(Append(list, row), p) - ListCost(list, p) = p.proposalFee
  <2>. DEFINE V == VotesIn(list) * p.voteFee
  <2>1. V \in Int /\ VotesIn(Append(list, row)) * p.voteFee = V
    BY <1>1, <1>5, Products
  <2>2. /\ ListCost(list, p) = Len(list) * p.proposalFee + V
        /\ ListCost(Append(list, row), p) = (Len(list) + 1) * p.proposalFee + V
    BY <1>4, <2>1 DEF ListCost
  <2>3. /\ (Len(list) + 1) * p.proposalFee = Len(list) * p.proposalFee + p.proposalFee
        /\ Len(list) * p.proposalFee \in Int
    <3>1. Len(list) \in Nat /\ p.proposalFee \in Nat
      BY <1>1, <1>4
    <3>. HIDE DEF list
    <3>. QED  BY <3>1, Products
  <2>. HIDE DEF list, row, V
  <2>4. \A x, y, z \in Int : (x + z) + y - (x + y) = z
    OBVIOUS
  <2>. QED  BY <1>1, <2>1, <2>2, <2>3, <2>4
<1>7. ListCost(Append(list, row), p) \in Nat /\ ListCost(list, p) \in Nat
  BY <1>2, <1>4, CostTypes
<1>8. /\ candidates' = [candidates EXCEPT ![r] = Append(list, row)]
      /\ balance' = balance + fee /\ UNCHANGED <<subscriptions, params, roundCount>>
      /\ ConsumeCoupons(m, Taken(0, One(coupon), 0))
  BY <1>0 DEF ProposeMerchant, subscriptionVars, TypeOK
<1>9. /\ fee \in Int /\ One(coupon) \in Nat
      /\ fee + 0 * p.createFee + One(coupon) * p.proposalFee + 0 * p.voteFee
           = 0 * p.createFee + ListCost(Append(list, row), p) - ListCost(list, p)
  <2>. HIDE DEF list, row
  <2>. QED  BY <1>1, <1>6, <1>7 DEF One
<1>10. roundCount' = roundCount + 0
  BY <1>8, ConstantTypes DEF TypeOK
<1>11. Balanced(p)
  BY <1>0
<1>. HIDE DEF fee, row
<1>12. Balanced(p)'
  BY <1>4, <1>8, <1>9, <1>10, <1>11, PaidStep
<1>13. params' = p
  BY <1>0, <1>8
<1>. QED  BY <1>12, <1>13 DEF Balanced

LEMMA VotePays ==
  ASSUME ConstantsOK, TypeOK, Balanced(params), NEW m \in Members, NEW r \in Rounds,
         NEW c \in DOMAIN candidates[r], NEW n \in VoteCounts, NEW coupon \in BOOLEAN,
         CastVote(m, r, c, n, coupon)
  PROVE  Balanced(params)'
<1>0. PICK p \in ParamSets : p = params
  BY DEF TypeOK
<1>. DEFINE list == candidates[r]
            row  == WithVotes(list[c], list[c].votes + n)
            more == [list EXCEPT ![c] = row]
            fee  == (n - One(coupon)) * p.voteFee
<1>1. /\ p.createFee \in Nat /\ p.proposalFee \in Nat /\ p.voteFee \in Nat
  BY ParamTypes
<1>2. /\ n \in 1..(VoteRange - 1) /\ list \in Seq(CandidateRow) /\ list[c] \in CandidateRow
      /\ list[c].votes + n \in 0..(VoteRange - 1) /\ candidates' = [candidates EXCEPT ![r] = more]
  BY CastVoteEffect
<1>3. row \in CandidateRow /\ row.votes = list[c].votes + n
  BY <1>2 DEF WithVotes, CandidateRow
<1>4. /\ list[c].votes \in Nat /\ n \in Nat /\ n >= 1
      /\ VotesIn(list) \in Nat /\ Len(list) \in Nat /\ c \in DOMAIN list
  BY <1>2, ListTypes, ConstantTypes
<1>5. more \in Seq(CandidateRow) /\ Len(more) = Len(list)
  <2>. HIDE DEF list, row
  <2>. QED  BY <1>2, <1>3, <1>4
<1>6. VotesIn(more) = VotesIn(list) + n
  <2>1. VotesIn(more) = VotesIn(list) - list[c].votes + row.votes
    BY <1>2, <1>3, VotesUpdate
  <2>. HIDE DEF more, list, row
  <2>. QED  BY <1>3, <1>4, <2>1
<1>7. ListCost(more, p) - ListCost(list, p) = n * p.voteFee
  <2>. HIDE DEF list, row, more
  <2>. QED  BY <1>1, <1>4, <1>5, <1>6 DEF ListCost
<1>8. ListCost(more, p) \in Nat /\ ListCost(list, p) \in Nat
  BY <1>2, <1>5, CostTypes
<1>9. /\ balance' = balance + fee /\ UNCHANGED <<subscriptions, params, roundCount>>
      /\ ConsumeCoupons(m, Taken(0, 0, One(coupon)))
  BY <1>0 DEF CastVote, VoteFee, subscriptionVars
<1>10. /\ fee \in Int /\ One(coupon) \in Nat
       /\ fee + 0 * p.createFee + 0 * p.proposalFee + One(coupon) * p.voteFee
            = 0 * p.createFee + ListCost(more, p) - ListCost(list, p)
  <2>. HIDE DEF list, row, more
  <2>1. /\ n * p.voteFee \in Int /\ (n - 1) * p.voteFee = n * p.voteFee - p.voteFee
        /\ (n - 0) * p.voteFee = n * p.voteFee
    BY <1>1, <1>4
  <2>2. fee = n * p.voteFee - (IF coupon THEN p.voteFee ELSE 0)
    BY <1>1, <2>1 DEF One
  <2>3. One(coupon) * p.voteFee = IF coupon THEN p.voteFee ELSE 0
    BY <1>1 DEF One
  <2>4. One(coupon) \in Nat
    BY DEF One
  <2>. HIDE DEF fee
  <2>. QED  BY <1>1, <1>7, <1>8, <2>1, <2>2, <2>3, <2>4
<1>11. roundCount' = roundCount + 0
  BY <1>9, ConstantTypes DEF TypeOK
<1>12. Balanced(p)
  BY <1>0
<1>. HIDE DEF fee, more, row
<1>13. Balanced(p)'
  BY <1>2, <1>5, <1>9, <1>10, <1>11, <1>12, PaidStep
<1>14. params' = p
  BY <1>0, <1>9
<1>. QED  BY <1>13, <1>14 DEF Balanced

LEMMA SubscribePays ==
  ASSUME ConstantsOK, TypeOK, Balanced(params), NEW m \in Members, SubscribeMonthly(m)
  PROVE  Balanced(params)'
<1>0. PICK p \in ParamSets : p = params
  BY DEF TypeOK
<1>1. p.subscriptionFee \in Nat /\ p.createFee \in Nat
  BY ParamTypes
<1>2. /\ subscriptions \in Nat /\ balance \in Nat /\ roundCount \in Nat
      /\ used \in [Members -> [Coupons -> Nat]] /\ candidates \in [Rounds -> Seq(CandidateRow)]
  BY ConstantTypes DEF TypeOK
<1>3. /\ subscriptions' = subscriptions + 1 /\ balance' = balance + p.subscriptionFee
      /\ UNCHANGED <<params, roundCount, candidates, used>>
  BY <1>0 DEF SubscribeMonthly, roundVars, couponVars
<1>4. /\ (subscriptions + 1) * p.subscriptionFee = subscriptions * p.subscriptionFee + p.subscriptionFee
      /\ subscriptions * p.subscriptionFee \in Int /\ roundCount * p.createFee \in Int
  BY <1>1, <1>2, Products
<1>5. TotalWorth(used, p) \in Int /\ TotalCost(candidates, p) \in Int
  BY <1>2, WorthType, CostType
<1>. DEFINE rows == roundCount * p.createFee + subscriptions * p.subscriptionFee
<1>6. /\ rows \in Int /\ balance + TotalWorth(used, p) = rows + TotalCost(candidates, p)
      /\ roundCount * p.createFee + (subscriptions + 1) * p.subscriptionFee
           = rows + p.subscriptionFee
  <2>1. \A x, y, z \in Int : x + (y + z) = (x + y) + z
    OBVIOUS
  <2>2. balance + TotalWorth(used, p) = rows + TotalCost(candidates, p)
    BY <1>0 DEF Balanced
  <2>. QED  BY <1>1, <1>4, <2>1, <2>2
<1>. HIDE DEF rows
<1>7. (balance + p.subscriptionFee) + (TotalWorth(used, p) + 0)
        = (rows + p.subscriptionFee) + (TotalCost(candidates, p) + 0)
  <2>1. p.subscriptionFee + 0 = p.subscriptionFee + 0 /\ p.subscriptionFee \in Int /\ 0 \in Int
        /\ balance \in Int
    BY <1>1, <1>2
  <2>. QED  BY <1>5, <1>6, <2>1, StaysEven
<1>8. params' = p
  BY <1>0, <1>3
<1>9. TotalWorth(used, p) + 0 = TotalWorth(used, p)
      /\ TotalCost(candidates, p) + 0 = TotalCost(candidates, p)
  BY <1>5
<1>. QED  BY <1>3, <1>6, <1>7, <1>8, <1>9 DEF Balanced

LEMMA InitBalanced == ASSUME ConstantsOK, Init PROVE Balanced(params)
<1>1. /\ params.createFee \in Nat /\ params.proposalFee \in Nat /\ params.voteFee \in Nat
      /\ params.subscriptionFee \in Nat
  BY ParamTypes DEF Init
<1>2. \A m \in Members : Worth(used[m], params) = 0
  <2>1. \A m \in Members : used[m] = NoCoupons
    BY DEF Init
  <2>2. \A k \in Coupons : NoCoupons[k] = 0
    BY DEF NoCoupons
  <2>3. "create" \in Coupons /\ "proposal" \in Coupons /\ "vote" \in Coupons
    BY DEF Coupons
  <2>. QED  BY <1>1, <2>1, <2>2, <2>3 DEF Worth
<1>3. TotalWorth(used, params) = 0
  <2>. DEFINE f == [m \in Members |-> Worth(used[m], params)]
  <2>1. \A m \in Members : f[m] = 0
    BY <1>2
  <2>2. TotalWorth(used, params) = SumFunctionOnSet(f, Members) /\ IsFiniteSet(Members)
    BY DEF TotalWorth, ConstantsOK
  <2>. HIDE DEF f
  <2>. QED  BY <2>1, <2>2, SumZero
<1>4. \A r \in Rounds : ListCost(candidates[r], params) = 0
  <2>1. \A r \in Rounds : candidates[r] = <<>>
    BY DEF Init
  <2>2. VotesIn(<<>>) = 0
    <3>1. IsFiniteSet(DOMAIN <<>>) /\ \A i \in DOMAIN <<>> : <<>>[i].votes = 0
      BY FS_EmptySet
    <3>. QED  BY <3>1, VotesFresh
  <2>. QED  BY <1>1, <2>1, <2>2 DEF ListCost
<1>5. TotalCost(candidates, params) = 0
  <2>. DEFINE f == [r \in Rounds |-> ListCost(candidates[r], params)]
  <2>1. \A r \in Rounds : f[r] = 0
    BY <1>4
  <2>2. TotalCost(candidates, params) = SumFunctionOnSet(f, Rounds)
    BY DEF TotalCost
  <2>3. IsFiniteSet(Rounds)
    BY ConstantTypes, FS_Interval DEF Rounds
  <2>. HIDE DEF f
  <2>. QED  BY <2>1, <2>2, <2>3, SumZero
<1>6. balance = 0 /\ roundCount = 0 /\ subscriptions = 0
  BY DEF Init
<1>. QED  BY <1>1, <1>3, <1>5, <1>6 DEF Balanced

LEMMA FeesInductive ==
  ConstantsOK /\ TypeOK /\ ElectionInv /\ FeesMatchRecords /\ TypeOK' /\ [Next]_vars
    => FeesMatchRecords'
<1>. SUFFICES ASSUME ConstantsOK, TypeOK, ElectionInv, FeesMatchRecords, TypeOK', [Next]_vars,
                     FeesFixed
              PROVE  Balanced(params)'
  BY FeesForm
<1>1. Balanced(params)
  BY FeesForm
<1>2. CASE UNCHANGED <<params, roundCount, candidates, used, subscriptions, balance>>
  BY <1>1, <1>2 DEF Balanced
<1>3. CASE UNCHANGED vars
  BY <1>2, <1>3 DEF vars, roundVars, couponVars, subscriptionVars
<1>4. ASSUME NEW m \in Members, NEW day \in DayKeys, ClaimDailyCoupons(m, day)
      PROVE  Balanced(params)'
  BY <1>2, <1>4 DEF ClaimDailyCoupons, roundVars, subscriptionVars
<1>5. ASSUME NEW m \in Members, CancelSubscription(m)  PROVE Balanced(params)'
  BY <1>2, <1>5 DEF CancelSubscription, roundVars, couponVars
<1>6. ASSUME NEW r \in Rounds, CancelRound(r) \/ SettleRound(r)  PROVE Balanced(params)'
  <2>1. UNCHANGED <<params, roundCount, candidates, used, subscriptions, balance>>
    BY <1>6 DEF CancelRound, SettleRound, couponVars, subscriptionVars
  <2>. QED  BY <1>2, <2>1
<1>7. CASE Tick
  BY <1>2, <1>7 DEF Tick, roundVars, couponVars, subscriptionVars
<1>8. ASSUME NEW p \in ParamSets, SetGovernanceParams(p)  PROVE Balanced(params)'
  <2>1. params \in ParamSets
    BY DEF TypeOK
  <2>2. Balanced(p)
    BY <1>1, <2>1, SameFees
  <2>3. UNCHANGED <<roundCount, candidates, used, subscriptions, balance>> /\ params' = p
    BY <1>8 DEF SetGovernanceParams, roundVars, couponVars, subscriptionVars
  <2>. QED  BY <2>2, <2>3 DEF Balanced
<1>. QED  BY <1>1, <1>3, <1>4, <1>5, <1>6, <1>7, <1>8, Steps, CreatePays, ProposePays,
             VotePays, SubscribePays

(* While the owner leaves the fees alone, the contract's ether and the      *)
(* coupons used pay for every round, candidate, vote and subscription.      *)
THEOREM GovernanceFees == ASSUME ConstantsOK PROVE Spec => []FeesMatchRecords
<1>1. Init => FeesMatchRecords
  BY InitBalanced, FeesForm
<1>2. TypeOK /\ ElectionInv /\ FeesMatchRecords /\ TypeOK' /\ [Next]_vars => FeesMatchRecords'
  BY FeesInductive
<1>3. Spec => [](TypeOK /\ ElectionInv)
  BY ElectionInvariant
<1>. QED  BY <1>1, <1>2, <1>3, PTL DEF Spec

-----------------------------------------------------------------------------
(* The escrows of MealVoteOrderEscrow, a contract of its own: the ether in  *)
(* it is what was paid into each escrow less the totals paid out.           *)
CONSTANTS Shops, Platform, FeeRates, Totals, Payments, AmountRange, MaxOrders, MaxPaid
VARIABLES feeBps, escrows, memberPaidWei, ether, received

Escrows == INSTANCE OrderEscrow WITH Merchants <- Shops

EscrowStatuses == {"Open", "MerchantAccepted", "MerchantCompleted", "MemberConfirmed", "PaidOut"}
EscrowRow == [merchantWallet: Shops, total: Nat, fee: FeeRates, status: EscrowStatuses]
Payers == [Members -> Nat]
SumPaid(paid) == SumFunctionOnSet(paid, Members)
Held(row, paid) == IF row.status = "PaidOut" THEN SumPaid(paid) - row.total ELSE SumPaid(paid)
AllHeld(rows, paid) == SumFunctionOnSet([e \in DOMAIN rows |-> Held(rows[e], paid[e])], DOMAIN rows)

EscrowTypes ==
  /\ feeBps \in FeeRates /\ escrows \in Seq(EscrowRow) /\ memberPaidWei \in Seq(Payers)
  /\ Len(memberPaidWei) = Len(escrows) /\ ether \in Nat
PaidFirst ==
  \A e \in DOMAIN escrows :
    escrows[e].status \in {"MemberConfirmed", "PaidOut"} => SumPaid(memberPaidWei[e]) > 0
EscrowInv ==
  EscrowTypes /\ PaidFirst /\ ether = AllHeld(escrows, memberPaidWei)

LEMMA EscrowSum == ASSUME NEW f, NEW S PROVE Escrows!SumFunctionOnSet(f, S) = SumFunctionOnSet(f, S)
<1>. QED  BY DEF Escrows!SumFunctionOnSet, SumFunctionOnSet, Escrows!FoldFunctionOnSet,
                 FoldFunctionOnSet, Escrows!MapThenFoldSet, MapThenFoldSet

LEMMA PayersFinite == Escrows!ConstantsOK => IsFiniteSet(Members)
<1>1. Escrows!ConstantsOK => Escrows!IsFiniteSet(Members)
  BY DEF Escrows!ConstantsOK
<1>2. Escrows!IsFiniteSet(Members) <=> IsFiniteSet(Members)
  BY DEF Escrows!IsFiniteSet, IsFiniteSet
<1>. QED  BY <1>1, <1>2

LEMMA PaidTypes ==
  ASSUME Escrows!ConstantsOK, NEW paid \in Payers
  PROVE  SumPaid(paid) \in Nat /\ \A m \in Members : paid[m] <= SumPaid(paid)
<1>1. IsFiniteSet(Members)
  BY PayersFinite
<1>2. NatValued(paid, Members)
  BY DEF NatValued, Payers
<1>. QED  BY <1>1, <1>2, SumNat DEF SumPaid

LEMMA PaidMore ==
  ASSUME Escrows!ConstantsOK, NEW paid \in Payers, NEW m \in Members, NEW a \in Nat
  PROVE  SumPaid([paid EXCEPT ![m] = paid[m] + a]) = SumPaid(paid) + a
<1>. DEFINE new == [paid EXCEPT ![m] = paid[m] + a]
<1>1. new \in Payers /\ new[m] = paid[m] + a /\ \A y \in Members \ {m} : new[y] = paid[y]
  BY DEF Payers
<1>2. IsFiniteSet(Members) /\ IntValued(paid, Members) /\ IntValued(new, Members)
      /\ paid[m] \in Int
  <2>1. IsFiniteSet(Members)
    BY PayersFinite
  <2>2. \A q \in Payers : \A v \in Members : q[v] \in Int
    BY DEF Payers
  <2>. HIDE DEF new
  <2>3. paid[m] \in Int /\ \A v \in Members : paid[v] \in Int /\ new[v] \in Int
    BY <1>1, <2>2
  <2>. QED  BY <2>1, <2>3 DEF IntValued
<1>3. SumPaid(paid) \in Int
  BY PaidTypes
<1>. HIDE DEF new
<1>4. SumPaid(new) = SumPaid(paid) - paid[m] + new[m]
  BY <1>1, <1>2, SumUpdate DEF SumPaid
<1>5. SumPaid(new) = SumPaid(paid) + a
  BY ONLY <1>1, <1>2, <1>3, <1>4, a \in Nat
<1>. QED  BY <1>5 DEF new

LEMMA HeldTypes ==
  ASSUME Escrows!ConstantsOK, NEW row \in EscrowRow, NEW paid \in Payers
  PROVE  Held(row, paid) \in Int
<1>1. SumPaid(paid) \in Nat /\ row.total \in Nat
  BY PaidTypes DEF EscrowRow
<1>. QED  BY <1>1 DEF Held

LEMMA HeldUpdate ==
  ASSUME Escrows!ConstantsOK,
         NEW rows \in Seq(EscrowRow), NEW paid \in Seq(Payers), Len(paid) = Len(rows),
         NEW rows2 \in Seq(EscrowRow), NEW paid2 \in Seq(Payers),
         Len(rows2) = Len(rows), Len(paid2) = Len(rows), NEW e \in DOMAIN rows,
         \A d \in DOMAIN rows \ {e} : rows2[d] = rows[d] /\ paid2[d] = paid[d]
  PROVE  /\ AllHeld(rows, paid) \in Int
         /\ AllHeld(rows2, paid2)
              = AllHeld(rows, paid) - Held(rows[e], paid[e]) + Held(rows2[e], paid2[e])
<1>. DEFINE D == DOMAIN rows
            f == [d \in D |-> Held(rows[d], paid[d])]
            g == [d \in D |-> Held(rows2[d], paid2[d])]
<1>1. D = 1..Len(rows) /\ DOMAIN rows2 = D /\ DOMAIN paid = D /\ DOMAIN paid2 = D
      /\ Len(rows) \in Nat
  OBVIOUS
<1>2. IsFiniteSet(D)
  BY <1>1, FS_Interval
<1>3. \A d \in D : /\ rows[d] \in EscrowRow /\ rows2[d] \in EscrowRow
                   /\ paid[d] \in Payers /\ paid2[d] \in Payers
  BY <1>1
<1>4. \A d \in D : Held(rows[d], paid[d]) \in Int /\ Held(rows2[d], paid2[d]) \in Int
  BY <1>3, HeldTypes
<1>5. IntValued(f, D) /\ IntValued(g, D) /\ \A d \in D \ {e} : g[d] = f[d]
  BY <1>4 DEF IntValued
<1>6. f[e] = Held(rows[e], paid[e]) /\ g[e] = Held(rows2[e], paid2[e]) /\ e \in D
  OBVIOUS
<1>7. AllHeld(rows, paid) = SumFunctionOnSet(f, D)
      /\ AllHeld(rows2, paid2) = SumFunctionOnSet(g, D)
  BY <1>1 DEF AllHeld
<1>. HIDE DEF f, g, D
<1>8. SumFunctionOnSet(f, D) \in Int
  BY <1>2, <1>5, SumStep
<1>9. SumFunctionOnSet(g, D) = SumFunctionOnSet(f, D) - f[e] + g[e]
  BY <1>2, <1>5, <1>6, SumUpdate
<1>. QED  BY <1>6, <1>7, <1>8, <1>9

LEMMA HeldAppend ==
  ASSUME Escrows!ConstantsOK,
         NEW rows \in Seq(EscrowRow), NEW paid \in Seq(Payers), Len(paid) = Len(rows),
         NEW row \in EscrowRow, NEW none \in Payers
  PROVE  /\ AllHeld(rows, paid) \in Int
         /\ AllHeld(Append(rows, row), Append(paid, none)) = AllHeld(rows, paid) + Held(row, none)
<1>. DEFINE more == Append(rows, row)
            pays == Append(paid, none)
            D == DOMAIN rows
            E == DOMAIN more
            n == Len(rows) + 1
            f == [d \in D |-> Held(rows[d], paid[d])]
            g == [d \in E |-> Held(more[d], pays[d])]
<1>1. D = 1..Len(rows) /\ DOMAIN paid = D /\ Len(rows) \in Nat /\ E = 1..n
  OBVIOUS
<1>2. IsFiniteSet(D) /\ IsFiniteSet(E) /\ n \in E /\ E \ {n} = D
  <2>1. n \in Nat /\ n \in 1..n /\ (1..n) \ {n} = 1..Len(rows)
    BY <1>1
  <2>2. IsFiniteSet(1..Len(rows)) /\ IsFiniteSet(1..n)
    BY <1>1, <2>1, FS_Interval
  <2>. QED  BY <1>1, <2>1, <2>2
<1>3. /\ \A d \in D : /\ rows[d] \in EscrowRow /\ paid[d] \in Payers
                      /\ more[d] = rows[d] /\ pays[d] = paid[d]
      /\ more[n] = row /\ pays[n] = none
  BY <1>1
<1>4. /\ \A d \in D : Held(rows[d], paid[d]) \in Int
      /\ Held(row, none) \in Int
  BY <1>3, HeldTypes
<1>5. /\ \A d \in E : g[d] = IF d = n THEN Held(row, none) ELSE Held(rows[d], paid[d])
      /\ \A d \in D : f[d] = Held(rows[d], paid[d])
  <2>. HIDE DEF D, E, n, more, pays
  <2>1. \A d \in E : d = n \/ d \in D
    BY <1>2
  <2>. QED  BY <1>2, <1>3, <2>1
<1>6. AllHeld(rows, paid) = SumFunctionOnSet(f, D) /\ AllHeld(more, pays) = SumFunctionOnSet(g, E)
  BY DEF AllHeld
<1>. HIDE DEF f, g, D, E, n, more, pays
<1>7. IntValued(f, D) /\ IntValued(g, E) /\ IntValued(g, D) /\ \A d \in D : f[d] = g[d]
  BY <1>2, <1>4, <1>5 DEF IntValued
<1>8. SumFunctionOnSet(f, D) \in Int /\ SumFunctionOnSet(f, D) = SumFunctionOnSet(g, D)
  BY <1>2, <1>7, SumStep, SumAgree
<1>9. SumFunctionOnSet(g, E) = g[n] + SumFunctionOnSet(g, D)
  BY <1>2, <1>7, SumStep
<1>10. g[n] = Held(row, none)
  BY <1>2, <1>5
<1>11. AllHeld(more, pays) = AllHeld(rows, paid) + Held(row, none) /\ AllHeld(rows, paid) \in Int
  BY ONLY <1>4, <1>6, <1>8, <1>9, <1>10
<1>. QED  BY <1>11 DEF more, pays

LEMMA EscrowsInit == ASSUME Escrows!ConstantsOK, Escrows!Init PROVE EscrowInv
<1>1. feeBps \in FeeRates /\ escrows = <<>> /\ memberPaidWei = <<>> /\ ether = 0
  BY DEF Escrows!Init
<1>2. AllHeld(<<>>, <<>>) = 0
  <2>1. DOMAIN <<>> = {}
    OBVIOUS
  <2>. QED  BY <2>1, SumEmpty DEF AllHeld
<1>. QED  BY <1>1, <1>2 DEF EscrowInv, EscrowTypes, PaidFirst

LEMMA OpenKeeps ==
  ASSUME Escrows!ConstantsOK, EscrowInv, NEW w \in Shops, NEW total \in Totals,
         Escrows!OpenEscrow(w, total)
  PROVE  EscrowInv'
<1>. DEFINE row  == [merchantWallet |-> w, total |-> total % AmountRange,
                     fee |-> feeBps, status |-> "Open"]
            none == [m \in Members |-> 0]
<1>1. /\ feeBps \in FeeRates /\ escrows \in Seq(EscrowRow) /\ memberPaidWei \in Seq(Payers)
      /\ Len(memberPaidWei) = Len(escrows) /\ ether \in Nat
      /\ PaidFirst /\ ether = AllHeld(escrows, memberPaidWei)
  BY DEF EscrowInv, EscrowTypes
<1>2. total % AmountRange \in Nat
  <2>1. total \in Nat /\ AmountRange \in Nat \ {0}
    BY DEF Escrows!ConstantsOK
  <2>. QED  BY <2>1
<1>3. row \in EscrowRow /\ row.status = "Open" /\ none \in Payers
  BY <1>1, <1>2 DEF EscrowRow, EscrowStatuses, Payers
<1>4. Held(row, none) = 0
  <2>1. SumPaid(none) = 0
    <3>1. IsFiniteSet(Members) /\ \A m \in Members : none[m] = 0
      BY PayersFinite
    <3>. HIDE DEF none
    <3>. QED  BY <3>1, SumZero DEF SumPaid
  <2>. QED  BY <1>3, <2>1 DEF Held
<1>5. /\ escrows' = Append(escrows, row) /\ memberPaidWei' = Append(memberPaidWei, none)
      /\ UNCHANGED <<feeBps, ether>>
  BY DEF Escrows!OpenEscrow
<1>. HIDE DEF row, none
<1>6. EscrowTypes'
  BY <1>1, <1>3, <1>5 DEF EscrowTypes
<1>7. AllHeld(escrows', memberPaidWei') = AllHeld(escrows, memberPaidWei)
  <2>1. /\ AllHeld(escrows, memberPaidWei) \in Int
        /\ AllHeld(escrows', memberPaidWei') = AllHeld(escrows, memberPaidWei) + Held(row, none)
    BY <1>1, <1>3, <1>5, HeldAppend
  <2>. QED  BY <1>4, <2>1
<1>8. PaidFirst'
  <2>1. DOMAIN escrows = 1..Len(escrows) /\ Len(escrows) \in Nat
        /\ DOMAIN memberPaidWei = DOMAIN escrows /\ DOMAIN escrows' = 1..(Len(escrows) + 1)
    BY <1>1, <1>3, <1>5
  <2>2. \A e \in DOMAIN escrows : escrows'[e] = escrows[e] /\ memberPaidWei'[e] = memberPaidWei[e]
    BY <1>1, <1>5, <2>1
  <2>3. escrows'[Len(escrows) + 1] = row
    BY <1>1, <1>5
  <2>4. \A e \in DOMAIN escrows' : e \in DOMAIN escrows \/ e = Len(escrows) + 1
    BY <2>1
  <2>. QED  BY <1>1, <1>3, <2>2, <2>3, <2>4 DEF PaidFirst
<1>. QED  BY <1>1, <1>5, <1>6, <1>7, <1>8 DEF EscrowInv

(* A step of one escrow: its status moves on, its payments grow, and ether  *)
(* changes by as much as what it holds.                                     *)
LEMMA OneEscrow ==
  ASSUME Escrows!ConstantsOK, EscrowInv, NEW e \in DOMAIN escrows,
         NEW s \in EscrowStatuses, NEW p \in Payers,
         UNCHANGED feeBps,
         escrows' = [escrows EXCEPT ![e].status = s],
         memberPaidWei' = [memberPaidWei EXCEPT ![e] = p],
         SumPaid(p) >= SumPaid(memberPaidWei[e]),
         s \in {"MemberConfirmed", "PaidOut"} => SumPaid(p) > 0,
         ether' \in Nat,
         s # "PaidOut" => ether' = ether + SumPaid(p) - SumPaid(memberPaidWei[e]),
         s = "PaidOut" => ether' = ether + SumPaid(p) - SumPaid(memberPaidWei[e]) - escrows[e].total,
         escrows[e].status # "PaidOut"
  PROVE  EscrowInv'
<1>1. /\ feeBps \in FeeRates /\ escrows \in Seq(EscrowRow) /\ memberPaidWei \in Seq(Payers)
      /\ Len(memberPaidWei) = Len(escrows) /\ ether \in Nat
      /\ PaidFirst /\ ether = AllHeld(escrows, memberPaidWei)
  BY DEF EscrowInv, EscrowTypes
<1>2. DOMAIN escrows = 1..Len(escrows) /\ DOMAIN memberPaidWei = DOMAIN escrows
  BY <1>1
<1>3. escrows[e] \in EscrowRow /\ memberPaidWei[e] \in Payers /\ escrows[e].total \in Nat
  <2>1. escrows[e] \in EscrowRow /\ memberPaidWei[e] \in Payers
    BY <1>1, <1>2
  <2>. QED  BY <2>1 DEF EscrowRow
<1>. DEFINE row == [escrows[e] EXCEPT !.status = s]
<1>4. row \in EscrowRow /\ row.status = s /\ row.total = escrows[e].total
  BY <1>3 DEF EscrowRow
<1>5. escrows' = [escrows EXCEPT ![e] = row]
  OBVIOUS
<1>. HIDE DEF row
<1>6. /\ escrows' \in Seq(EscrowRow) /\ memberPaidWei' \in Seq(Payers)
      /\ Len(escrows') = Len(escrows) /\ Len(memberPaidWei') = Len(escrows)
      /\ DOMAIN escrows' = DOMAIN escrows
  BY <1>1, <1>2, <1>4, <1>5
<1>7. /\ escrows'[e] = row /\ memberPaidWei'[e] = p
      /\ \A d \in DOMAIN escrows \ {e} :
           escrows'[d] = escrows[d] /\ memberPaidWei'[d] = memberPaidWei[d]
  BY <1>1, <1>2, <1>5
<1>8. /\ AllHeld(escrows, memberPaidWei) \in Int
      /\ AllHeld(escrows', memberPaidWei')
           = AllHeld(escrows, memberPaidWei) - Held(escrows[e], memberPaidWei[e]) + Held(row, p)
  <2>1. PICK rows \in Seq(EscrowRow), paid \in Seq(Payers),
             rows2 \in Seq(EscrowRow), paid2 \in Seq(Payers) :
          rows = escrows /\ paid = memberPaidWei /\ rows2 = escrows' /\ paid2 = memberPaidWei'
    BY <1>1, <1>6
  <2>2. /\ rows \in Seq(EscrowRow) /\ paid \in Seq(Payers)
        /\ rows2 \in Seq(EscrowRow) /\ paid2 \in Seq(Payers)
        /\ Len(paid) = Len(rows) /\ Len(rows2) = Len(rows) /\ Len(paid2) = Len(rows)
        /\ e \in DOMAIN rows /\ rows2[e] = row /\ paid2[e] = p
        /\ \A d \in DOMAIN rows \ {e} : rows2[d] = rows[d] /\ paid2[d] = paid[d]
    BY <1>1, <1>6, <1>7, <2>1
  <2>3. /\ AllHeld(rows, paid) \in Int
        /\ AllHeld(rows2, paid2)
             = AllHeld(rows, paid) - Held(rows[e], paid[e]) + Held(rows2[e], paid2[e])
    BY <2>2, HeldUpdate, Zenon
  <2>. QED  BY <2>1, <2>2, <2>3
<1>9. SumPaid(p) \in Nat /\ SumPaid(memberPaidWei[e]) \in Nat
  BY <1>3, PaidTypes
<1>10. /\ Held(escrows[e], memberPaidWei[e]) = SumPaid(memberPaidWei[e])
       /\ Held(row, p) = IF s = "PaidOut" THEN SumPaid(p) - escrows[e].total ELSE SumPaid(p)
  BY <1>4 DEF Held
<1>11. ether' = AllHeld(escrows', memberPaidWei')
  <2>1. CASE s = "PaidOut"
    BY <1>1, <1>3, <1>8, <1>9, <1>10, <2>1
  <2>2. CASE s # "PaidOut"
    BY <1>1, <1>3, <1>8, <1>9, <1>10, <2>2
  <2>. QED  BY <2>1, <2>2
<1>12. PaidFirst'
  BY <1>1, <1>4, <1>6, <1>7 DEF PaidFirst
<1>. QED  BY <1>1, <1>6, <1>11, <1>12 DEF EscrowInv, EscrowTypes

LEMMA PayKeeps ==
  ASSUME Escrows!ConstantsOK, EscrowInv, NEW e \in DOMAIN escrows, NEW m \in Members,
         NEW a \in Payments, Escrows!PayForOrder(m, e, a)
  PROVE  EscrowInv'
<1>1. /\ escrows \in Seq(EscrowRow) /\ memberPaidWei \in Seq(Payers)
      /\ Len(memberPaidWei) = Len(escrows) /\ ether \in Nat
  BY DEF EscrowInv, EscrowTypes
<1>2. DOMAIN memberPaidWei = DOMAIN escrows /\ escrows[e] \in EscrowRow
      /\ memberPaidWei[e] \in Payers /\ a \in Nat
  <2>1. a \in Nat
    BY DEF Escrows!ConstantsOK
  <2>. QED  BY <1>1, <2>1
<1>. DEFINE p == [memberPaidWei[e] EXCEPT ![m] = memberPaidWei[e][m] + a]
<1>3. p \in Payers
  BY <1>2 DEF Payers
<1>4. SumPaid(p) = SumPaid(memberPaidWei[e]) + a /\ SumPaid(memberPaidWei[e]) \in Nat
  BY <1>2, PaidMore, PaidTypes
<1>5. /\ escrows[e].status = "Open" /\ UNCHANGED <<feeBps, escrows>> /\ ether' = ether + a
  BY DEF Escrows!PayForOrder
<1>6. memberPaidWei' = [memberPaidWei EXCEPT ![e] = p]
  BY <1>1, <1>2 DEF Escrows!PayForOrder
<1>7. escrows' = [escrows EXCEPT ![e].status = "Open"]
  BY <1>1, <1>2, <1>5 DEF EscrowRow
<1>. HIDE DEF p
<1>8. /\ SumPaid(p) >= SumPaid(memberPaidWei[e]) /\ ether' \in Nat
      /\ ether' = ether + SumPaid(p) - SumPaid(memberPaidWei[e])
  BY <1>1, <1>2, <1>4, <1>5
<1>. QED  BY <1>3, <1>5, <1>6, <1>7, <1>8, OneEscrow DEF EscrowStatuses

(* The steps that move a status on and take no ether.                       *)
LEMMA MoveKeeps ==
  ASSUME Escrows!ConstantsOK, EscrowInv, NEW e \in DOMAIN escrows,
         \/ Escrows!MerchantAccept(e) \/ Escrows!MerchantComplete(e)
         \/ \E m \in Members : Escrows!MemberConfirmReceived(m, e)
  PROVE  EscrowInv'
<1>1. /\ escrows \in Seq(EscrowRow) /\ memberPaidWei \in Seq(Payers)
      /\ Len(memberPaidWei) = Len(escrows) /\ ether \in Nat
  BY DEF EscrowInv, EscrowTypes
<1>2. DOMAIN memberPaidWei = DOMAIN escrows /\ memberPaidWei[e] \in Payers
  BY <1>1
<1>3. SumPaid(memberPaidWei[e]) \in Nat /\ \A m \in Members : memberPaidWei[e][m] <= SumPaid(memberPaidWei[e])
  BY <1>2, PaidTypes
<1>4. PICK s \in EscrowStatuses \ {"PaidOut"} :
        /\ escrows' = [escrows EXCEPT ![e].status = s] /\ escrows[e].status # "PaidOut"
        /\ s = "MemberConfirmed" => \E m \in Members : memberPaidWei[e][m] > 0
  BY DEF Escrows!MerchantAccept, Escrows!MerchantComplete, Escrows!MemberConfirmReceived,
         Escrows!MovesOn, Escrows!HasPaid, EscrowStatuses
<1>5. UNCHANGED <<feeBps, memberPaidWei, ether>>
  BY DEF Escrows!MerchantAccept, Escrows!MerchantComplete, Escrows!MemberConfirmReceived
<1>6. memberPaidWei' = [memberPaidWei EXCEPT ![e] = memberPaidWei[e]]
  BY <1>1, <1>5
<1>7. s \in {"MemberConfirmed", "PaidOut"} => SumPaid(memberPaidWei[e]) > 0
  <2>1. \A m \in Members : memberPaidWei[e][m] \in Nat
    BY <1>2 DEF Payers
  <2>. QED  BY <1>3, <1>4, <2>1
<1>8. /\ SumPaid(memberPaidWei[e]) >= SumPaid(memberPaidWei[e]) /\ ether' \in Nat
      /\ ether' = ether + SumPaid(memberPaidWei[e]) - SumPaid(memberPaidWei[e])
  BY <1>1, <1>3, <1>5
<1>. QED  BY <1>2, <1>4, <1>5, <1>6, <1>7, <1>8, OneEscrow

LEMMA ReleaseKeeps ==
  ASSUME Escrows!ConstantsOK, EscrowInv, NEW e \in DOMAIN escrows, Escrows!ReleasePayout(e)
  PROVE  EscrowInv'
<1>1. /\ escrows \in Seq(EscrowRow) /\ memberPaidWei \in Seq(Payers)
      /\ Len(memberPaidWei) = Len(escrows) /\ ether \in Nat /\ PaidFirst
  BY DEF EscrowInv, EscrowTypes
<1>2. DOMAIN memberPaidWei = DOMAIN escrows /\ memberPaidWei[e] \in Payers
      /\ escrows[e] \in EscrowRow
  BY <1>1
<1>3. SumPaid(memberPaidWei[e]) \in Nat /\ escrows[e].total \in Nat
  BY <1>2, PaidTypes DEF EscrowRow
<1>4. /\ escrows[e].status = "MemberConfirmed" /\ escrows[e].total <= ether
      /\ escrows' = [escrows EXCEPT ![e].status = "PaidOut"]
      /\ ether' = ether - escrows[e].total /\ UNCHANGED <<feeBps, memberPaidWei>>
  BY DEF Escrows!ReleasePayout, Escrows!Releasable
<1>5. memberPaidWei' = [memberPaidWei EXCEPT ![e] = memberPaidWei[e]]
  BY <1>1, <1>4
<1>6. SumPaid(memberPaidWei[e]) > 0
  BY <1>1, <1>4 DEF PaidFirst
<1>7. /\ SumPaid(memberPaidWei[e]) >= SumPaid(memberPaidWei[e]) /\ ether' \in Nat
      /\ ether' = ether + SumPaid(memberPaidWei[e]) - SumPaid(memberPaidWei[e]) - escrows[e].total
  BY <1>1, <1>3, <1>4
<1>. QED  BY <1>2, <1>4, <1>5, <1>6, <1>7, OneEscrow DEF EscrowStatuses

LEMMA EscrowsInductive ==
  Escrows!ConstantsOK /\ EscrowInv /\ [Escrows!Next]_(Escrows!vars) => EscrowInv'
<1>. SUFFICES ASSUME Escrows!ConstantsOK, EscrowInv, [Escrows!Next]_(Escrows!vars)
              PROVE  EscrowInv'
  OBVIOUS
<1>1. CASE UNCHANGED Escrows!vars
  BY <1>1 DEF Escrows!vars, EscrowInv, EscrowTypes, PaidFirst
<1>2. ASSUME NEW f \in FeeRates, Escrows!SetEscrowParams(f)  PROVE EscrowInv'
  BY <1>2 DEF Escrows!SetEscrowParams, EscrowInv, EscrowTypes, PaidFirst
<1>3. Escrows!Next =>
        \/ \E f \in FeeRates : Escrows!SetEscrowParams(f)
        \/ \E w \in Shops, total \in Totals : Escrows!OpenEscrow(w, total)
        \/ \E e \in DOMAIN escrows, m \in Members, a \in Payments : Escrows!PayForOrder(m, e, a)
        \/ \E e \in DOMAIN escrows :
             \/ Escrows!MerchantAccept(e) \/ Escrows!MerchantComplete(e)
             \/ \E m \in Members : Escrows!MemberConfirmReceived(m, e)
        \/ \E e \in DOMAIN escrows : Escrows!ReleasePayout(e)
  BY DEF Escrows!Next, Escrows!Orders
<1>. QED  BY <1>1, <1>2, <1>3, OpenKeeps, PayKeeps, MoveKeeps, ReleaseKeeps

LEMMA HeldCovers == Escrows!ConstantsOK /\ EscrowInv => Escrows!EscrowsCovered
<1>. SUFFICES ASSUME Escrows!ConstantsOK, EscrowInv  PROVE Escrows!EscrowsCovered
  OBVIOUS
<1>. DEFINE D == DOMAIN escrows
            h == [e \in D |-> Held(escrows[e], memberPaidWei[e])]
            o == [e \in D |-> Escrows!Overdrawn(e)]
            k == [e \in D |-> Escrows!Kept(e)]
            b == [e \in D |-> h[e] + o[e]]
<1>1. /\ escrows \in Seq(EscrowRow) /\ memberPaidWei \in Seq(Payers)
      /\ Len(memberPaidWei) = Len(escrows) /\ PaidFirst
      /\ ether = AllHeld(escrows, memberPaidWei)
  BY DEF EscrowInv, EscrowTypes
<1>2. D = 1..Len(escrows) /\ Len(escrows) \in Nat /\ DOMAIN memberPaidWei = D
  BY <1>1
<1>3. IsFiniteSet(D)
  BY <1>2, FS_Interval
<1>4. \A e \in D : /\ escrows[e].total \in Nat /\ memberPaidWei[e] \in Payers
                   /\ SumPaid(memberPaidWei[e]) \in Nat
  <2>1. \A e \in D : escrows[e] \in EscrowRow /\ memberPaidWei[e] \in Payers
    BY <1>1, <1>2
  <2>2. \A row \in EscrowRow : row.total \in Nat
    BY DEF EscrowRow
  <2>. QED  BY <2>1, <2>2, PaidTypes
<1>5. \A e \in D : Escrows!PaidIn(e) = SumPaid(memberPaidWei[e])
  BY <1>4, EscrowSum DEF Escrows!PaidIn, Escrows!SumFunction, SumPaid, Payers
<1>6. \A e \in D : Held(escrows[e], memberPaidWei[e]) \in Int /\ Escrows!Overdrawn(e) \in Int
                   /\ Escrows!Kept(e) \in Int
                   /\ Escrows!Kept(e) <= Held(escrows[e], memberPaidWei[e]) + Escrows!Overdrawn(e)
  BY <1>4, <1>5 DEF Held, Escrows!Overdrawn, Escrows!Kept
<1>7. /\ IntValued(h, D) /\ IntValued(o, D) /\ IntValued(k, D) /\ IntValued(b, D)
      /\ \A e \in D : b[e] = h[e] + o[e] /\ k[e] <= b[e]
  BY <1>6 DEF IntValued
<1>8. ether = SumFunctionOnSet(h, D)
  BY <1>1 DEF AllHeld
<1>9. /\ Escrows!SumFunction([e \in Escrows!Orders |-> Escrows!Overdrawn(e)]) = SumFunctionOnSet(o, D)
      /\ Escrows!SumFunction([e \in Escrows!Orders |-> Escrows!Kept(e)]) = SumFunctionOnSet(k, D)
  BY EscrowSum DEF Escrows!SumFunction, Escrows!Orders
<1>. HIDE DEF h, o, k, b, D
<1>10. SumFunctionOnSet(b, D) = SumFunctionOnSet(h, D) + SumFunctionOnSet(o, D)
  BY <1>3, <1>7, SumPlus
<1>11. SumFunctionOnSet(k, D) <= SumFunctionOnSet(b, D)
  BY <1>3, <1>7, SumLeq
<1>12. SumFunctionOnSet(k, D) \in Int /\ SumFunctionOnSet(h, D) \in Int /\ SumFunctionOnSet(o, D) \in Int
  BY <1>3, <1>7, SumStep
<1>13. ether + SumFunctionOnSet(o, D) >= SumFunctionOnSet(k, D)
  BY <1>8, <1>10, <1>11, <1>12
<1>14. \A e \in D : escrows[e].status \in {"MemberConfirmed", "PaidOut"} => Escrows!PaidIn(e) > 0
  BY <1>1, <1>5 DEF PaidFirst, D
<1>. QED  BY <1>9, <1>13, <1>14 DEF Escrows!EscrowsCovered, Escrows!Orders, D

(* The records of both contracts agree with the ether and the coupons they  *)
(* stand for: counts with packed votes, fees with rounds, coupons with      *)
(* claims, escrows with payments.                                           *)
RecordsAddUp ==
  /\ TalliesMatchRecords /\ FeesMatchRecords /\ CouponsBacked
  /\ Escrows!EscrowsCovered

(* What was paid into the escrows that are not paid out is in the contract, *)
(* or another escrow was overdrawn.                                         *)
THEOREM EscrowsStayCovered ==
  ASSUME Escrows!ConstantsOK PROVE Escrows!Spec => []Escrows!EscrowsCovered
<1>1. Escrows!Init => EscrowInv
  BY EscrowsInit
<1>2. EscrowInv /\ [Escrows!Next]_(Escrows!vars) => EscrowInv'
  BY EscrowsInductive
<1>3. EscrowInv => Escrows!EscrowsCovered
  BY HeldCovers
<1>. QED  BY <1>1, <1>2, <1>3, PTL DEF Escrows!Spec

(* No record of the two contracts ever disagrees with what it counts.       *)
THEOREM ContractsAddUp ==
  ASSUME ConstantsOK, Escrows!ConstantsOK PROVE Spec /\ Escrows!Spec => []RecordsAddUp
<1>1. Spec => []TalliesMatchRecords
  BY GovernanceTallies
<1>2. Spec => []FeesMatchRecords
  BY GovernanceFees
<1>3. Spec => []CouponsBacked
  BY GovernanceCoupons
<1>4. Escrows!Spec => []Escrows!EscrowsCovered
  BY EscrowsStayCovered
<1>. QED  BY <1>1, <1>2, <1>3, <1>4, PTL DEF RecordsAddUp
=============================================================================

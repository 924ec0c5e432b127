---------------------------- MODULE ProposalRound ----------------------------
(***************************************************************************)
(* One local proposal round of the backend: created, given options, voted  *)
(* on, and settled when somebody reads it after the vote deadline.         *)
(*                                                                         *)
(* Requests run concurrently.  Each is served by a worker that             *)
(*   - refreshes the round (refreshProposalState): it reads the row, then  *)
(*     the votes and the best option, then writes the winner, by id,       *)
(*   - if the round is due, loads it and then applies the settlement in a  *)
(*     second transaction (applyLocalSettlementRewards),                   *)
(*   - loads the round and checks the request against what it loaded       *)
(*     (ProposalService), and                                              *)
(*   - commits the change in a transaction of its own (PostgresStore).     *)
(* Other workers and the clock move between any two of these steps.  A     *)
(* transaction is one step where its rows are locked or its statements are *)
(* relative; the one that deletes a round is two, and the refresh, which   *)
(* locks nothing (read committed), is three.  The reads of one             *)
(* loadProposal are one step.  Database errors other than unique-index     *)
(* violations are left out.                                                *)
(*                                                                         *)
(* Option identifiers are given out in order from 1; winner = 0 is "none". *)
(***************************************************************************)
EXTENDS Integers, FiniteSets, Functions

CONSTANTS
  Members, Creator,
  Merchants,
  Workers,              \* request handlers that may run at once
  Kinds,                \* requests made: subset of {"add","vote","delete"}
  Schedules,            \* deadlines and the day a creator may ask for
  CouponChoices,        \* whether the creator asks to pay with a coupon
  TicketChoices,        \* whether an option or a vote asks to use a ticket
  VoteCounts,
  AdminStages,          \* stages the admin may advance a round to
  Tickets,              \* tickets of each kind each member starts with
  CreateFee, ProposalFee, VoteFee,
  WinnerProposalRefundBps, LoserProposalRefundBps, VoteRefundBps,
  WinnerBonusBps, LoserBonusBps,
  WinnerProposalPoints, WinnerVotePointsPerVote,
  MaxOptions, MaxTime

MaxPerMember == 2
Rates == 0..10000   \* basis points
Bps(amount, bps) == (amount * bps) \div 10000
Total(f) == SumFunction(f)

ASSUME RoundAssumption ==
  /\ IsFiniteSet(Members) /\ Creator \in Members
  /\ IsFiniteSet(Merchants) /\ IsFiniteSet(Workers) /\ Workers # {}
  /\ {Tickets, CreateFee, ProposalFee, VoteFee, MaxTime} \subseteq Nat
  /\ MaxOptions \in Nat \ {0}
  /\ VoteCounts \subseteq Nat \ {0}
  /\ Schedules \subseteq [proposal: Nat, vote: Nat, order: Nat, dayStart: Nat, dayEnd: Nat]
  /\ \A bps \in {WinnerProposalRefundBps, LoserProposalRefundBps, VoteRefundBps,
                 WinnerBonusBps, LoserBonusBps} : bps \in Rates

VARIABLES
  now,
  row,        \* the proposals row
  options,    \* proposal_options rows, by id
  votes,      \* votes rows; "late" is history, whether the voting was over
  nextOption, \* the id sequence of proposal_options
  tickets,    \* the members' proposal and vote tickets
  points,     \* the members' points
  paid,       \* history: fees the members paid for this round
  credited,   \* history: refunds and rewards credited for this round
  settlements,\* history: settlement transactions committed
  work        \* what each worker is doing

moneyVars == <<tickets, points, paid, credited>>
vars == <<now, row, options, votes, nextOption, moneyVars, settlements, work>>

NoRow == [exists |-> FALSE, sched |-> [proposal |-> 0, vote |-> 0, order |-> 0,
                                       dayStart |-> 0, dayEnd |-> 0],
          coupon |-> FALSE, winner |-> 0, rewards |-> FALSE, failed |-> FALSE]
NoRequest == [kind |-> "none"]
Idle == [at |-> "idle", req |-> NoRequest, view |-> NoRequest]

Answering == [Idle EXCEPT !.at = "reread"]
Loading   == [Idle EXCEPT !.at = "load"]

Requests ==
  [kind: Kinds \cap {"add"}, member: Members, merchant: Merchants, ticket: TicketChoices]
  \cup [kind: Kinds \cap {"vote"}, member: Members, option: 1..nextOption,
        count: VoteCounts, ticket: TicketChoices]
  \cup [kind: Kinds \cap {"delete"}, member: {Creator}]

TypeOK ==
  /\ now \in 0..MaxTime
  /\ row \in [exists: BOOLEAN, sched: Schedules \cup {row.sched},
              coupon: BOOLEAN, winner: Nat, rewards: BOOLEAN, failed: BOOLEAN]
  /\ nextOption \in Nat \ {0}
  /\ DOMAIN options \subseteq 1..(nextOption - 1)
  /\ \A i \in DOMAIN options :
       options[i] \in [merchant: Merchants, proposer: Members, fee: Nat,
                       ticket: BOOLEAN, votes: Nat, collected: Nat]
  /\ votes \subseteq [member: Members, option: Nat, count: Nat, fee: Nat, ticket: BOOLEAN,
                       late: BOOLEAN]
  /\ tickets \in [Members -> [proposal: 0..Tickets, vote: 0..Tickets]]
  /\ points \in [Members -> Nat] /\ paid \in [Members -> Nat]
  /\ credited \in [Members -> Nat] /\ settlements \in Nat
  /\ \A w \in Workers :
       work[w].at \in {"idle", "tally", "fix", "settle", "apply", "load", "commit",
                         "reread", "advance", "erase"}

Init ==
  /\ now = 0 /\ row = NoRow
  /\ options = <<>> /\ votes = {} /\ nextOption = 1
  /\ tickets = [m \in Members |-> [proposal |-> Tickets, vote |-> Tickets]]
  /\ points = [m \in Members |-> 0]
  /\ paid = [m \in Members |-> 0] /\ credited = [m \in Members |-> 0]
  /\ settlements = 0
  /\ work = [w \in Workers |-> Idle]

-----------------------------------------------------------------------------
(* What a reader derives from the row and the clock.                        *)
Today(r)    == r.sched.dayStart <= now /\ now < r.sched.dayEnd
VoteDue(r)  == now >= r.sched.vote
SettlesWithWinner(r) == ~r.rewards /\ Today(r) /\ VoteDue(r) /\ r.winner > 0
ShouldAutoSettle(r) == ~r.rewards /\ Today(r) /\ VoteDue(r)

(* failed_reason is only ever set together with rewards_applied, so the     *)
(* later tests of it in deriveStatus change nothing.                        *)
Status(r) ==
  IF r.rewards /\ r.failed THEN "failed"
  ELSE IF now >= r.sched.dayEnd THEN "settled"
  ELSE IF now < r.sched.dayStart THEN "upcoming"
  ELSE IF now < r.sched.proposal THEN "proposing"
  ELSE IF now < r.sched.vote THEN "voting"
  ELSE IF now < r.sched.order THEN "ordering"
  ELSE IF r.rewards \/ r.winner > 0 THEN "settled"
  ELSE "awaiting_settlement"

TotalVotes == Total([v \in votes |-> v.count])

(* ORDER BY weighted_votes DESC, id ASC; 0 when there is no option.         *)
BestOption ==
  IF DOMAIN options = {} THEN 0
  ELSE CHOOSE i \in DOMAIN options : \A j \in DOMAIN options :
         \/ options[i].votes > options[j].votes
         \/ options[i].votes = options[j].votes /\ i <= j

-----------------------------------------------------------------------------
(* resolveProposalSchedule: a round is for today or a later day.            *)
Create(w, s, coupon) ==
  LET used == coupon /\ Tickets > 0
  IN /\ work[w].at = "idle" /\ row = NoRow
     /\ now < s.proposal /\ now < s.dayEnd
     /\ s.proposal < s.vote /\ s.vote < s.order
     /\ row' = [NoRow EXCEPT !.exists = TRUE, !.sched = s, !.coupon = used]
     /\ paid' = [paid EXCEPT ![Creator] = @ + (IF used THEN 0 ELSE CreateFee)]
     /\ work' = [work EXCEPT ![w] = Answering]
     /\ UNCHANGED <<now, options, votes, nextOption, tickets, points, credited, settlements>>

(* The first transaction of every request: fix the winner if it is due.     *)
(* What it found when it read the row decides, whatever has been committed  *)
(* meanwhile.                                                               *)
WinnerUnset(r) == r.winner = 0
DueWithProposals(r) == Today(r) /\ WinnerUnset(r) /\ now >= r.sched.proposal
WinnerDue(r) == Today(r) /\ WinnerUnset(r) /\ VoteDue(r)

(* How a refresh of the copy r ends: the settlement looks at the copy.      *)
Refreshed(w, r) ==
  work' = [work EXCEPT ![w] = IF ShouldAutoSettle(r) THEN [Idle EXCEPT !.at = "settle"] ELSE Loading]

Refresh(w) ==
  /\ row.exists
  /\ IF WinnerDue(row) /\ DOMAIN options # {}
     THEN work' = [work EXCEPT ![w] = [at |-> "tally", req |-> NoRequest, view |-> [copy |-> row]]]
     ELSE Refreshed(w, row)
  /\ UNCHANGED <<now, row, options, votes, nextOption, moneyVars, settlements>>

Begin(w) ==
  /\ work[w].at = "idle"
  /\ Refresh(w)

(* A request that changed the round answers with a fresh copy of it.        *)
Reread(w) ==
  /\ work[w].at = "reread"
  /\ Refresh(w)

(* Without votes there is no winner; without options, which can only be if  *)
(* the round has been deleted, nothing is settled.                          *)
ReadWinner(w) ==
  LET r == work[w].view.copy
  IN /\ work[w].at = "tally"
     /\ IF DOMAIN options = {} THEN work' = [work EXCEPT ![w] = Loading]
        ELSE IF TotalVotes = 0 THEN Refreshed(w, r)
        ELSE work' = [work EXCEPT ![w] =
               [at |-> "fix", req |-> NoRequest, view |-> [copy |-> r, best |-> BestOption]]]
     /\ UNCHANGED <<now, row, options, votes, nextOption, moneyVars, settlements>>

FixWinner(w) ==
  LET best == work[w].view.best
  IN /\ work[w].at = "fix"
     /\ row' = IF row.exists THEN [row EXCEPT !.winner = best] ELSE row
     /\ Refreshed(w, [work[w].view.copy EXCEPT !.winner = best])
     /\ UNCHANGED <<now, options, votes, nextOption, moneyVars, settlements>>

(* GetProposal fails once the row is gone, and so does the request.         *)
NotFound(w) ==
  /\ ~row.exists /\ work[w].at \in {"reread", "settle", "load"}
  /\ work' = [work EXCEPT ![w] = Idle]
  /\ UNCHANGED <<now, row, options, votes, nextOption, moneyVars, settlements>>

(* applyLocalSettlementRewards: what it loads before its transaction.       *)
LoadForSettlement(w) ==
  /\ work[w].at = "settle" /\ row.exists
  /\ work' = [work EXCEPT ![w] =
       [at |-> IF ShouldAutoSettle(row) THEN "apply" ELSE "load", req |-> NoRequest,
        view |-> [winner |-> row.winner, options |-> options, total |-> TotalVotes]]]
  /\ UNCHANGED <<now, row, options, votes, nextOption, moneyVars, settlements>>

-----------------------------------------------------------------------------
(* The settlement itself: options as loaded, votes as they are now.         *)
VoteRefund(fee) == Bps(fee, VoteRefundBps)

BonusOfAllFees(collected, bps) == Bps(collected, bps) + VoteRefund(collected)
Bonus(collected, bps) == Bps(collected - VoteRefund(collected), bps)

OptionCredit(o, isWinner) ==
  Bps(o.fee, IF isWinner THEN WinnerProposalRefundBps ELSE LoserProposalRefundBps)
  + Bonus(o.collected, IF isWinner THEN WinnerBonusBps ELSE LoserBonusBps)

CreditTo(view, m) ==
  (IF m = Creator THEN CreateFee ELSE 0)
  + Total([i \in {i \in DOMAIN view.options : view.options[i].proposer = m} |->
             OptionCredit(view.options[i], i = view.winner)])
  + Total([v \in {v \in votes : v.member = m} |-> VoteRefund(v.fee)])

PointsTo(view, m) ==
  (IF \E i \in DOMAIN view.options : i = view.winner /\ view.options[i].proposer = m
   THEN WinnerProposalPoints ELSE 0)
  + Total([v \in {v \in votes : v.member = m /\ v.option = view.winner} |->
             v.count * WinnerVotePointsPerVote])

(* Nothing here looks at rewards_applied again.                             *)
ApplySettlement(w) ==
  LET view == work[w].view
      none == view.total = 0
  IN /\ work[w].at = "apply"
     /\ row' = IF row.exists
               THEN [row EXCEPT !.rewards = TRUE, !.failed = @ \/ none] ELSE row
     /\ IF none
        THEN UNCHANGED <<points, credited>>
        ELSE /\ credited' = [m \in Members |-> credited[m] + CreditTo(view, m)]
             /\ points' = [m \in Members |-> points[m] + PointsTo(view, m)]
     /\ settlements' = settlements + 1
     /\ work' = [work EXCEPT ![w] = Loading]
     /\ UNCHANGED <<now, options, votes, nextOption, tickets, paid>>

-----------------------------------------------------------------------------
(* The service's checks, made on the round as loaded.                       *)
NoOptionLimit == TRUE
OptionLimit == Cardinality(DOMAIN options) < MaxOptions

MayAdd(req) ==
  /\ Today(row) /\ OptionLimit
  /\ \A i \in DOMAIN options : options[i].merchant # req.merchant
  /\ Cardinality({i \in DOMAIN options : options[i].proposer = req.member}) < MaxPerMember

MayVote(req) ==
  /\ Today(row) /\ Status(row) = "voting"
  /\ req.ticket => tickets[req.member].vote > 0
  /\ req.option \in DOMAIN options

MayDelete(req) ==
  /\ Today(row) /\ Status(row) = "proposing"
  /\ \A i \in DOMAIN options : options[i].proposer = req.member
  /\ votes = {}

Allowed(req) ==
  \/ req.kind = "add" /\ MayAdd(req)
  \/ req.kind = "vote" /\ MayVote(req)
  \/ req.kind = "delete" /\ MayDelete(req)

(* What a request asks for is chosen here, where it is first looked at; a   *)
(* read, or a request that is refused, ends.  A worker that reread the round*)
(* may go on with its next request: refreshing twice in a row is the same.  *)
Load(w) ==
  /\ work[w].at = "load" /\ row.exists
  /\ \/ work' = [work EXCEPT ![w] = Idle]
     \/ \E req \in Requests :
          /\ Allowed(req)
          /\ work' = [work EXCEPT ![w] = [at |-> "commit", req |-> req, view |-> NoRequest]]
  /\ UNCHANGED <<now, row, options, votes, nextOption, moneyVars, settlements>>

-----------------------------------------------------------------------------
(* The store's transactions.                                                *)
MerchantIndex(merchant) == \A i \in DOMAIN options : options[i].merchant # merchant

(* A ticket is used if there is one when the member's row is locked; an     *)
(* index violation rolls everything back.                                   *)
UsesProposalTicket(req) == req.ticket /\ tickets[req.member].proposal > 0

TicketKept(m, used) == tickets
TicketSpent(m, used) ==
  IF used THEN [tickets EXCEPT ![m].proposal = @ - 1] ELSE tickets

InsertProposalOption(w) ==
  LET req  == work[w].req
      used == UsesProposalTicket(req)
      fee  == IF used THEN 0 ELSE ProposalFee
  IN /\ work[w].at = "commit" /\ req.kind = "add"
     /\ IF MerchantIndex(req.merchant)
        THEN /\ options' = [i \in DOMAIN options \cup {nextOption} |->
                  IF i \in DOMAIN options THEN options[i]
                  ELSE [merchant |-> req.merchant, proposer |-> req.member, fee |-> fee,
                        ticket |-> used, votes |-> 0, collected |-> 0]]
             /\ nextOption' = nextOption + 1
             /\ tickets' = TicketSpent(req.member, used)
             /\ paid' = [paid EXCEPT ![req.member] = @ + fee]
             /\ work' = [work EXCEPT ![w] = Answering]
        ELSE /\ work' = [work EXCEPT ![w] = Idle]
             /\ UNCHANGED <<options, nextOption, tickets, paid>>
     /\ UNCHANGED <<now, row, votes, points, credited, settlements>>

FirstVote(m) == \A v \in votes : v.member # m

VoteFeeFor(req) == (req.count - (IF req.ticket THEN 1 ELSE 0)) * VoteFee
CountedOnce(votesBefore, count) == IF votesBefore = 0 THEN count ELSE votesBefore
Counted(votesBefore, count) == votesBefore + count
WithVote(o, count, fee) ==
  [o EXCEPT !.votes = Counted(@, count), !.collected = @ + fee]

(* The voting is over by its deadline, or once an admin who ends it has     *)
(* read the best option.  Nothing keeps a vote that was let through before  *)
(* from being recorded then.                                                *)
VotingOver == VoteDue(row) \/ \E u \in Workers : work[u].at = "advance"

RecordVote(w) ==
  LET req == work[w].req
      fee == VoteFeeFor(req)
      m   == req.member
      i   == req.option
  IN /\ work[w].at = "commit" /\ req.kind = "vote"
     /\ IF FirstVote(m) /\ (req.ticket => tickets[m].vote > 0)
        THEN /\ tickets' = IF req.ticket THEN [tickets EXCEPT ![m].vote = @ - 1] ELSE tickets
             /\ options' = IF i \notin DOMAIN options THEN options
                           ELSE [options EXCEPT ![i] = WithVote(@, req.count, fee)]
             /\ votes' = votes \cup
                  {[member |-> m, option |-> i, count |-> req.count, fee |-> fee,
                    ticket |-> req.ticket, late |-> VotingOver]}
             /\ paid' = [paid EXCEPT ![m] = @ + fee]
             /\ work' = [work EXCEPT ![w] = Answering]
        ELSE /\ work' = [work EXCEPT ![w] = Idle]
             /\ UNCHANGED <<options, votes, tickets, paid>>
     /\ UNCHANGED <<now, row, nextOption, points, credited, settlements>>

(* The transaction looks at votes and options again, but not at the stage,  *)
(* and locks nothing: what is committed before its deletes run goes with    *)
(* the round, and an option inserted later stays without one.               *)
Deletable(m) == votes = {} /\ \A i \in DOMAIN options : options[i].proposer = m

DeleteRefund(m) ==
  Total([i \in DOMAIN options |-> options[i].fee]) + CreateFee \div 2

CheckDeletable(w) ==
  LET m == work[w].req.member
  IN /\ work[w].at = "commit" /\ work[w].req.kind = "delete"
     /\ work' = [work EXCEPT ![w] =
          IF row.exists /\ Deletable(m)
          THEN [at |-> "erase", req |-> work[w].req, view |-> [refund |-> DeleteRefund(m)]]
          ELSE Idle]
     /\ UNCHANGED <<now, row, options, votes, nextOption, moneyVars, settlements>>

DeleteProposalByCreator(w) ==
  /\ work[w].at = "erase"
  /\ row' = [row EXCEPT !.exists = FALSE]
  /\ options' = <<>> /\ votes' = {}
  /\ credited' = [credited EXCEPT ![work[w].req.member] = @ + work[w].view.refund]
  /\ work' = [work EXCEPT ![w] = Idle]
  /\ UNCHANGED <<now, nextOption, tickets, points, paid, settlements>>

-----------------------------------------------------------------------------
(* The admin moves a deadline to a second before now.  For "ordering" the   *)
(* best option is read first and stored with the deadline by a second       *)
(* statement: it overwrites the winner, and votes may be committed between  *)
(* the two.  The handler then reads the round as any other request does.    *)
Before(t) == IF t = 0 THEN 0 ELSE t - 1

ReadBestOption(w) ==
  /\ "ordering" \in AdminStages
  /\ work[w].at = "idle" /\ row.exists
  /\ work' = [work EXCEPT ![w] =
       [at |-> "advance", req |-> NoRequest, view |-> [best |-> BestOption, time |-> now]]]
  /\ UNCHANGED <<now, row, options, votes, nextOption, moneyVars, settlements>>

AdvanceToOrdering(w) ==
  /\ work[w].at = "advance"
  /\ row' = IF row.exists
            THEN [row EXCEPT !.sched.vote = Before(work[w].view.time),
                             !.winner = work[w].view.best]
            ELSE row
  /\ work' = [work EXCEPT ![w] = Answering]
  /\ UNCHANGED <<now, options, votes, nextOption, moneyVars, settlements>>

AdvanceProposalStage(w, stage) ==
  /\ stage \in AdminStages \ {"ordering"}
  /\ work[w].at = "idle" /\ row.exists
  /\ row' = IF stage = "voting" THEN [row EXCEPT !.sched.proposal = Before(now)]
            ELSE [row EXCEPT !.sched.order = Before(now)]
  /\ work' = [work EXCEPT ![w] = Answering]
  /\ UNCHANGED <<now, options, votes, nextOption, moneyVars, settlements>>

Tick ==
  /\ now < MaxTime /\ now' = now + 1
  /\ UNCHANGED <<row, options, votes, nextOption, moneyVars, settlements, work>>

Step(w) ==
  \/ Reread(w) \/ ReadWinner(w) \/ FixWinner(w) \/ NotFound(w)
  \/ LoadForSettlement(w) \/ ApplySettlement(w) \/ Load(w)
  \/ InsertProposalOption(w) \/ RecordVote(w)
  \/ CheckDeletable(w) \/ DeleteProposalByCreator(w)
  \/ AdvanceToOrdering(w)

Next ==
  \/ \E w \in Workers :
       \/ \E s \in Schedules, c \in CouponChoices : Create(w, s, c)
       \/ Begin(w) \/ ReadBestOption(w)
       \/ \E stage \in AdminStages : AdvanceProposalStage(w, stage)
       \/ Step(w)
  \/ Tick

Spec == Init /\ [][Next]_vars

(* The page of ongoing orders asks for all rounds every five seconds        *)
(* (apps/web/components/member-ongoing-orders.tsx:25), so reads keep coming; a *)
(* request that has begun runs to its end; time passes.  Nobody has to ask  *)
(* for a change: no fairness for Create or for what Load lets through.      *)
Fairness ==
  /\ WF_vars(Tick)
  /\ \A w \in Workers : WF_vars(Begin(w)) /\ WF_vars(Step(w))
FairSpec == Spec /\ Fairness

-----------------------------------------------------------------------------
(* Two concurrent reads at the vote deadline find the round due together;   *)
(* nothing stops the second settlement, but each one pays out at most what  *)
(* the members paid, and the creation fee, which is credited even if it was *)
(* paid with a coupon (applyLocalSettlementRewards, postgres.go:3882-3986). *)
(* The refund of a deletion comes on top once the round is gone.            *)
Worth == Total(paid) + (IF row.coupon THEN CreateFee ELSE 0)
RefundsCovered == row.exists => Total(credited) <= settlements * Worth

(* An option's weighted votes and collected fees are those of the votes     *)
(* recorded for it: no increment is lost, whatever RecordVote transactions  *)
(* overlap (postgres.go:1315-1368).                                         *)
TallyMatchesVotes ==
  \A i \in DOMAIN options :
    LET mine == {v \in votes : v.option = i}
    IN /\ options[i].votes = Total([v \in mine |-> v.count])
       /\ options[i].collected = Total([v \in mine |-> v.fee])

(* While a round exists its rows explain every fee paid and every ticket    *)
(* spent, and no ticket is spent twice: a refused insert or vote takes      *)
(* neither (postgres.go:1253-1368).                                         *)
FeesAndTickets ==
  row.exists => \A m \in Members :
    LET opts == {i \in DOMAIN options : options[i].proposer = m}
        cast == {v \in votes : v.member = m}
    IN /\ paid[m] = (IF m = Creator /\ ~row.coupon THEN CreateFee ELSE 0)
                    + Total([i \in opts |-> options[i].fee])
                    + Total([v \in cast |-> v.fee])
       /\ tickets[m].proposal + Cardinality({i \in opts : options[i].ticket}) = Tickets
       /\ tickets[m].vote + Cardinality({v \in cast : v.ticket}) = Tickets

(* The option limits are checked before the insert, on a copy: each further *)
(* worker can exceed them by one, and no more (service/proposal.go:146-181).*)
OvershootBounded ==
  LET extra == Cardinality(Workers) - 1
  IN /\ Cardinality(DOMAIN options) <= MaxOptions + extra
     /\ \A m \in Members :
          Cardinality({i \in DOMAIN options : options[i].proposer = m}) <= MaxPerMember + extra

(* No option has more votes from before the voting was over than the option *)
(* that won has in all, although reads that overlap may each fix a winner,  *)
(* one over the other, votes may be recorded late, between the reads too,   *)
(* and an admin may end the voting meanwhile (refreshProposalState,         *)
(* postgres.go:3829-3872; AdvanceProposalStage, postgres.go:3518-3550).     *)
OnTime(i) == Total([v \in {v \in votes : v.option = i /\ ~v.late} |-> v.count])
WinnerIsBest ==
  row.exists /\ row.winner # 0 =>
    /\ row.winner \in DOMAIN options
    /\ \A i \in DOMAIN options : OnTime(i) <= options[row.winner].votes

(* Settlement rewards are applied once: applyLocalSettlementRewards returns *)
(* early when RewardsApplied is set (postgres.go:3887).                     *)
RewardsAppliedOnce == settlements <= 1

(* A round that exists is settled in the end: paid out or marked failed,    *)
(* unless its creator deletes it.  "proposal settlement is handled          *)
(* automatically when the voting deadline is reached"                       *)
(* (service/proposal.go:283); the settlement runs only inside reads.        *)
RoundSettles == row.exists ~> (row.rewards \/ ~row.exists)
=============================================================================

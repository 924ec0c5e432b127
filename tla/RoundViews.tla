----------------------------- MODULE RoundViews -----------------------------
(***************************************************************************)
(* The ordering pages of the web application, as one member sees one round  *)
(* of the current day: the lists and the detail pages of the stages, their  *)
(* refreshes (on opening, every five seconds while voting or ordering, and  *)
(* after an action), the redirect to the page of the stage the deadlines    *)
(* name, and the handlers of the buttons.                                   *)
(*                                                                          *)
(* A page shows a copy of the round that is as old as the last refresh that *)
(* was answered; refreshes overlap, and the one that is answered last need  *)
(* not be the one that was read last.  The two reads of the round that one  *)
(* refresh makes (in the list and by itself) are taken together.  The       *)
(* payment is one step here (PaymentSync has its steps), the rules of the   *)
(* server are those of ProposalRound and OrderLifecycle.                    *)
(***************************************************************************)
EXTENDS Naturals, FiniteSets, FiniteSetsExt

CONSTANTS Members, Me, Creator,
          Hidden,       \* stands for a member left out of an answer
          MaxOptions,   \* the round's limit of options
          Tickets,      \* the numbers of vote tickets a member may own
          Fetches,      \* refreshes of a page that overlap
          Handlers      \* handlers of a page that overlap

\* Answers leave members out by something that is none, and handlers are numbered.
ConstantsOK ==
  /\ {Me, Creator} \subseteq Members /\ IsFiniteSet(Members) /\ Hidden \notin Members
  /\ MaxOptions \in Nat \ {0} /\ Tickets \subseteq Nat /\ Handlers \subseteq Nat \ {0}

VARIABLES
  phase,    \* where the clock is: 0 proposing, 1 voting, 2 ordering, 3 after the deadlines
  round,    \* the round in the database
  standing, \* what the server keeps of Me: a member of the round's group, and the vote tickets
  page,     \* the page that is mounted
  seen,     \* its copy of the round
  fetch,    \* fetch[f]: a refresh of the page
  handler   \* handler[h]: a handler under way

vars == <<phase, round, standing, page, seen, fetch, handler>>

Stages == {"create", "proposal", "voting", "ordering", "submitted"}

\* The statuses of an order, in the order it goes through them; 0 for no order.
Received == 1  Accepted == 2  Completed == 3  Ready == 4  PaidOut == 5
MaxPerMember == 2
Statuses == {"proposing", "voting", "ordering", "failed", "settled", "awaiting_settlement"}

Round == [options: [Members -> 0 .. MaxPerMember], votes: SUBSET Members,
          winner: BOOLEAN, failed: BOOLEAN, orders: [Members -> 0 .. PaidOut]]
NoCopy == [there |-> FALSE]

(* What is filled in for a vote: a number of votes, one and the ticket, or   *)
(* the ticket alone, which leaves the field of the number closed and empty.  *)
Ballots == {"number", "ticket", "ticket only"}

Free == [kind |-> "none", ballot |-> "none", at |-> "idle", left |-> {}, live |-> FALSE,
         current |-> FALSE, phase |-> 0]
Open == [at |-> "none", copy |-> NoCopy, for |-> 0]
Kinds == {"option", "vote", "order", "confirm"}

TypeOK ==
  /\ phase \in 0 .. 3
  /\ round \in Round
  /\ standing \in [inGroup: BOOLEAN, tickets: Nat]
  /\ page \in [stage: Stages, detail: BOOLEAN, loaded: BOOLEAN, pending: BOOLEAN]
  /\ seen = NoCopy \/ (seen.status \in Statuses /\ seen.orders \in [Members -> 0 .. PaidOut])
  /\ \A f \in Fetches : fetch[f].at \in {"none", "asked", "read"}
  /\ \A h \in Handlers : /\ handler[h].at \in {"idle", "sign", "pay", "ask", "done", "await",
                                              "refused", "lost"}
                         /\ handler[h].kind \in Kinds \cup {"none"}
                         /\ handler[h].ballot \in Ballots \cup {"none"}
                         /\ handler[h].left \subseteq Members

----------------------------------------------------------------------------
(* What the server answers. *)

OptionCount(r) == MapThenSumSet(LAMBDA m : r.options[m], Members)

Status(r, p) ==
  IF p = 0 THEN "proposing"
  ELSE IF p = 1 THEN "voting"
  ELSE IF r.failed THEN "failed"
  ELSE IF p = 2 THEN "ordering"
  ELSE IF r.winner THEN "settled" ELSE "awaiting_settlement"

\* A read after the vote deadline fixes the winner, or that there is none.
Settled(r) ==
  IF phase < 2 \/ r.winner \/ r.failed THEN r
  ELSE [r EXCEPT !.winner = r.votes # {}, !.failed = r.votes = {}]

\* The creator, the proposers and the voters are left out of what is sent: of
\* votes only the reader's own is known.  The orders keep their creator.
Anonymized(r) == [there |-> TRUE, status |-> Status(r, phase), createdBy |-> Hidden,
                  proposers |-> {Hidden},
                  winner |-> r.winner, count |-> OptionCount(r), voted |-> Me \in r.votes,
                  voters |-> Cardinality(r.votes), orders |-> r.orders, by |-> Creator]
Copy == Anonymized(Settled(round))

\* A member who is not in the group is sent its rounds in no answer.
Sent == IF standing.inGroup THEN Copy ELSE NoCopy

----------------------------------------------------------------------------
(* What a page makes of its copy and the clock. *)

Ordered(c) == \E m \in Members : c.orders[m] # 0

ActiveOrdering(c) == c.status \notin {"failed", "cancelled"} /\ c.winner /\ phase < 3

Listed(c, stage) ==
  CASE stage \in {"create", "proposal"} -> c.status = "proposing"
    [] stage = "voting"    -> c.status = "voting"
    [] stage = "ordering"  -> c.status = "ordering" \/ ActiveOrdering(c)
    [] stage = "submitted" -> /\ phase = 3
                              /\ c.status \in {"settled", "awaiting_settlement", "ordering"}
                              /\ c.winner \/ Ordered(c)

\* The page of a round in progress, and none for a round that came to nothing.
StageForProposal(c) ==
  IF phase = 0 THEN "proposal"
  ELSE IF phase = 1 THEN "voting"
  ELSE IF phase = 2 /\ c.winner THEN "ordering"
  ELSE IF c.winner \/ Ordered(c) THEN "submitted" ELSE "none"

Confirmable(c) == {m \in Members : c.orders[m] = Completed}

IsCreator(c) ==
  IF c.createdBy \in Members THEN c.createdBy = Me ELSE Ordered(c) /\ c.by = Me
CanConfirm(c) == IsCreator(c) /\ Confirmable(c) # {}

CanWithdraw(c) ==
  /\ c.createdBy = Me /\ c.status = "proposing"
  /\ c.voters = 0 /\ ~Ordered(c)
  /\ c.proposers \subseteq {Me}

Shown == page.loaded /\ seen # NoCopy
OnDetail(stage) == Shown /\ page.detail /\ page.stage = stage

OffersOption == OnDetail("proposal") /\ ~page.pending
VoteForgotten(c) == FALSE
HasCurrentMemberVote(c) == c.voted
OffersVote  == OnDetail("voting") /\ ~HasCurrentMemberVote(seen) /\ ~page.pending
OffersOrder == OnDetail("ordering") /\ seen.winner /\ ~page.pending

\* The button of a list is not disabled while an action is pending.
OffersConfirm ==
  /\ Shown /\ page.stage = "submitted" /\ CanConfirm(seen)
  /\ IF page.detail THEN ~page.pending ELSE Listed(seen, "submitted")

----------------------------------------------------------------------------
(* Refreshes. *)

NoFetches == [f \in Fetches |-> Open]
Ask(fs, f, h) == [fs EXCEPT ![f] = [at |-> "asked", copy |-> NoCopy, for |-> h]]

\* A page that is mounted asks at once; what an earlier one asked is dropped,
\* and its handlers go on without it.
Mount(stage, detail) ==
  /\ page' = [stage |-> stage, detail |-> detail, loaded |-> FALSE, pending |-> FALSE]
  /\ seen' = NoCopy
  /\ fetch' = Ask(NoFetches, CHOOSE f \in Fetches : TRUE, 0)
  /\ handler' = [h \in Handlers |->
       IF handler[h].at = "await" THEN Free ELSE [handler[h] EXCEPT !.live = FALSE]]
  /\ UNCHANGED <<phase, round, standing>>

Visit(stage, detail) ==
  /\ stage = "create" => ~detail
  /\ Mount(stage, detail)

RefreshRead(f) ==
  /\ fetch[f].at = "asked"
  /\ fetch' = [fetch EXCEPT ![f].at = "read", ![f].copy = Sent]
  /\ round' = Settled(round)
  /\ UNCHANGED <<phase, standing, page, seen, handler>>

\* The handler that waits for it, if one does, is through.
Ends(f) ==
  LET h == fetch[f].for IN
  /\ page' = [page EXCEPT !.loaded = TRUE, !.pending = (h = 0 /\ @)]
  /\ handler' = IF h = 0 THEN handler ELSE [handler EXCEPT ![h] = Free]
  /\ fetch' = [fetch EXCEPT ![f] = Open]
  /\ UNCHANGED <<phase, round, standing>>

FirstAnswerStays(f) ==
  fetch[f].at = "read" /\ seen' = (IF seen = NoCopy THEN fetch[f].copy ELSE seen) /\ Ends(f)
RefreshAnswers(f) == fetch[f].at = "read" /\ seen' = fetch[f].copy /\ Ends(f)

\* A page whose first refresh fails shows nothing, until one succeeds.
RefreshFails(f) == fetch[f].at # "none" /\ Ends(f) /\ UNCHANGED seen

PolledOrdering == {"ordering"}
Polled == {"voting", "ordering"}
Poll(f) ==
  /\ page.stage \in Polled /\ fetch[f].at = "none"
  /\ fetch' = Ask(fetch, f, 0)
  /\ UNCHANGED <<phase, round, standing, page, seen, handler>>

Redirect ==
  LET stage == StageForProposal(seen) IN
  /\ Shown /\ page.detail
  /\ stage \notin {"none", page.stage}
  /\ Mount(stage, TRUE)

----------------------------------------------------------------------------
(* Handlers.  "current" and "phase" are what a press is judged by later:    *)
(* whether the page and its copy were as the round stood and nothing else   *)
(* was pressed before it was through, and the clock.                        *)

UpToDate == seen = Copy /\ StageForProposal(seen) \in {page.stage, "none"}

Press(h, kind, ballot, at, left) ==
  /\ handler[h] = Free
  /\ handler' = [g \in Handlers |-> IF g # h THEN [handler[g] EXCEPT !.current = FALSE]
       ELSE [kind |-> kind, ballot |-> ballot, at |-> at, left |-> left, live |-> TRUE,
             phase |-> phase,
             current |-> UpToDate /\ \A k \in Handlers : handler[k] = Free]]
  /\ page' = [page EXCEPT !.pending = TRUE]
  /\ UNCHANGED <<phase, round, standing, seen, fetch>>

\* Whether the member owns a ticket is not looked at when one is ticked.
PressOption(h) == OffersOption /\ Press(h, "option", "none", "pay", {})
PressVote(h)   == OffersVote   /\ \E b \in Ballots : Press(h, "vote", b, "pay", {})
PressOrder(h)  == OffersOrder  /\ Press(h, "order", "none", "sign", {})
PressConfirm(h) == OffersConfirm /\ Press(h, "confirm", "none", "ask", Confirmable(seen))

At(h, kind, at) == handler[h].kind = kind /\ handler[h].at = at
Goes(h, at) == handler' = [handler EXCEPT ![h].at = at]
KeepPage == UNCHANGED <<phase, standing, page, seen, fetch>>

\* The order is signed, and the stage looked at, before it is paid.
SignOrder(h) ==
  /\ At(h, "order", "sign")
  /\ Goes(h, IF standing.inGroup /\ phase = 2 /\ round.winner THEN "pay" ELSE "refused")
  /\ round' = Settled(round)
  /\ KeepPage

Pays(h) ==
  /\ handler[h].at = "pay" /\ Goes(h, "ask")
  /\ KeepPage /\ UNCHANGED round

RefusesPayment(h) ==
  /\ handler[h].at = "pay" /\ Goes(h, "lost")
  /\ KeepPage /\ UNCHANGED round

AddProposalOption(h) ==
  LET may == /\ standing.inGroup
             /\ OptionCount(round) < MaxOptions /\ round.options[Me] < MaxPerMember
  IN
  /\ At(h, "option", "ask")
  /\ round' = IF may THEN [Settled(round) EXCEPT !.options[Me] = @ + 1] ELSE Settled(round)
  /\ Goes(h, IF may THEN "done" ELSE "refused")
  /\ KeepPage

\* The server wants a number above 0, and the ticket that is to be spent.
Overdrawn(ballot) == ballot # "number" /\ standing.tickets = 0
Votable(ballot) == ballot # "ticket only" /\ ~Overdrawn(ballot)
Spend(ballot) == standing' = IF ballot = "ticket" THEN [standing EXCEPT !.tickets = @ - 1] ELSE standing

\* The answer to an accepted vote is the round, and replaces the page's copy.
VoteProposal(h) ==
  LET may == /\ standing.inGroup /\ phase = 1 /\ Me \notin round.votes
             /\ Votable(handler[h].ballot)
      new == [Settled(round) EXCEPT !.votes = @ \cup {Me}]
  IN /\ At(h, "vote", "ask")
     /\ round' = IF may THEN new ELSE Settled(round)
     /\ seen' = IF may /\ handler[h].live THEN Anonymized(new) ELSE seen
     /\ IF may THEN Spend(handler[h].ballot) ELSE UNCHANGED standing
     /\ Goes(h, IF may THEN "done" ELSE "refused")
     /\ UNCHANGED <<phase, page, fetch>>

\* Another payment for an order adds to it, and begins it anew.
FinalizeOrder(h) ==
  LET may == standing.inGroup /\ phase = 2 /\ Settled(round).winner IN
  /\ At(h, "order", "ask")
  /\ round' = IF may THEN [Settled(round) EXCEPT !.orders[Me] = Received] ELSE Settled(round)
  /\ Goes(h, IF may THEN "done" ELSE "refused")
  /\ KeepPage

\* One request per order, in turn; the first that is refused ends the rest.
ConfirmMemberOrder(h, m) ==
  /\ At(h, "confirm", "ask") /\ m \in handler[h].left
  /\ LET may == Creator = Me /\ round.orders[m] = Completed
         rest == handler[h].left \ {m}
     IN /\ round' = IF may THEN [round EXCEPT !.orders[m] = Ready] ELSE round
        /\ handler' = [handler EXCEPT ![h].left = rest,
             ![h].at = IF ~may THEN "refused" ELSE IF rest = {} THEN "done" ELSE "ask"]
  /\ KeepPage

\* What was done is followed by a refresh of the page, if it is still there.
Finish(h, f) ==
  /\ handler[h].at = "done" /\ handler[h].live /\ fetch[f].at = "none"
  /\ fetch' = Ask(fetch, f, h)
  /\ Goes(h, "await")
  /\ UNCHANGED <<phase, round, standing, page, seen>>

Report(h) ==
  /\ handler[h].at \in {"refused", "lost"} \/ (handler[h].at = "done" /\ ~handler[h].live)
  /\ page' = IF handler[h].live THEN [page EXCEPT !.pending = FALSE] ELSE page
  /\ handler' = [handler EXCEPT ![h] = Free]
  /\ UNCHANGED <<phase, round, standing, seen, fetch>>

\* The answer is lost, after the server did what was asked or without that.
LoseAnswer(h) ==
  /\ handler[h].at \in {"sign", "ask", "done"}
  /\ Goes(h, "lost") /\ KeepPage /\ UNCHANGED round

Serve(h) ==
  \/ AddProposalOption(h) \/ VoteProposal(h) \/ FinalizeOrder(h) \/ SignOrder(h)
  \/ \E m \in Members : ConfirmMemberOrder(h, m)

Continue(h) == (\E f \in Fetches : Finish(h, f)) \/ Report(h)

----------------------------------------------------------------------------
(* The clock, the other members, the merchant and the admin. *)

Tick == phase < 3 /\ phase' = phase + 1 /\ UNCHANGED <<round, standing, page, seen, fetch, handler>>

Elsewhere(r) == round' = r /\ UNCHANGED <<phase, standing, page, seen, fetch, handler>>

OtherProposes(m) ==
  /\ m # Me /\ phase = 0 /\ OptionCount(round) < MaxOptions /\ round.options[m] < MaxPerMember
  /\ Elsewhere([round EXCEPT !.options[m] = @ + 1])
OtherVotes(m) ==
  /\ m # Me /\ phase = 1 /\ m \notin round.votes
  /\ Elsewhere([round EXCEPT !.votes = @ \cup {m}])
OtherOrders(m) ==
  /\ m # Me /\ phase = 2 /\ Settled(round).winner /\ round.orders[m] = 0
  /\ Elsewhere([Settled(round) EXCEPT !.orders[m] = Received])
OrderAdvances(m) ==
  /\ round.orders[m] \in {Received, Accepted, Ready}
  /\ Elsewhere([round EXCEPT !.orders[m] = @ + 1])

\* The group's owner removes Me, an invitation is redeemed again, and tickets
\* are claimed and spent in other rounds.
StandingChanges ==
  /\ \/ standing' = [standing EXCEPT !.inGroup = ~@]
     \/ \E t \in Tickets \ {standing.tickets} : standing' = [standing EXCEPT !.tickets = t]
  /\ UNCHANGED <<phase, round, page, seen, fetch, handler>>

Others(m) == OtherProposes(m) \/ OtherVotes(m) \/ OtherOrders(m) \/ OrderAdvances(m)

----------------------------------------------------------------------------
Begins(p, r) ==
  /\ phase = p /\ round = r
  /\ standing \in [inGroup: {TRUE}, tickets: Tickets]
  /\ page = [stage |-> "create", detail |-> FALSE, loaded |-> FALSE, pending |-> FALSE]
  /\ seen = NoCopy
  /\ fetch = Ask(NoFetches, CHOOSE f \in Fetches : TRUE, 0)
  /\ handler = [h \in Handlers |-> Free]

New == [options |-> [m \in Members |-> IF m = Creator THEN 1 ELSE 0], votes |-> {},
        winner |-> FALSE, failed |-> FALSE, orders |-> [m \in Members |-> 0]]

Init == Begins(0, New)

Presses(h) == PressOption(h) \/ PressVote(h) \/ PressOrder(h) \/ PressConfirm(h)
Browses == \E stage \in Stages, detail \in BOOLEAN : Visit(stage, detail)
Runs(h) == Serve(h) \/ Pays(h) \/ RefusesPayment(h) \/ Continue(h)
Breaks == (\E f \in Fetches : RefreshFails(f)) \/ (\E h \in Handlers : LoseAnswer(h))
Loads(f) == RefreshRead(f) \/ RefreshAnswers(f)

Next ==
  \/ Tick \/ Redirect \/ Browses \/ Breaks \/ StandingChanges
  \/ \E f \in Fetches : Loads(f) \/ Poll(f)
  \/ \E h \in Handlers : Presses(h) \/ Runs(h)
  \/ \E m \in Members : Others(m)

Spec == Init /\ [][Next]_vars

(* Timers fire, effects run, and requests are served and answered; nobody   *)
(* has to press anything, and the clock need not reach a deadline.          *)
Fairness ==
  /\ WF_vars(Redirect)
  /\ \A f \in Fetches : WF_vars(Loads(f))
  /\ WF_vars(\E f \in Fetches : Poll(f))

FairSpec == Spec /\ Fairness

----------------------------------------------------------------------------
(* The server refuses a paid vote, a paid order or a confirmation only when *)
(* the page was behind, a deadline passed, another button was pressed, the  *)
(* member was removed from the group, or the round had come to nothing (its *)
(* voting page stays and offers votes).  A vote is refused as well when the *)
(* ticket was ticked without a number or without a ticket to spend: the     *)
(* page looks at neither before the payment.                                *)
Refused(h) ==
  /\ handler[h].at = "ask" /\ handler'[h].at = "refused"
  /\ handler[h].kind \in {"vote", "order", "confirm"}

RefusedOnlyBehind ==
  [][\A h \in Handlers : Refused(h) =>
       \/ ~handler[h].current \/ phase # handler[h].phase \/ ~standing.inGroup
       \/ handler[h].kind = "vote" /\ (round.failed \/ ~Votable(handler[h].ballot))]_vars

(* A page of the voting or the ordering stage that stays open does not keep *)
(* a round whose order deadline has passed, with a winner, from a member of *)
(* the group.                                                               *)
OnPolledPage == page.detail /\ page.stage \in {"voting", "ordering"}
PageFollowsRound ==
  (OnPolledPage /\ phase = 3 /\ round.votes # {}) ~> (~OnPolledPage \/ ~standing.inGroup)

(* A vote that was recorded is shown for good to a member of the group on a *)
(* voting page that stays open, although an answer to an older refresh may  *)
(* hide it for a while.                                                     *)
VoteStaysShown ==
  <>[](page.detail /\ page.stage = "voting" /\ Me \in round.votes /\ standing.inGroup
         => seen # NoCopy /\ HasCurrentMemberVote(seen))

(* A creator to whom a fresh copy of the round is shown, in which nobody    *)
(* else has proposed, is offered to withdraw it (the question the button    *)
(* asks says so).                                                           *)
WithdrawOffered ==
  (/\ OnDetail("proposal") /\ seen = Copy /\ Me = Creator /\ phase = 0
   /\ \A m \in Members \ {Me} : round.options[m] = 0)
  => CanWithdraw(seen)
=============================================================================

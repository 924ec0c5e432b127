----------------------------- MODULE MCRoundViews -----------------------------
(***************************************************************************)
(* RoundViews from the rounds a member may come upon, and for TLC with a    *)
(* bound on what the member, the others and the connection do after that.   *)
(***************************************************************************)
EXTENDS Naturals, FiniteSets

CONSTANTS Viewers, Me, Author,   \* the members, the one who looks, the round's creator
          Hidden, OptionsLimit, Owned, Fetches, Handlers,
          MaxPresses,   \* bound on the buttons that are pressed
          MaxEvents     \* bound on these, and on what else people and the connection do

VARIABLES phase, round, standing, page, seen, fetch, handler, presses, events

Views == INSTANCE RoundViews WITH Members <- Viewers, Creator <- Author, MaxOptions <- OptionsLimit,
                           Tickets <- Owned

ASSUME ViewsAssumption == Views!ConstantsOK

counts == <<presses, events>>

Won == [Views!New EXCEPT !.votes = Viewers \ {Me}, !.winner = TRUE]

\* A new round, one that is voted on, one that is won, one that is made.
Come == {<<0, Views!New>>, <<1, Views!New>>, <<2, Won>>,
         <<3, [Won EXCEPT !.orders = [m \in Viewers |-> Views!Completed]]>>}

ComesUpon == \E c \in Come : Views!Begins(c[1], c[2])

\* As long as the member likes.
ViewsRun == ComesUpon /\ [][Views!Next]_(Views!vars)

----------------------------------------------------------------------------
\* The member has a ticket, until an event takes it away.
ViewsInit == ComesUpon /\ standing.tickets # 0 /\ presses = 0 /\ events = 0

Events ==
  \/ Views!Browses \/ Views!Breaks
  \/ \E h \in Handlers : Views!RefusesPayment(h)
  \/ Views!StandingChanges
  \/ \E m \in Viewers : Views!Others(m)

GoesOn ==
  \/ Views!Tick \/ Views!Redirect
  \/ \E f \in Fetches : Views!Loads(f) \/ Views!Poll(f)
  \/ \E h \in Handlers : Views!Serve(h) \/ Views!Pays(h) \/ Views!Continue(h)

\* Refreshes and handlers are interchangeable: the first that is free is taken.
InOrder ==
  /\ \A f, g \in Fetches :
       g < f /\ fetch[f] = Views!Open /\ fetch'[f] # Views!Open => fetch[g] # Views!Open
  /\ \A h, g \in Handlers :
       g < h /\ handler[h] = Views!Free /\ handler'[h] # Views!Free => handler[g] # Views!Free

\* A ticket that is ticked is an event of its own.
Ticks == \E h \in Handlers : handler[h] = Views!Free /\ handler'[h].ballot \in {"ticket", "ticket only"}

ViewsNext ==
  /\ \/ /\ \E h \in Handlers : Views!Presses(h)
        /\ presses' = presses + 1 /\ events' = IF Ticks THEN events + 1 ELSE events
     \/ events' = events + 1 /\ UNCHANGED presses /\ Events
     \/ GoesOn /\ UNCHANGED counts
  /\ InOrder /\ presses' <= MaxPresses /\ presses' + events' <= MaxEvents

ViewsSpec == ViewsInit /\ [][ViewsNext]_<<Views!vars, counts>> /\ Views!Fairness

----------------------------------------------------------------------------
(* A polled page that stays open leaves a round whose order deadline has    *)
(* passed, for a member of the group (RoundViews).                          *)
PageFollowsRound == Views!PageFollowsRound

(* A recorded vote is shown for good in the end, although an answer to an   *)
(* older refresh may hide it for a while (RoundViews).                      *)
VoteStaysShown == Views!VoteStaysShown

(* The server refuses what was paid for only to a page that was behind, or  *)
(* after a deadline or the removal from the group, or a vote in a round     *)
(* that came to nothing or one the page should not have let through.        *)
RefusedOnlyBehind == Views!RefusedOnlyBehind

(* A creator is offered to withdraw a round in which nobody else has        *)
(* proposed.  The answers hide the creator, so this is not the case.        *)
WithdrawOffered == Views!WithdrawOffered
=============================================================================

--------------------------- MODULE MCVotingSystem ---------------------------
(***************************************************************************)
(* Instances of VotingSystem for TLC.  One token is one unit (the contract *)
(* counts 10**18 of them), one clock unit is one stage of a proposal.      *)
(***************************************************************************)
EXTENDS VotingSystem

CONSTANTS m1, m2, p1, p2

Quote(p, m, h, a, e) ==
  [proposal |-> p, member |-> m, hash |-> h, amount |-> a, expiry |-> e]
Deadlines(p, v, o) == [proposal |-> p, vote |-> v, order |-> o]

\* Signed orders: m1 may order twice in p1, m2 once there and once in p2, and
\* one signature runs out before the order window does.
TwoRoundQuotes ==
  { Quote(p1, m1, "a", 40, 9), Quote(p1, m1, "b", 30, 9),
    Quote(p1, m2, "c", 40, 3), Quote(p2, m2, "d", 40, 9) }

OneRoundQuotes == {q \in TwoRoundQuotes : q.proposal = p1}

OneSchedule  == { Deadlines(1, 2, 3) }
TwoSchedules == { Deadlines(1, 2, 4), Deadlines(2, 3, 4) }
=============================================================================

------------------------------- MODULE MCRounds -------------------------------
(***************************************************************************)
(* ProposalRound for TLC, one of two instances in each behaviour: votes and *)
(* settlement around the deadlines, and options that are added and deleted  *)
(* while the proposing stage ends.  There the merchants are numbered: of     *)
(* those nobody has named the first is named.                               *)
(***************************************************************************)
EXTENDS MCProposalRound

VARIABLE play   \* "votes" or "options"

Options == INSTANCE ProposalRound WITH
  Merchants <- 1..5, Kinds <- {"add", "delete"},
  CouponChoices <- {TRUE, FALSE}, TicketChoices <- {TRUE, FALSE}, VoteCounts <- {},
  AdminStages <- {"settled"}, MaxTime <- 1

RoundsInit ==
  \/ play = "votes" /\ Init
  \/ play = "options" /\ Options!Init

Named == {options[i].merchant : i \in DOMAIN options}
         \cup {work[w].req.merchant : w \in {w \in Workers : work[w].req.kind = "add"}}
InOrder ==
  \A w \in Workers : work[w].at = "load" /\ work'[w].req.kind = "add" =>
    \A s \in 1..(work'[w].req.merchant - 1) : s \in Named

\* The creator votes with one vote and the other member with two.
Unequal ==
  \A w \in Workers : work[w].at = "load" /\ work'[w].req.kind = "vote" =>
    work'[w].req.count = IF work'[w].req.member = Creator THEN 1 ELSE 2

RoundsNext ==
  /\ UNCHANGED play
  /\ \/ play = "votes" /\ Next /\ Unequal
     \/ play = "options" /\ Options!Next /\ InOrder

RoundsSpec == RoundsInit /\ [][RoundsNext]_<<play, vars>>
=============================================================================

-------------------------- MODULE MCProposalRound --------------------------
(***************************************************************************)
(* Instances of ProposalRound for TLC.  One clock unit is one stage of the *)
(* round; fees are the defaults of repository/constants.go in units of     *)
(* 10**13 wei.                                                             *)
(***************************************************************************)
EXTENDS ProposalRound, TLC

CONSTANTS m1, m2

Stages(p, v, o, first, last) ==
  [proposal |-> p, vote |-> v, order |-> o, dayStart |-> first, dayEnd |-> last]

WithinToday     == { Stages(1, 2, 3, 0, 9) }
TodayOrTomorrow == { Stages(1, 2, 3, 0, 9), Stages(2, 3, 4, 1, 9) }
AroundMidnight  == { Stages(1, 3, 4, 0, 2) }

RowSymmetry == Permutations(Workers) \cup Permutations(Merchants)
=============================================================================

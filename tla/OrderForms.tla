----------------------------- MODULE OrderForms -----------------------------
(***************************************************************************)
(* The forms of the ordering workspace, as one member fills them in: the     *)
(* form of a new round, the picker of a shop to propose and the quantities   *)
(* of an order, and what the server makes of what they send.                 *)
(*                                                                         *)
(* A page keeps what it has read (the durations on offer, the shops, the     *)
(* menu of the shop that won) while an admin, the shops and the changes of   *)
(* the menu move on, and the member pays first and is judged afterwards.     *)
(* Which stage a round is in is RoundViews', the note of a payment and its    *)
(* replay PaymentSync's, the coupons ProposalRound's; a page is not left      *)
(* here while its handler runs.                                              *)
(***************************************************************************)
EXTENDS Integers, Sequences, FiniteSetsExt

CONSTANTS Shops, Winner,     \* the shops, and the one the open round chose
          Minutes, Limits,   \* durations on offer, and what is typed as the limit
          Moments,           \* when an admin moves a deadline, in minutes after the creation
          Dishes, Costs, MaxQuantity,
          MaxRounds, MaxOrdered, MaxDay

VARIABLES
  settings,  \* the duration by default and those on offer, in the database
  shops,     \* the shops a member can order from
  price,     \* the winner's menu: the price of each dish, 0 if it is not on it
  inGroup,   \* whether the member is in the group whose rounds these are
  day,       \* the business day
  rounds,    \* the rounds that were created
  ordered,   \* the amount of the member's order in the open round
  form,      \* the page and what is filled in
  copy,      \* what the page has read
  job        \* the handler under way

worldVars == <<settings, shops, price, inGroup, day>>
vars == <<worldVars, rounds, ordered, form, copy, job>>

Stages == {"proposal", "vote", "order"}
NoShop == "none"
NoDishes == [i \in Dishes |-> 0]
NoJob == [at |-> "idle"]
NoCopy == [settings |-> "unread"]
Settings == [minutes : Minutes, options : SUBSET Minutes]
\* normalizeDurationOptions: the default is one of those on offer.
Saved == {s \in Settings : s.minutes \in s.options}

\* defaultCreateDraft and the other drafts of a page that is mounted; "named" is
\* history, the shop that was named last.
Blank(page, m) ==
  [page |-> page, minutes |-> [s \in Stages |-> m], limit |-> 5, picked |-> {},
   chosen |-> NoShop, text |-> NoShop, named |-> NoShop, count |-> NoDishes]

TypeOK ==
  /\ settings \in Settings /\ shops \subseteq Shops /\ price \in [Dishes -> Costs \cup {0}]
  /\ inGroup \in BOOLEAN /\ day \in 0..MaxDay
  /\ Len(rounds) <= MaxRounds /\ ordered \in 0..MaxOrdered
  /\ form.page \in {"list", "create", "proposal", "ordering"}
  /\ form.picked \subseteq Shops /\ form.count \in [Dishes -> 0..MaxQuantity]
  /\ (form.page = "list") <=> (copy = NoCopy)
  /\ job.at \in {"idle", "sign", "pay", "ask", "shops", "refused"}

Init ==
  /\ settings \in {s \in Saved : s.options = {s.minutes}}
  /\ shops = Shops /\ price \in [Dishes -> Costs]
  /\ inGroup = TRUE /\ day = 0 /\ rounds = <<>> /\ ordered = 0
  /\ form = Blank("list", 0) /\ copy = NoCopy /\ job = NoJob

----------------------------------------------------------------------------
(* What a page makes of what it has read. *)

\* durationOptions: without settings, one minute and nothing else.
Fallback == [minutes |-> 1, options |-> {}]
Offered(s) == s.options \cup {s.minutes}

Subtotal(count, menu) == MapThenSumSet(LAMBDA i : count[i] * menu[i], Dishes)

\* normalizeProposal takes a round whose first stage is longer than an hour and a
\* half, and no longer than that and a day, for one dated a day late.  "ends" are
\* the deadlines of the stages, in minutes after the creation of the round.
Day == 1440
Shift(ends) == IF ends.proposal > 90 /\ ends.proposal <= Day + 90 THEN Day ELSE 0

\* normalizeStageMinutes: whole days are dropped, and what is left, if it is more
\* than an hour and a half, comes to nothing.
StageMinutes(n) ==
  LET rest == IF n <= 0 THEN 0 ELSE 1 + ((n - 1) % Day) IN IF rest > 90 THEN 0 ELSE rest

\* getProposalStageMinutes, after the deadlines were shifted: only the first stage
\* begins with what is not shifted, the creation.
ShownMinutes(ends, s) ==
  StageMinutes(CASE s = "proposal" -> ends.proposal - Shift(ends)
                 [] s = "vote"     -> ends.vote - ends.proposal
                 [] s = "order"    -> ends.order - ends.vote)

\* resolveMerchantId: a shop whose button was pressed stays the choice whatever is
\* typed afterwards; without one, the text has to be an id or a name.
Resolved ==
  CASE form.chosen \in copy.shops -> form.chosen
    [] form.chosen \notin copy.shops /\ form.text \in copy.shops -> form.text
    [] OTHER -> NoShop

----------------------------------------------------------------------------
(* The page. *)

\* refresh, when the page is mounted: the settings and the treasury can each fail to
\* be read (a page without the shops, or without the menu, offers nothing).  The
\* menu is fetched once and not read again.
Mount(page) ==
  /\ form.page = "list"
  /\ \E s \in {settings, Fallback}, treasury \in BOOLEAN :
       /\ copy' = [settings |-> s, shops |-> shops, price |-> price, treasury |-> treasury]
       /\ form' = Blank(page, s.minutes)
  /\ UNCHANGED <<worldVars, rounds, ordered, job>>
Leave ==
  /\ form.page # "list" /\ job = NoJob
  /\ form' = Blank("list", 0) /\ copy' = NoCopy
  /\ UNCHANGED <<worldVars, rounds, ordered, job>>

On(page) == form.page = page
Fills(new) ==
  /\ new # form /\ form' = new
  /\ UNCHANGED <<worldVars, rounds, ordered, copy, job>>

ChooseMinutes == On("create") /\ \E s \in Stages, m \in Offered(copy.settings) :
  Fills([form EXCEPT !.minutes[s] = m])
TypeLimit == On("create") /\ \E n \in Limits : Fills([form EXCEPT !.limit = n])

\* A shop's button adds it, up to two, or takes it back.
Toggle == On("create") /\ \E shop \in copy.shops :
  /\ shop \in form.picked \/ Cardinality(form.picked) < 2
  /\ Fills([form EXCEPT !.picked = IF shop \in @ THEN @ \ {shop} ELSE @ \cup {shop}])

PickShop == On("proposal") /\ \E shop \in copy.shops :
  Fills([form EXCEPT !.chosen = shop, !.text = NoShop, !.named = shop])
TypeShop == On("proposal") /\ \E shop \in Shops :
  Fills([form EXCEPT !.text = shop, !.named = shop])

\* The buttons of the quantities are off while an action is pending.
AlwaysOn == TRUE
CountsOn == job = NoJob
SetOrderQuantity == On("ordering") /\ \E i \in Dishes, n \in 0..MaxQuantity :
  /\ CountsOn /\ copy.price[i] # 0 /\ n \in {form.count[i] - 1, form.count[i] + 1}
  /\ Fills([form EXCEPT !.count[i] = n])

\* A press takes what is filled in at that moment; it is paid for if the page knows
\* the treasury and, for a round, the fees.
Press(page, at, what) ==
  /\ job = NoJob
  /\ job' = [at |-> at, page |-> page, what |-> what, paid |-> 0, left |-> {}]
  /\ UNCHANGED <<worldVars, rounds, ordered, form, copy>>
PayOrAsk(fees) == IF copy.treasury /\ fees THEN "pay" ELSE "ask"

PressCreate ==
  On("create") /\ form.picked # {} /\ Press("create", PayOrAsk(copy.settings # Fallback),
    [minutes |-> form.minutes, limit |-> form.limit, picked |-> form.picked, price |-> 1])
PressOption ==
  On("proposal") /\ Resolved # NoShop
  /\ Press("proposal", PayOrAsk(TRUE), [shop |-> Resolved, price |-> 1])
PressOrder ==
  On("ordering") /\ form.count # NoDishes
  /\ Press("ordering", "sign", [count |-> form.count, price |-> 0])

----------------------------------------------------------------------------
(* The handler and the server. *)

\* The handler ends, and the page is blank or left as it was filled in.
Ends(new) == job' = NoJob /\ form' = new
Kept == UNCHANGED <<worldVars, rounds, ordered, copy>>

\* requireProposalAccess and Quote: the shop is open and every dish on its menu.
Quotable(count) == inGroup /\ Winner \in shops /\ \A i \in Dishes : count[i] > 0 => price[i] > 0
SignOrder ==
  /\ job.at = "sign" /\ Quotable(job.what.count) /\ Kept /\ UNCHANGED form
  /\ job' = [job EXCEPT !.at = PayOrAsk(TRUE), !.what.price = Subtotal(job.what.count, price)]

WalletSends ==
  /\ job.at = "pay" /\ Kept /\ UNCHANGED form
  /\ job' = [job EXCEPT !.at = "ask", !.paid = job.what.price]

\* isAllowedStageDuration and the limits of a round.
TenMinuteSteps == {10, 20, 30, 40, 50, 60, 70, 80, 90}
AnyMinutes == Nat \ {0}
AllowedMinutes == 1..90
Creatable(x) == x.limit \in 1..10 /\ \A s \in Stages : x.minutes[s] \in AllowedMinutes

\* The round that is created: each stage begins where the one before it ends.
RoundOf(x) ==
  [asked |-> x.minutes, moved |-> {}, day |-> day, limit |-> x.limit, shops |-> {},
   ends |-> [proposal |-> x.minutes.proposal, vote |-> x.minutes.proposal + x.minutes.vote,
             order |-> x.minutes.proposal + x.minutes.vote + x.minutes.order]]

CreateProposal ==
  LET x == job.what IN
  /\ job.at = "ask" /\ job.page = "create" /\ inGroup /\ Creatable(x)
  /\ Len(rounds) < MaxRounds /\ rounds' = Append(rounds, RoundOf(x))
  /\ job' = [job EXCEPT !.at = "shops", !.left = x.picked]
  /\ UNCHANGED <<worldVars, ordered, form, copy>>

\* AddOption: on the round's day, an open shop that nobody has proposed, while there
\* is room for one.
Proposable(r, shop) ==
  /\ r.day = day /\ shop \in shops \ r.shops /\ Cardinality(r.shops) < r.limit
Proposes(k, shop) ==
  Proposable(rounds[k], shop) /\ rounds' = [rounds EXCEPT ![k].shops = @ \cup {shop}]

\* handleCreateProposal adds the shops one by one to the round that is already
\* there, and others in the group may propose in it meanwhile.
ProposePicked ==
  /\ job.at = "shops"
  /\ \E shop \in job.left :
       /\ Proposes(Len(rounds), shop)
       /\ IF job.left # {shop}
          THEN job' = [job EXCEPT !.left = @ \ {shop}] /\ UNCHANGED <<form, copy>>
          ELSE \/ Ends(Blank("list", 0)) /\ copy' = NoCopy
               \/ Ends(form) /\ UNCHANGED copy     \* the answer is lost
  /\ UNCHANGED <<worldVars, ordered>>

\* The round is not created, or ends with the first shop that cannot be proposed.
RefuseRound ==
  /\ \/ job.at = "ask" /\ job.page = "create" /\ ~(inGroup /\ Creatable(job.what))
     \/ job.at = "shops" /\ \E shop \in job.left : ~Proposable(rounds[Len(rounds)], shop)
  /\ job' = [job EXCEPT !.at = "refused"] /\ Kept /\ UNCHANGED form

\* SaveOrder: the amount is the one that was signed, whatever the menu says now.
RequotedAmount(x) == Subtotal(x.count, price)
AmountOf(x) == x.price
FinalizeOrder ==
  LET x == job.what IN
  /\ job.at = "ask" /\ job.page = "ordering" /\ Quotable(x.count)
  /\ ordered + AmountOf(x) <= MaxOrdered /\ ordered' = ordered + AmountOf(x)
  /\ \/ Ends([form EXCEPT !.count = NoDishes])
     \/ Ends(form)          \* the answer is lost
  /\ UNCHANGED <<worldVars, rounds, copy>>

\* handleAddOption: the drafts of the picker are cleared.
AddOption ==
  /\ job.at = "ask" /\ job.page = "proposal" /\ inGroup /\ job.what.shop \in shops /\ Kept
  /\ Ends([form EXCEPT !.chosen = NoShop, !.text = NoShop, !.named = NoShop])

\* The server refuses, the wallet does, or a request comes to nothing: the page
\* reports it and stays as it is filled in.
Fails == job # NoJob /\ Ends(form) /\ Kept

----------------------------------------------------------------------------
(* The others. *)

Elsewhere == UNCHANGED <<rounds, ordered, form, copy, job>>
AdminSaves == \E s \in Saved \ {settings} :
  settings' = s /\ UNCHANGED <<shops, price, inGroup, day>> /\ Elsewhere
ShopMoves == \E s \in Shops :
  /\ shops' = IF s \in shops THEN shops \ {s} ELSE shops \cup {s}
  /\ UNCHANGED <<settings, price, inGroup, day>> /\ Elsewhere
MenuMoves == \E i \in Dishes, c \in Costs \cup {0} :
  /\ c # price[i] /\ price' = [price EXCEPT ![i] = c]
  /\ UNCHANGED <<settings, shops, inGroup, day>> /\ Elsewhere

\* The owner of the group removes the member, or an invitation brings them back.
GroupMoves == inGroup' = ~inGroup /\ UNCHANGED <<settings, shops, price, day>> /\ Elsewhere
Midnight == day < MaxDay /\ day' = day + 1 /\ UNCHANGED <<settings, shops, price, inGroup>> /\ Elsewhere

\* AdvanceProposalStage puts a deadline to the moment of the request, be it before
\* or after the one it replaces.
AdvanceProposalStage == \E k \in DOMAIN rounds, s \in Stages, t \in Moments :
  /\ rounds' = [rounds EXCEPT ![k].ends[s] = t, ![k].moved = @ \cup {s}]
  /\ UNCHANGED <<worldVars, ordered, form, copy, job>>
OthersPropose == \E k \in DOMAIN rounds, shop \in Shops :
  Proposes(k, shop) /\ UNCHANGED <<worldVars, ordered, form, copy, job>>

Visit == \E page \in {"create", "proposal", "ordering"} : Mount(page)
Fill == ChooseMinutes \/ TypeLimit \/ Toggle \/ PickShop \/ TypeShop \/ SetOrderQuantity
Presses == PressCreate \/ PressOption \/ PressOrder
Runs == SignOrder \/ WalletSends \/ CreateProposal \/ ProposePicked \/ RefuseRound
        \/ AddOption \/ FinalizeOrder \/ Fails
OnRounds == AdvanceProposalStage \/ OthersPropose
Others == AdminSaves \/ ShopMoves \/ MenuMoves \/ GroupMoves \/ Midnight \/ OnRounds

Next == Visit \/ Leave \/ Fill \/ Presses \/ Runs \/ Others
Spec == Init /\ [][Next]_vars

----------------------------------------------------------------------------
(* Properties *)

\* An order claims just what the wallet has sent for it, although the menu may
\* change between the signature and the record (SaveOrder, postgres.go:1403-1420);
\* it claims what nobody sent only if the page does not know the treasury.
OrderedIsPaid ==
  [][ordered' # ordered => ordered' = ordered + job.paid \/ ~copy.treasury]_vars

\* What the wallet is asked for is the sum that stands beside the button.
Shown == job'.what.price = Subtotal(form.count, copy.price)
SumIsShown == [][job.at = "sign" /\ job'.at \in {"pay", "ask"} => Shown]_vars

\* So it is unless the menu has changed since the page fetched it (handleOrder).
ChargedIsShown ==
  [][job.at = "sign" /\ job'.at \in {"pay", "ask"} => Shown \/ price # copy.price]_vars

\* A round that is paid for is refused, before it is created or with some of its
\* shops missing, only if the member was removed from the group meanwhile, an admin
\* offers a duration the server does not take, a limit was typed that it does not
\* take or that is below the number of shops, a shop has closed since the page read
\* it, it is past midnight since the round was created, or somebody has proposed in
\* it before all its shops were there (handleCreateOrder, handleCreateProposal).
PaidRoundIsMade ==
  [][job'.at = "refused" /\ job'.paid > 0 /\ job # job' =>
       \/ job.at = "ask" /\ ~inGroup
       \/ ~(Offered(copy.settings) \subseteq 1..90)
       \/ job.what.limit \notin Cardinality(job.what.picked)..10
       \/ ~(copy.shops \subseteq shops)
       \/ job.at = "shops" /\ LET r == rounds[Len(rounds)] IN
            r.day # day \/ r.shops # job.what.picked \ job.left]_vars

\* The pages show the durations a round was created with, for every stage none of
\* whose ends an admin has moved: the shift of the deadlines by a day never applies
\* to a round of this application before that, for no stage the server admits is
\* long enough (normalizeProposal, isAllowedStageDuration).
Bounds(s) == CASE s = "proposal" -> {"proposal"} [] s = "vote" -> {"proposal", "vote"}
               [] s = "order" -> {"vote", "order"}
MinutesAreShown ==
  \A k \in DOMAIN rounds : \A s \in Stages :
    rounds[k].moved \cap Bounds(s) = {} => ShownMinutes(rounds[k].ends, s) = rounds[k].asked[s]

\* The shop that is proposed is the one the member named last, by its button or in
\* the text; one whose button was pressed first is sent all the same
\* (resolveMerchantId).
NamedIsSent ==
  job # NoJob /\ job.page = "proposal" => job.what.shop = form.named
=============================================================================

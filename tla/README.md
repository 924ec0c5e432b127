# MealVote: models, checks and proofs

MealVote lets a group of people decide together where to eat: a member opens a
round, others propose merchants, everybody votes, the winner is fixed at the
vote deadline, members order from it, and the merchant is paid. The repository
holds three Solidity contracts, a Go backend with a PostgreSQL store, and a
Next.js front end. This directory models the parts that keep state, move money or
decide what a person is shown and asked to pay, checks them with TLC on small
instances, and proves the main invariants of the three contracts, of rounds, of orders,
of the follower of the chain, of the payment pages and of the ordering forms with TLAPS for
every size.

All paths below are relative to the repository's root (`src/` in the paths of
`PROJECT.json`); `apps/web/components/` is left out where a file name is enough.

## 1. The system

### Components

| Component | State | Operations that change it | Modelled in |
|---|---|---|---|
| `contract/VotingSystem-v3.sol` and its `MembershipToken` | token balances; per proposal: deadlines, options, pools, orders, winner, settled; treasury, rewards, subscriptions, signer, used digests | createProposal, addOption, vote, finalizeVote, placeOrder, cancelOrder, settleProposal, claimReward, subscribeMonthly, withdrawTreasury*, setSigner, setPlatformMainWallet, transfer | `VotingSystem` |
| `contract/MealVoteGovernance.sol` | packed coupons and expiry per member; rounds; 24-bit vote counts and voters per candidate | claimDailyCoupons, subscribeMonthly, createRound, propose, castVote, cancelRound, settleRound | `Governance` |
| `contract/MealVoteOrderEscrow.sol` | escrows with totals and payments; one ether balance for all | openEscrow, payForOrder, merchantAccept, merchantComplete, memberConfirmReceived, releasePayout | `OrderEscrow` |
| Proposal rounds of the backend (`service/proposal.go`, `repository/postgres.go`, `repository/helpers.go`) | proposals, proposal_options and votes rows; tickets, points, the ledger of usage records | Create, AddOption, Vote, Delete, the settlement inside every read, the admin's stage changes | `ProposalRound` |
| Orders and payouts of the backend (`service/order.go`, `handlers/*.go`, `internal/app/bootstrap.go`) | orders, order_items and pending_transactions rows | handleFinalizeOrder and SaveOrder, status changes of merchant, creator and admin, admin payouts, the automatic payout processor | `OrderLifecycle` |
| Chain indexer and event application (`blockchain/indexer.go`, `repository/postgres.go`) | sync cursor, marks of applied events, mappings of rounds and options, the rows events change | SyncChainOnStart, handleIndexerSync, StoreChainEvents, apply*Event, LinkProposalChain, LinkProposalOptionChain | `ChainSync`, `EventProjection` |
| Payments of members (`member-ordering-workspace.tsx`, `subscription-checkpoint.tsx`, `member-subscription.tsx`) | the wallet, the note in the tab's session storage, the server's pending_transactions | handleCreateOrder, handleAddOption, handleVote, handleOrder, handleSubscribe; the replay of a note when a page loads | `PaymentSync` |
| Ordering pages (`member-ordering-workspace.tsx`) | the page's copy of the rounds, its drafts, refreshes under way | refresh, polling, the redirect between stages, the buttons of the stages | `RoundViews` |
| Ordering forms (same file, `service/order.go`, `service/proposal.go`) | drafts, copies of settings, shops and menu | the form of a round, the picker of shops, quantities; Create, Quote, Sign, SaveOrder | `OrderForms` |
| Sign-in (`login-panel.tsx`, `app-nav.tsx`, `session-gate.tsx`, `admin-dashboard.tsx`, `service/member.go`) | the tab's token, the old token in local storage, accounts and their wallets, challenges, sessions | login cards, the bar, the admin's forms, status request, gates, logout, change of wallet | `WebSession` |
| Merchant's and admin's orders (`merchant-dashboard.tsx`, `merchant-order-detail.tsx`, `admin-payouts.tsx`) | lists of orders as last read, ticked boxes | accept, complete, pay, record, cancel | `OrderDesk` |
| Menus, shops, settings, groups (`merchant-menu-manager.tsx`, `merchant-profile-manager.tsx`, `admin-*.tsx`, `group-*.tsx`, `member-groups.tsx`) | their tables, and what each open page has read | see the modules | `ShopMenu`, `ShopProfile`, `PlatformSettings`, `GroupDesk` |
| Reviews, points and titles (`lib/achievement-demo.ts` and its two pages) | one record in the browser's local storage | addDemoComment, addDemoMenuRecord, redeemReward | `Achievements` |
| Leaderboard, rate limiter, HTTP layer, configuration, daily rewards and faucet, read-only pages, the legacy front end | none that the above depends on | - | not modelled (section 7) |

### How the components interact

- A page calls the HTTP handlers; the handlers call services, and services
  call the store. Handlers run concurrently, one goroutine for each request,
  without a lock of their own. Only the store's transactions order them, and most
  checks are made on a copy that was loaded *before* the transaction.
- Reads have effects: every read of a round first runs
  `refreshProposalState`, which fixes the winner and pays the settlement when the
  round is due; every read of a menu applies the changes that are due; reads of
  groups prune those that are inactive. Nothing else does these things.
- One background job runs every minute: the automatic payout processor, which
  does what an admin may do at the same time through `processAdminPayouts`, and what
  the payouts page records after it has paid from the treasury's own wallet.
- A page works from what it last read. It refreshes after its own actions, when
  they succeed; only the voting and ordering pages poll. A handler that is waiting
  goes on when a link of the application has unmounted its page, and ends when the
  document is left.
- Members pay first and ask afterwards: the wallet sends the money, then the request
  tells the server what it was for. The tab keeps a note of the payment between the
  two and the next page of the tab that loads sends the request again.
- The contracts are independent of each other and of the backend: the backend
  follows the voting contract through its events, when it starts and when an admin asks for
  it, and sends transactions (order transfers, payouts). Members may link a round of
  their own to a round of the contract; its events then change that round.

### What is hard here, and what makes it correct

`PROJECT.json` lists each hazard at its line, with the properties that cover it.
In short:

- *check, then act on stale data* - limits on options, duplicate merchants and
  votes, the stage of a round, the state of an order and of a settlement are all
  tested on loaded copies. What still has to hold: indexes and relative updates
  keep tallies, fees and tickets exact (`TallyMatchesVotes`, `FeesAndTickets`),
  limits are exceeded by no more than the number of concurrent
  requests (`OvershootBounded`), the winner that stands is the best even if it is fixed twice (`WinnerIsBest`);
- *pages that are behind* - what a page offers, shows or writes back comes from an
  old copy, and answers arrive out of order: `RefusedOnlyBehind`, `VoteStaysShown`,
  `PageFollowsRound`, `TabsAgree`, `LostOnlyBehind`, `MenuIsTheLog`, `EarnedIsKept`;
- *money moved in one place and recorded in another* - transfer and status
  update, order and payment record, wallet and note are separate steps with a possible
  crash, reload or lost answer between them (`PayoutsConfirmed`, `ConfirmedPaidOnce`,
  `NoDoubleWithoutTrouble`, `RetriesApplyOnce`, `LedgerKept`);
- *paying before being judged* - what is shown, signed, charged, claimed and admitted
  is computed in different places at different times (`ChargedIsShown`,
  `OrderedIsPaid`, `PaidRoundIsMade`, `MinutesAreShown`);
- *one balance for many parties* - several proposals share the contract's ether
  and tokens, escrows share theirs, basis points round down (`TokenSolvency`,
  `NativeSolvency`, `PoolAccounting`, `RecordsAddUp`);
- *things that only happen if somebody comes by* - settlement, automatic
  payout, redirects (`RoundSettles`, `ReadyIsPaid`, `VisitsSettle`, `PressReachesAll`);
- *the same thing delivered twice* - ranges of blocks are read again after a failure, by
  synchronisations that overlap and write old cursors back (`CursorSafe`,
  `FollowsTheLog`, `RewardsOnce`, `MirrorAgrees`), and an event that is refused once is
  refused for ever (`NothingRefused`);
- *sequences nobody wrote a test for* - cancel and order again, an option added
  after settlement, an admin who moves a settled round, a shop given up, opened anew
  and given back (`ActiveOrderRefundable`, `SettledIsFinal`, `OpenShopsAreWhole`).

## 2. Modules

| Module | What it is |
|---|---|
| `VotingSystem` | the voting contract and the token it moves, one action per external function |
| `SumLemmas` | lemmas about sums over finite sets (the `SumFunctionOnSet` of the community modules) |
| `VotingSystemProofs` | types, stages, winner, signatures, pools, settlement, subscriptions, solvency: invariants and their proofs; what `GovernanceProofs` says of the instance in `MCContracts` |
| `Governance` | the governance contract: coupons, rounds, packed votes |
| `Election` | the abstract round that `Governance` implements |
| `OrderEscrow` | the escrow contract |
| `GovernanceProofs` | that `Governance` implements `Election`, and that the records of both contracts add up |
| `ProposalRound` | one local round of the backend with concurrent requests and the clock |
| `ProposalRoundProofs` | what concurrent requests leave exact: tallies, winner, limits, fees, tickets and refunds; of `RoundViews`: when a page is refused what it paid for |
| `OrderLifecycle` | the orders of one local round, from payment to payout, with crashes |
| `OrderLifecycleProofs` | its types, that payouts are confirmed and bounded, and that orders claim a recorded payment once; of `OrderDesk`: that what is marked as paid was sent, and without trouble once |
| `ChainSync` | the backend's follower of the voting contract, with concurrent synchronisations |
| `EventProjection` | what each event changes in the backend's tables |
| `EventLog` | the abstract follower that `ChainSync` implements |
| `ChainSyncProofs` | that no block is skipped, that `ChainSync` implements `EventLog`, and what the events leave in the tables |
| `PaymentSync` | the pages on which members pay: wallet, note, registration, request, replay |
| `PaymentLedger` | the abstract ledger that `PaymentSync` implements: sent first, recorded after its outcome, for its purpose |
| `PagesProofs` | of `PaymentSync`: its types, that it implements `PaymentLedger`, and that retries are harmless; of the four desks below: what each keeps |
| `RoundViews` | one member's pages of one round |
| `OrderForms` | the forms of the ordering pages, and what the server makes of what they send |
| `OrderFormsProofs` | what is charged, claimed and created is what was shown, sent and asked for, but for the cases named; of `Achievements`: what is earned is kept; of `WebSession`: what is shown is the owner's |
| `WebSession` | sign-in, sessions, gates and redirects |
| `OrderDesk` | the pages of merchants and admins that work through orders |
| `PageRequests` | how a page reads, sends one request at a time, and reads again; the four desks below extend it |
| `ShopMenu`, `ShopProfile`, `PlatformSettings`, `GroupDesk` | menus, shops, the platform's settings, groups: the tables, their pages and the requests between |
| `Achievements` | reviews, points and titles in the browser's storage |
| `MC...` | instances for TLC: constants, symmetry, bounds, history variables that only a property needs |

An instance may hold several modules and play one of them in each behaviour (the
variable `play`, or `desk` in `MCPages`): `MCContracts` the three contracts,
`MCRounds` two instances of `ProposalRound`, `MCBackend` orders and rounds with their
fairness, `MCPages` payments and the four desks, `MCOrderForms` forms and titles.
The parts share no state in the code either, or only state that is fixed in both.

### VotingSystem

A transaction on the chain is atomic, so each external function is one action;
its guard is the conjunction of the `require`s. Each Solidity mapping is a
function variable. `now` is the block time. `writtenOff` is a history variable: it
adds up what `placeOrder` subtracts from `orderPool` for an order that
`cancelOrder` has already subtracted. `memberVoteSpend`, names and notes
are written and never read by the contract; they are left out. Options are
numbered from 1 so that 0 can mean "no winner yet" (the contract uses index 0
and a flag). A digest is a member of `Quotes`: two orders with the same fields are
the same digest, as in the contract; the signature is the pair of digest
and signing key. `settleProposal` includes the finalisation it runs when
nobody has finalised before. Members are assumed to have approved the contract for
tokens, and receivers of ether to accept it; a call that would revert is simply
not enabled.

### ProposalRound

One worker per request in flight. A request is a series of steps, one for each
transaction or consistent read of the code, in the code's order:

    idle -> (Begin) -> [tally (ReadWinner) -> fix (FixWinner)] -> [settle -> apply] -> load -> commit
         -> (Reread) -> [the same steps] -> idle

The steps up to `apply` are `refreshProposalState`, which every request runs and most run again to answer
with a fresh copy. It locks nothing: it reads the row, then the votes and the best option, then
writes the winner by the round's id alone (`postgres.go:3855`), so that a refresh may write over a winner that
an overlapping one has fixed, with votes in between that were committed after the deadline (their field
`late`). `LoadForSettlement` and `ApplySettlement`
are the two halves of `applyLocalSettlementRewards`, which loads before its
transaction; `Load` evaluates the service's checks; `InsertProposalOption`,
`RecordVote`, `CheckDeletable`/`DeleteProposalByCreator` are the store's
transactions. Only deletion is split in two: it reads without locks and then
deletes. The admin's move to `ordering` is two statements in the code and two
steps here. Requests choose what they ask for when it is first looked at (`Load`):
choosing earlier would only multiply states. `paid`, `credited` and
`settlements` are history variables.

`Status` is `deriveStatus`; `Today` is `isCurrentProposalDay`, with the local day as an
interval of clock units.

### OrderLifecycle

Handlers (`work`) and payouts (`payout`) each run step by step. `SaveOrder` is one transaction
under read committed without a row lock, so its read of the existing order
and its commit are two steps, and the commit writes back the columns it read. What a payment is worth (`Price`) is
the amount the request names: nothing compares it with the transaction.
Recording the payment as completed is a further, separate statement, whose error is dropped: it may be lost, by
that or by a crash, and the retry then adds the payment again. A status
change reads, checks and then updates by id. A payout reads the dashboard, sends
one transfer for the batch, which may fail before it is sent, or be taken for failed although it was sent
(`TransferUnknown`: the client returns an error after the broadcast too, `client.go:141`), and marks the orders one by one, each with its own
read and its own update, in any order. A member's order is looked up as
the latest of his (`Existing`). `Crash` forgets every handler and payout; tables and transfers stay.
`saved`, `overlapped`, `unrecorded`, `confirms`, `sent` and `aborts` are history variables.

### Governance, Election and OrderEscrow

`Governance` has one action per external function, as `VotingSystem` has. A packed
record is a number built and taken apart with the contract's shifts
(`EncodeVote`, `DecodeVote`), with the width of a count as a constant
(`VoteRange`, 2^24 in the contract). `claims`, `used` and `subscriptions` are
history variables. The contract has no function that pays anything out, so its
ether only grows. Statuses that no function sets (`VotingOpen`, `OrderingOpen`)
do not occur.

`Election` says what a round promises, without clock, fees or packing: candidates
are listed before the first vote, a ballot is cast once and never changed, a
cancelled round takes no ballots, and a round is decided once, for the first of
the best. `Governance` maps its packed records to ballots and its statuses to the
stages of `Election`; `RoundsAreElections` checks that each of its steps is a step of
`Election` or changes nothing there. Nothing in `_propose` and `settleRound` tests the
status of the round: that the promise holds all the same is due to the order of
the deadlines alone, which is why it is worth checking.

`OrderEscrow` is the escrow contract, function by function. A total is cut to
128 bits when it is stored (`AmountRange`), the fee is the one at the opening, and a
payout that the contract's ether does not cover reverts. No function gives money
back: what was paid into an escrow that its merchant never completes stays there.

### ChainSync, EventProjection and EventLog

A synchronisation (`syncer`) reads the cursor, asks a node for the logs after it, and stores
what it got, each in a step of its own; only the last is a transaction. The unique index on
`chain_events` makes two transactions that share an event wait for each other, so one
step for each is right. When the node does not answer, the handler stores the
cursor it had read, whatever it is by then (`SyncRangeFails`). `Crash` forgets all
synchronisations. A mark is kept for each block in place of each event: a
block is stored as a whole.

`EventProjection` holds one function per event, with the set of possible results:
it is empty when a unique index refuses the insert, and the whole batch is then rolled back
(`StoreRefused`). Votes carry any amount. `NormalizeTokenAmountValue` (`repository/helpers.go:188-198`) converts them one by one: below
10^18 (`Unit`) an amount stays as it is, from there on it is divided and cut, so that half a token counts for
more than a whole one. The settlement converts the winner's total again. Rewards are only counted. In the contract,
`shares` is a history of what its votes come to when each is converted by itself.
A wallet is its member's: none is bound to another member later. Votes that come as events
carry a weight and no `vote_count`; `counted` is the sum of the latter, which is what
`refreshProposalState` looks at when it fixes a winner or gives a round up.

The contract is reduced to what decides which events it emits, in which order (`VotingSystem` has the rest).
A transaction of the chain is a block. Blocks are never taken back: the code has no
answer to a reorganisation, and the model does not ask for one. Members link, vote
in, read and delete rounds at any time; `touched` is a history variable that
remembers which rounds were linked.

`EventLog` has no cursor, batches or retries: blocks are added at the end, and those taken
in are always the first ones.


### PaymentSync and PaymentLedger

A handler (`job`) of one of six pages goes through the code's awaits, each a
step of its own: the wallet's answer, the receipt, the note in the slot of the
tab, the registration of the transaction, then the server's steps (`check`,
`apply`, `complete`; a vote checks and applies in different statements, an order
completes its transaction in a third), the clearing of the note and the refresh. A payment that was sent is mined
well, reverted, replaced or cancelled; the page waits for the receipt and does not look which (`chain.ts:62-72`), so that
each of these is noted, registered and applied. An answer may
be lost at each request, served or not. The server may slip between a change and its completion: it answers
500 after the change, drops the error of the completion, cannot read that the payment is
completed, or stops (`ApplyPartly`, `LeaveIncomplete`, `Overlook`, `Forget`). A page that is loaded replays the note it finds.
A handler goes on when its component is unmounted and ends with its document; what it
had sent is still served. `held` and `closed` stand for everything that makes a request
fail for good: what a member can have only once, and a stage that has ended.

`PaymentLedger` has neither tabs nor notes: a payment is sent for one purpose, its outcome is decided on the chain
(`decided`), and what is recorded had its outcome before and is recorded for that purpose. In `MCPaymentSync` the history variable `tangled`
holds the payments two requests of which were under way at once, that were
replayed by another member, or on which the server slipped (`Tangle`); `HistorySpec` is `PaymentSync` with that history and without
the bounds of the instance.

### RoundViews

One member, one round, one mounted page. The page's copy (`seen`) is what the last
answered refresh brought, with what the server hides from members (`Anonymized`). Refreshes and
handlers overlap; an answer that arrives late replaces a newer one. What a page
offers (`OffersVote`, `CanConfirm`, `HasCurrentMemberVote`, ...) is computed from its copy and its
own clock, what the server does with the request from the round and from the member's `standing`: whether he is in the
group and how many tickets he has. A ballot is a number of votes, or none, with or without a ticket, as the form
lets it through. Members are removed from the group at any time; admins who move the stage are in
`ProposalRound` and `OrderForms`. `Redirect` is the effect that
leaves for the page of the next stage. Other members act on the server directly. `MCRoundViews` says which
rounds a member may come upon (`ViewsRun`: any members, refreshes and handlers, no bounds; `ViewsSpec` adds the
bounds of the run).

### OrderForms

One page at a time: the form of a round, the picker of a shop, the quantities of an order.
`copy` is what the page read when it was opened; the admin, the shops and the
menu move on, the member may be removed from the group, the day changes, others propose in a new
round and an admin moves its deadlines (`AdvanceProposalStage`). A round and the options of its shops are separate
requests after one payment. A handler signs (orders), lets the wallet pay, and asks;
what it asks for is fixed when the button is pressed, except that the signed order is the
server's sum over the menu of that moment. The picked shops are a set: in which order they
are sent decides nothing here. Durations are numbers of minutes, with the rule
that only the code has (`Creatable`: 1 to 90).

### WebSession

The tab's documents go through the pages' entrances with their gates: the status
request of the bar, the gate of a role, the checkpoint of a subscription, each with its own
request, and the redirects they end in. Logins go through the wallet, the challenge, the signature
and the verification, which is two steps on the server. A request under way survives a
link and not a document. `challenge`, `nonce` and `owner` are the server's. The
history variable `late` of `MCWebSession` holds the tabs in which the admin's form, which
stays in the document, stored its session after its page was left (`SessionRuns`: any tabs, no
bounds on events; `SessionSpec` adds the bounds of the run).

### OrderDesk

A press fixes its rows (`todo`) from the page's copy; its requests are served one by
one, in any order, or are refused, or fail. The payouts page lets the wallet send first and
records afterwards. A link unmounts the page and leaves its handlers
running without a page; a reload ends them. `Counted`, `Grouped`,
`DetailAggregate` and `MemberAggregate` are the four places of the code that say what status a
group of orders has. The history variables `lost` and `trouble` of `MCOrderDesk`
remember whether a request was lost, and whether a payment was in trouble: its handler ended without
the refresh of its page (a failure, a page that was left, a reload), or another payer was about - a second handler
that holds the same order, another page that lists it, or the background processor.

### PageRequests and the desks

`PageRequests` has a page's life (`at`: shut, reading, idle, asking) and its request
(`ask`); a request is served, refused, or lost before or after it is served. The desks add the tables
and what each page has read:

- `ShopMenu`: changes are requested, withdrawn, reviewed and, after the next
  midnight, applied by whoever reads a menu: a list of what is due, then one transaction
  for each (`due`). A price that does not fit 64 bits is refused by the server's decoder
  (`MaxPrice`). An approval reads the clock, and so its midnight, before it writes. `crossed` remembers that two readers
  were at work at once, or that an approval was written after the midnight it names.
- `ShopProfile`: each request looks for the owner's shop in its own way (not
  delisted, or not asked to be delisted, or by name), in the order of the ids,
  which is the order the database happens to return. A save finds and changes in two steps
  (`UpsertOwnedMerchantProfile` has no transaction). Shops without an owner may be claimed, and the owner may ask to
  be delisted with one request; no page has a button for either. `returned`, `overtaken` and `extra` are history
  variables: shops whose request was taken back or rejected, saves that others overtook, and shops that
  such a save or a claim added.
- `PlatformSettings`: both pages write a whole copy back.
- `GroupDesk`: groups, codes and members, with each pair of database statements as two steps, and
  pruning by any read.

### Achievements

Reviews, dishes and titles of all members are one record in the local storage of the browser. A
handler reads it, changes its copy and writes that: two tabs are two processes, so
reading and writing are two steps. `overtaken` remembers that a write undid another.

## 3. Runs

| Run | Instance | Question | Result |
|---|---|---|---|
| `contracts` | `MCContracts` | Can the voting contract always pay the ether and tokens it owes, is settlement final, is an on-chain round an election, and what can an escrow lose? | holds |
| `reorder` | `MCVotingSystem` | Can every active order be cancelled until the deadline? | violated: finding 1 |
| `rounds` | `MCRounds` | What do concurrent votes, options, deletions, settlements and stage changes leave exact? | holds; limits are exceeded by at most one per further request |
| `settle_twice` | `MCProposalRound` | Is the settlement paid once? | violated: finding 2 |
| `backend` | `MCBackend` | What can stale writes, retries and a crash not do to orders and payouts, is a ready order paid, does a round settle? | holds, if the vote ends on the round's own day |
| `paid_twice` | `MCOrderLifecycle` | Is a confirmed order paid once? | violated: finding 3 |
| `chain` | `MCChainSync` | Do overlapping, failing synchronisations take in each block once and in order, and do imported rounds show what the contract holds? | holds |
| `session` | `MCWebSession` | Does every visit come to rest, on a page that belongs to the session? | holds |
| `order_desk` | `MCOrderDesk` | What can merchants and admins not do to orders from stale lists? | holds |
| `pages` | `MCPages` | Are payments applied once and for their purpose, and what survives of menus, shops, settings and groups? | holds |
| `views` | `MCRoundViews` | Do pages follow the round, keep a vote shown, and offer only what the server takes, unless they are behind? | holds |
| `forms` | `MCOrderForms` | Is what is shown what is charged, what is paid what is claimed, and a paid round made? | holds |

Three further configurations belong to findings 4 to 6 and are not part of the list
of runs; each is violated: `MCProposalRoundMidnight.cfg`, `MCPaymentSyncNote.cfg` and `MCOrderDeskAgain.cfg`.

### What the properties say

*Contracts.* `TokenSolvency`: tokens held >= treasury + all rewards + all
stakes and votes of unsettled proposals. `NativeSolvency`: ether held >= booked fees
+ refunds of all active orders of unsettled proposals. `WinnerIsFirstBest`: a
finalised winner is the earliest option with most votes, and stays so.
`PoolAccounting`: order pool + what re-ordering wrote off = active orders.
`SettledIsFinal`: nothing of a settled proposal changes. `RoundsAreElections`: a
governance round refines `Election`. `RecordsAddUp`: packed counts are the sums of the packed
vote records, coupons used were claimed, governance ether is what was recorded, and ether of open escrows
is there unless another escrow paid out more than was paid into it.

*Rounds.* `RefundsCovered`: while the round exists, each settlement credited at most what was paid, and the
creation fee a coupon paid.
`TallyMatchesVotes`, `FeesAndTickets`: tallies, collected fees,
fees paid and tickets spent are exactly those of the rows. `OvershootBounded`: how far the
limits can be exceeded. `WinnerIsBest`: no option has more votes from before the voting was over than the winner has,
although overlapping reads may each fix a winner, votes are recorded late, and an admin may end the voting. `RoundSettles`: liveness of the settlement.

*Orders.* `AmountsArePaidFor`: orders claim each recorded payment once, at the amount its request
names, and once more only for a retry that ran beside another request of the payment or came after its
completion was lost. `PayoutsConfirmed`: nothing is paid out before a confirmation, and how many
transfers one confirmation can cause: one for each payout process, and once more for each crash and each payout
given up after its transfer, one that was taken for failed included. `ReadyIsPaid`: liveness of the payout.

*Chain.* `CursorSafe`: no block at or below the cursor is left out. `FollowsTheLog`: the
blocks taken in are the first ones, each once, in order. `MirrorAgrees`: once all blocks
are taken in, a round no member linked shows the contract's options, winner and paid orders, and its tallies as far as the
conversion keeps them: for the winner of a settled round the contract's total, converted, and otherwise the
sum of the votes converted one by one. The order of the options by votes may therefore differ from the contract's.
`RewardsOnce`: rewards are credited once each, even if rounds are linked and deleted.
`NothingRefused`: no batch is refused, unless a member touched a round, a member voted twice (also from another
wallet that he has bound since), or a merchant was added twice: the contract allows the last two, the tables do not.

*Payments.* `LedgerKept`: `PaymentSync` implements `PaymentLedger`: what is recorded was sent by a wallet for that purpose
and had its outcome before. It does not say that the transaction succeeded, which nobody looks at. `RetriesApplyOnce`: a
registered payment is applied once, however often answers are lost and pages reloaded,
unless its requests overlapped, another member replayed it, or the server slipped. A new round is excepted: it
may be stored in part and asked for again.

*Pages of a round.* `PageFollowsRound`: a polled page leaves a round whose deadline has
passed. `VoteStaysShown`: a recorded vote is shown for good in the end, although a late answer may hide it.
`RefusedOnlyBehind`: the server refuses what was paid for only to a page that
was behind or had another button pressed, after a deadline or the member's removal from the group; and a vote also in a round
that failed, with a ticket and no number, or with a ticket the member does not have, neither of which the page
tests before the payment.

*Forms.* `ChargedIsShown`: the wallet is asked for the sum beside the button, unless the menu
changed. `OrderedIsPaid`: an order claims what the wallet was asked to send. `PaidRoundIsMade`: a round that
was paid for is made whole, unless the member was removed from the group, an admin offers a duration the server does not
take, the limit that was typed is not taken or below the number of shops, a shop has closed since it was read,
midnight has passed since the round was created, or somebody proposed in it first. `MinutesAreShown`: pages show the
durations a round was created with, for each stage none of whose ends an admin has moved. `EarnedIsKept`: points are
spent once, and badges and titles that are shown are had, unless tabs wrote over each other.

*Sign-in.* `VisitsSettle`: no loop of redirects, no gate that waits for ever. `ShownIsOwner`:
what is shown belongs to the session of the tab.

*Orders as merchants and admins see them.* `DeskIsSound`: an order is marked as paid only after a payment
left a wallet; and the four places that say a group's status agree.
`NoDoubleWithoutTrouble`: on a page that is refreshed after each payment, with no other payer about,
nothing is paid twice. `PressReachesAll`: rows the server refuses do not keep others of the same press back.

*Desks.* `MenuIsTheLog`: the menu is what the changes leave in their order, unless two readers
applied changes at once or an approval was under way at midnight. `OpenShopsAreWhole`: an open shop has a wallet, unless a request to delist it
was taken back or rejected; and its owner has one such shop, beside those, those that were claimed and those
that a save made although another request had changed the shops since it looked. `LostOnlyBehind`: a save undoes a setting only
from a page that is behind. `GroupsKeepDoors`: a living group keeps its owner, and a code on
a page leads to the page's group.

### Bounds, and why they are enough

- `contracts`, orders: two proposals whose windows overlap, one option each, four quotes,
  two signers: two rounds are what it takes to spend one's ether for the other, and m1 can
  cancel and order again. Stakes: one proposal, two options, two members with enough
  tokens for an option and votes, four clock units (one per deadline and one after): solvency of
  tokens is a sum over proposals of quantities that do not interact; two options make a
  winner and a loser. The theorems of section 5 remove these bounds. Governance: one round (rounds share
  nothing but coupons), two members, two merchants, counts of two bits so that two votes of
  two overflow, two sets of parameters with the same fees and different coupons. Escrows: two, with totals
  below, at and above what one payment pays and above what a total can hold.
- `rounds`: options with five merchants against a limit of three, one ticket each; votes with
  two members, two merchants, all admin stages and a clock that passes each deadline. With two workers
  every pair of steps interleaves, two refreshes with a late vote between them included; a third worker
  repeats the second (the limits in the properties are stated in the number of workers and settlements). A
  member who may vote with one vote or two makes every order of two options.
- `backend`, orders: one payment that may be retried, two handlers, two payouts, one order,
  one crash (`MaxCrashes`) and one dropped error (`MaxLost`), at any point: a retry that finds the order tops it up. That two
  handlers may both find no order and make two needs a second order, which the theorems of
  section 5 cover. Rounds: one merchant, so that liveness stays cheap; rounds of today and of tomorrow.
- `chain`: one round that may be linked, one merchant, two members, votes of three where a token is four
  (`Unit`), so that one vote is less than a token and the sum of two is more; five blocks in batches of two (so
  that the first batch is block 0, which is empty, and block 1), two
  synchronisations, one fault. Five blocks are a round from its creation to an order and its
  cancellation, or to its settlement. Two rounds share only the cursor and the rewards. The
  theorems remove the bounds for cursor and order.
- `session`: one tab, one wallet that may come to belong to two accounts, three sessions, two logins
  and three events (logins, visits, links, logouts, changes, broken connections): a session that is
  replaced while a request of the old one is under way takes two logins and one visit.
  Tabs share only what the server and local storage keep.
- `order_desk`: three orders in two groups, so that one press has rows of one group in
  several states; one payouts tab or two (with two, a payment outside the page is always trouble; with one, the page
  may be left and come again while its handler pays); two presses; two reloads, links or failures.
- `pages`: payments with one payment, two handlers and one page left, so that a replay and
  the first handler overlap; menus with one dish, two changes and two midnights; shops with three ids, one of them without an owner,
  two tabs beside the admin's, and six deeds; settings with two pages; groups with two members, two groups and
  two codes. Deeds of people (opening, editing, pressing) are bounded for each desk; what follows from them is not.
- `views`: two members, none or one ticket, two refreshes and two handlers that overlap, two presses and three events in
  all, from each of the four situations a member may come upon.
- `forms`: two shops, two dishes, durations of 1, 90 and 91 minutes and limits of 1 and 11, at and
  above what the server admits, one midnight, and an admin who moves deadlines to the creation of the round or far
  behind it (`Moments`, in minutes); five deeds of the member and two of the others. Titles: two
  tabs and one member whose eight reviews buy the first title; members share nothing but the record.

Deadlock is checked in `chain`, whose synchronisations never end. It is not checked elsewhere
(`CHECK_DEADLOCK FALSE`), because each of those systems may really stop: the clock ends, a deleted round or a
paid order leaves nothing to do, and people need not press anything (or have come to the bound on their deeds).

## 4. Fairness

- `ProposalRound`: time passes; reads begin again and again, because the page of
  ongoing orders asks for all rounds every five seconds (`member-ongoing-orders.tsx:25`) and
  the voting and ordering pages poll too (`member-ordering-workspace.tsx:185`); a request that has begun runs on.
  No fairness is assumed of a member or of an admin. `RoundSettles` therefore only
  promises settlement for rounds somebody looks at.
- `OrderLifecycle`: a handler or payout that has begun runs on; the payout processor runs
  every minute and looks at all ready orders, so an order that is due
  again and again is loaded again and again (strong fairness of `LoadBatch` for
  each order), and a transfer tried again and again succeeds in the end (strong fairness of
  `SendNativeTransfer`).
- `WebSession`: what the browser and the server do by themselves is done (`Works(t)`: requests are answered or
  fail, effects run, documents load). Nobody has to log in, to answer the wallet or to follow a link.
- `OrderDesk`: requests are served or fail, payments that were confirmed are mined, handlers run on. The
  wallet's question may be left open for ever.
- `RoundViews`: refreshes are read and answered (each for itself), the redirect effect runs, and the
  interval polls while a page of the voting or ordering stage is open. Handlers need not end, nobody has to press
  a button, and the clock need not reach a deadline.

The other modules state safety only.

## 5. Proofs

Nothing but the named assumptions on constants is assumed: `SetsAssumption`,
`AmountsAssumption`, `RecordsAssumption` and `AuthoritiesAssumption` of `VotingSystem`
(finite sets of members and proposals, distinct holders, natural amounts, well-formed quotes and
schedules), `ConstantsOK` of `Governance` and of `OrderEscrow` (finite sets, natural fees and amounts, packed
fields that hold the number of every merchant; the theorems name it as a hypothesis, and `ContractsAssumption` of `MCContracts` has TLC
evaluate both), `RoundAssumption` of `ProposalRound` (finite sets of members, merchants and workers, at least
one worker, natural fees, a positive limit of options, positive numbers of votes, rates up to the whole), `OrderAssumption` of `OrderLifecycle` (finite sets of payments, handlers and payouts,
positive prices, natural bounds), `SyncAssumption` of `ChainSync` (finitely many rounds, a positive batch size, positive amounts) and `UnitAssumption` of
`EventProjection` (a token is a positive number of units), `FlowsAssumption`, `NoTxAssumption`,
`NobodyAssumption` and `MaxAppliedAssumption` of `PaymentSync` (handlers of the six there are, the absence of a payment or of a
member told apart from each, a positive cap), and `DesksAssumption` of `MCPages` (the pages of a desk are among the pages, a list of groups is not a group's page, `NoWallet`
is not a wallet, shops have positive numbers), `DeskAssumption` of `MCOrderDesk` (finitely many orders and handlers, every round listed has an order,
a payouts page is not the merchant's list or detail page), `ViewsAssumption` of `MCRoundViews` and `SessionAssumption` of `MCWebSession` (the
`ConstantsOK` of the modules they instantiate). `OrderForms` needs none. The bounds `MaxOptions`, `MaxTime`, `MaxOrders`,
`MaxConfirms`, `MaxCrashes`, `MaxLost`, `MaxApplied`, `MaxBlocks`, `MaxRounds` and `MaxClaims` are arbitrary numbers in the theorems.

The voting contract:

| Theorem | Property | Argument |
|---|---|---|
| `TypeCorrect` | `TypeOK` | inductive by itself: each subtraction is guarded, `orderPool` by the checked arithmetic of the contract |
| `LifeInOrder` | - | `Stages`: the deadlines of a proposal follow each other; no options before it exists; finalised => past the vote deadline; settled => finalised and past the order deadline |
| `WinnerStands` | `WinnerIsFirstBest` | with `Stages`: a vote needs the window that finalisation needs closed; `WinnerExists` shows that among finitely many options one beats all |
| `OrdersAreSigned` | `SignedOnce` | only `PlaceOrder` makes an order active |
| `PoolsAddUp` | `PoolAccounting` | inductive with `TypeOK`; `OneOrderChanges` turns one changed order into one changed sum |
| `SettlementIsFinal` | `SettledIsFinal` | with `Stages`: each window is closed once the order deadline has passed |
| `SubscriptionsGrow` | `SubscriptionExtends` | a payment is the only step that changes a subscription, and adds to the later of now and its end |
| `TokensSuffice` | `TokenSolvency` | with `Stakes`: an option pool is the sum of its options' stakes, so that the rounded rewards of a settlement (`DistributedBound`) are at most the pool |
| `EtherSuffices` | `NativeSolvency` | with `PoolAccounting`: a settlement pays the order pool, which is at most the refunds it no longer owes |

`WinnerIsFirstBest`, `TokenSolvency` and `NativeSolvency` are not inductive: a state in
which a winner is fixed while votes still come in, or a pool is larger than its
stakes, satisfies them and has successors that do not. The strengthening is the
conjunction of `TypeOK`, `Stages`, `Stakes` and `PoolAccounting`. `SumLemmas` proves the
facts about sums over finite sets that the library lacks; its induction over
subsets is over the set of good subsets, so no second-order theorem is needed.

The governance and escrow contracts:

| Theorem | Property | Argument |
|---|---|---|
| `GovernanceTypes` | `Governance!TypeOK` | inductive by itself: candidates are distinct merchants and a count is tested against its width before it is stored (`Fits`), so that neither spills into the next field |
| `GovernanceIsElection` | `RoundsAreElections` | `ElectionInv`: a round's status, deadlines, candidates and ballots fit each other (`Lives`, `Lists`, `CastWell`, `TalliesMatchRecords`); each function is a step of `Election` for the one round it names, and a stutter for all others |
| `GovernanceTallies` | `TalliesMatchRecords` | part of `ElectionInv`: one vote changes one packed record and one count by the same amount |
| `GovernanceCoupons` | `CouponsBacked` | a coupon that is used was left, and a claim adds to what was granted what it leaves |
| `GovernanceFees` | `FeesMatchRecords` | `Balanced`: the ether and the coupons used are a sum over rounds, candidates, votes and subscriptions, of which each payable function adds one term |
| `EscrowsStayCovered` | `EscrowsCovered` | `EscrowInv`: the contract's ether is the sum, over the escrows, of what was paid into each, less its total once that is paid out |
| `ContractsAddUp` | `RecordsAddUp` | the conjunction of the four above |

That `Governance` implements `Election` rests on the order of the deadlines: `propose` and `settleRound` test no
status, and `Lives` says which status a round can have at which time. These six are for all values of the
constants. `MCContracts` holds both contracts side by side as an instance of `GovernanceProofs`; two theorems of
`VotingSystemProofs` carry the results over to what that run checks, for any voters and merchants and without the
order that the run puts on their calls:

| Theorem | Property | Argument |
|---|---|---|
| `RecordsAlwaysAddUp` | `RecordsAddUp` | `ContractsAddUp`, for that instance |
| `RoundsAlwaysAreElections` | `RoundsAreElections` | `GovernanceIsElection`, for that instance |

A local round of the backend:

| Theorem | Property | Argument |
|---|---|---|
| `TalliesAreExact` | `TallyMatchesVotes` | `VotesInv`, `WorkInv`: a vote, recorded or about to be, names an identifier that was given out, so that a new option starts without votes; each `RecordVote` adds one vote to one sum (`OneVoteMore`) |
| `WinnersAreBest` | `WinnerIsBest` | `WinnerInv`: a worker about to fix a winner, and an admin's change about to store one, holds an option that no other exceeded (`Best`) at some time after the last vote from before the voting was over; so whichever of them writes last, it is such an option, and late votes only add to its side |
| `RowsExplainFees` | `FeesAndTickets` | `FeesInv`: what a member paid and the tickets he has left are explained by the rows, and before the round is created nobody has paid anything; each insert adds one row together with its fee or its ticket |
| `OvershootIsLimited` | `OvershootBounded` | `LimitInv`: once a limit is reached, the options there are and the workers that will still add one (`Adders`) stay within the bound |
| `RefundsAreCovered` | `RefundsCovered` | `CreditInv`, beside `IInv` and `FeesInv`: the options a settlement has loaded are an older copy of those there (`Older`). By option, what it returns and what it refunds to the voters come to at most the fee and what was collected since (`OptionReturns`); by member, both sides are sums of the same rows (`WhatWasPaid`, `WhatIsCredited`) |

`RefundsCovered` is hard because a settlement mixes two times: options as it loaded them, votes as they are when it
pays. What was collected in between is refunded to voters but not yet split as a bonus, and shares are rounded
down: `BpsParts` and `SharesAddUp` show that rounding never adds up to more than the share of the sum, whatever the rates
up to the whole.

`OvershootBounded` is not inductive: a state with few options and many workers past the check satisfies it
whatever limit is exceeded next. `Room` counts both: below the limit it says nothing, since
nobody has been stopped yet; the insert that reaches the limit leaves at most the other workers to add; from then on
nobody passes the check, and each insert moves a worker from one count to the other.

`WinnerIsBest` is not inductive: it says nothing of what a worker has tallied and not yet written. That the blind update
does no harm rests on the order inside `refreshProposalState`: it counts after it has seen that the voting is over.

The orders of a round:

| Theorem | Property | Argument |
|---|---|---|
| `TypeCorrect` | `TypeOK` | inductive by itself: a handler's stale row and a payout's batch name orders that exist, since no order is removed |
| `PayoutsAreConfirmed` | `PayoutsConfirmed` | `PayoutInv`: an order that is ready, in a payout's hands or paid for was confirmed; the transfers made, plus the payouts that may still make one (`Senders`), stay within the allowance |
| `RetriesAreBounded` | `RetriesBounded` | `RetryInv`: the times a payment was added, plus the handlers that may still add it (`Adders`), stay within the bound, which a completion that is lost raises by one |
| `AmountsArePaid` | `AmountsArePaidFor` | `AmountInv`: the items of an order, read after its row is locked, are exactly what its payments bought, and no amount, in the table or in a stale copy, exceeds them; with `RetriesAreBounded`, a recorded payment bought no more than `Recorded` |

None of the last three is inductive: a state with a payout about to send for an order that
was never confirmed, or a handler about to write back an amount that is too
large, satisfies the property and has a successor that does not. Counting who may still
act (`Senders`, `Adders`) beside what was done is what makes the first two go
through: a transfer moves one process from the first count to the second, and
only a confirmation, a crash or a payout given up lets processes in again. The
amounts of an order may go down when a stale row is written back, so the sum of the amounts says
nothing about the next step; the sum of the items does.

The desks of merchants and admins, for any orders, pages and handlers, and without the bounds of `MCOrderDesk` (`DeskRuns`):

| Theorem | Property | Argument |
|---|---|---|
| `DeskStaysSound` | `DeskIsSound` | a handler that waits for a receipt or records has sent for all of its group (`Dispatched`); a set of statuses has one tab, which the four places agree on (`GroupHasTab`) |
| `NobodyIsPaidTwice` | `NoDoubleWithoutTrouble` | `DeskInv`: one handler at most keeps the buttons of a page off (`OneBusy`); without trouble an order was paid for once at most, and then is paid or in the hands of the handler that sent (`OnceEach`), who alone holds an order has sent it only in the step it is at (`HeldOnce`), and what a page lists, or is about to, is unpaid unless its own handler is paying (`ListedUnpaid`) |

`NoDoubleWithoutTrouble` says nothing of the pages, and is not inductive: what makes the next press harmless is what the page
lists. Uniqueness of the holder is part of what `HeldOnce` supposes and not of the invariant, because two handlers that
hold an order are trouble only with their next step. The proof corrected what trouble is: with two payouts pages open
every payment from outside a page is trouble through the other one, so the runs with two pages alone would not have shown that a
handler whose page was left, and the background processor that pays meanwhile, pay an order twice.

The follower of the chain:

| Theorem | Property | Argument |
|---|---|---|
| `CursorIsSafe` | `CursorSafe` | `IInv`: marks are set in order (`InOrder`), and everything below a cursor somebody read, or below a range somebody asked for, is applied (`RangesSafe`) |
| `RewardsAreOnce` | `RewardsOnce` | `RewardsInv`: the credits of a member are the allocations in the blocks taken in, and those in the log are the options of settled rounds he proposed, each once |
| `RoundsAreMirrored` | `MirrorAgrees` | `MirrorInv`: a round no member touched has a history of places, one for each block, each reached from the one before by what the block's events do, and the last is its contract; its rows show the place after the blocks taken in (`Traced`), with each vote converted by itself, as `shares` has it |
| `NothingIsRefused` | `NothingRefused` | `VotersInv`: the voters in the rows are among those of the blocks taken in; so, while the contract let nobody vote twice and no merchant stand twice, each block of a batch finds rows that take it |
| `LogIsFollowed` | `FollowsTheLog` | the same invariant: storing a batch either adds no mark, or leaves exactly the blocks up to its end marked, a step of `EventLog`; all others change nothing there |

`CursorSafe` is not inductive: a synchronisation whose old range starts above a gap would
close the cursor over it. What makes the stale cursors harmless is that marks are never taken
back, so that a cursor that was safe when it was read is safe whenever it is written. What the
events do to the tables is opaque to this proof.

`MirrorAgrees` speaks of one moment, when all blocks are taken in, and is far from inductive: what the
rows show in between is the contract as it was some blocks ago. The history of places makes that past
something the invariant can name. It need not be a variable: it exists (`\E h, k`), a step of the contract makes it one
place longer, and storing a batch moves `k` along it. `NothingRefused` follows from the same
history: whether an insert meets a unique index depends on the place, and on the voters in the blocks up to it.

The payments of members:

| Theorem | Property | Argument |
|---|---|---|
| `TypeCorrect` | `TypeOK` | with `IInv`: a handler under way has a member, a page is open in a session |
| `RetriesAreHarmless` | `RetriesApplyOnce` | `RetryInv`, beside `IInv`: see below |
| `LedgerIsKept` | `LedgerKept` | `IInv`: what a note or a handler carries was sent for its purpose, and has its outcome once it is noted (`NotesInv`, `Fits`); a replay runs the handler of the note's purpose (`ReplayKeepsKind`); a step either leaves payments and records alone, decides the outcome of one (`Decide`), or applies one (`Record`) |

`LedgerKept` is not inductive: a note that names another purpose than its payment breaks it only when
some page replays it.

`RetriesApplyOnce` is not either: it says nothing of who is about to ask again. `RetryInv` says of each
payment what can still come. Before its receipt is there, nothing is noted, registered or applied
(`FreshInv`); while it is not `tangled`, it has one request under way, of its own member, who also registered it, and it is
not applied before that request has registered it (`AloneInv`); and a registered payment that is not yet completed was applied at most by the
request that is about to complete it, while a completed one has no request left that would apply it again (`OnceInv`). A
server that slips at that very place makes the payment `tangled`, which is where the guarantee of the code ends.

The desks, each by its own specification (`Menu!Spec`, `Shop!Spec`, `Platform!Spec`, `Group!Spec`), so without the bounds that
`MCPages` puts on deeds:

| Theorem | Property | Argument |
|---|---|---|
| `MenuAlwaysIsTheLog` | `MenuIsTheLog` | `MenuInv`: while readers do not cross and no approval crosses midnight, one reader at most is under way (`OneReader`), what was applied comes before all that is to come (`AppliedFirst`), and a reader has listed all that is due before what it leaves (`ListedFirst`); so the change it applies next is the last of its item (`LastOnMenu`) |
| `OpenShopsStayWhole` | `OpenShopsAreWhole` | `ShopInv`: an open shop has a wallet unless it was returned, and beside those that were returned or are `extra` there is at most one (`OneOpenShop`); a save that found no open shop is either overtaken or there still is none (`StillNone`), so that what it makes is the only one or `extra` |
| `SettingsLostOnlyBehind` | `LostOnlyBehind` | `SettingsInv`: a copy no older than the parameters agrees with them where it was not edited, and the minutes a page sends were edited only together with its options (`PageHolds`) |
| `GroupsAlwaysKeepDoors` | `GroupsKeepDoors` | `GroupInv`: codes are given out in order, so that the next one is new (`NextCodeIsNew`) and a page that shows a code shows one of its group (`CodesLead`, `LatestLeads`); no removal takes the owner (`OwnersStay`) |

None of the four is inductive: each says nothing of the request that is on its way. `MenuIsTheLog` has the hard one: readers of menus list
the due changes first and apply them one by one, each in a transaction of its own, while admins go on approving and the day
changes. That nothing that became due meanwhile may come before what is already applied rests on the
midnights: a change takes effect on a later day than the one it is approved on.

The ordering forms:

| Theorem | Property | Argument |
|---|---|---|
| `PaidRoundsAreMade` | `PaidRoundIsMade` | `FormInv`: the durations and shops of the form are those that the page has read; with `JobInv`, those of a handler too, although the page may be filled in anew meanwhile |
| `DurationsAreShown` | `MinutesAreShown` | `RoundsInv`: a deadline no admin has moved is where the durations asked for put it; these were admitted by the rule of the server, so that no stage lasts long enough to be taken for another one |
| `OrdersArePaid` | `OrderedIsPaid` | `JobInv`: from the signature on, what the wallet was asked for is the price that was signed, or the page knew no treasury |
| `ChargesAreShown` | `ChargedIsShown` | `JobInv`: until the signature the quantities are those on the page and the menu is the page's copy, or has changed since |

Reviews and titles:

| Theorem | Property | Argument |
|---|---|---|
| `EarningsAreKept` | `EarnedIsKept` | `TitlesInv`: what a handler is about to write goes on from what it has read (`HandlersFit`): it keeps the reviews and the titles (`Keeps`) and does not spend more than is earned (`OneMorePurchase`); so a write loses something only if the record has changed since, which is what `overtaken` notes |

`EarnedIsKept` says nothing of the record that a handler holds and will write, so it is not inductive. A purchase is put
in front of the list, so that all places shift by one: `SumShift` shows that the sum over them does not.

Sign-in, for any number of tabs, accounts and sessions (`SessionRuns`):

| Theorem | Property | Argument |
|---|---|---|
| `ShownIsAlwaysOwner` | `ShownIsOwner` | `SessionInv`: sessions are numbered as they are issued, so that one that is stored, asked with or granted keeps its owner (`ServerInv`); a gate that waits for an answer asked it with a session of the account the tab still has, or is about to be left (`TabsInv`); the old version's session is there only before any page was opened (`LegacyInv`) |

`ShownIsOwner` says nothing of a gate that has asked and not yet been answered, nor of a login that has been granted
a session and not stored it, so it is not inductive either.

The pages of a round, for any members, refreshes and handlers that overlap, from each round a member may come upon (`ViewsRun`):

| Theorem | Property | Argument |
|---|---|---|
| `RefusalsAreBehind` | `RefusedOnlyBehind` | `ViewsInv`: a handler whose page was up to date when it was pressed is the only one, and while the clock stands and the member stays in the group the server would take what it asks, unless it is a vote whose ticket the page should have looked at (`Promised`); what others do to the round breaks no promise (`Harmless`), nor does the winner that a read fixes (`SettledIs`); a copy that says a round failed was read of one that had (`CopyFits`) |

`RefusedOnlyBehind` speaks of one step, several steps after the press it judges; `Promised` carries the state at the press over
the signature, the payment and the steps of others to the request.

Only model-checked:

- all liveness (`ReadyIsPaid`, `RoundSettles`, `VisitsSettle`, `PressReachesAll`, `PageFollowsRound`, `VoteStaysShown`),
  which these provers do not reach.

Proved and no longer part of a run, because
the theorem says more: `TypeOK` of `VotingSystem`, `OrderLifecycle` and `PaymentSync`, `SignedOnce`, `SubscriptionExtends`, `RetriesBounded`.

## 6. Findings

With a run that shows them:

1. `VotingSystem-v3.sol:304` (`reorder`): `placeOrder` takes a cancelled order's amount out of the
   order pool a second time. No money of others is lost (`NativeSolvency` still holds),
   but the pool may become too small for another member's refund, whose cancellation
   then reverts although the window is open and the order is there.
2. `postgres.go:3887` (`settle_twice`): the test of `rewards_applied` is made before the transaction that sets it;
   two reads at the deadline pay the rewards twice.
3. `portal_handlers.go:587` and `bootstrap.go:182` (`paid_twice`): an order stays ready for payout during the
   transfer, so a second payout, or a restart, pays it again.

With a configuration beside the runs:

4. `helpers.go:109` (`MCProposalRoundMidnight.cfg`, `RoundSettles`): a round is settled only on its own local date. If its
   vote ends after midnight it is never settled, although callers are told that settlement is
   automatic (`service/proposal.go:283`).
5. `member-ordering-workspace.tsx:232` (`MCPaymentSyncNote.cfg`, `NotedUntilRecorded`): the tab has one slot for the note of
   a payment. A second payment overwrites the note of one that is not yet recorded, and so
   does a replay that is answered clear the note of a newer one; the server is then never told what the first was for.
6. `admin-payouts.tsx:118-147` (`MCOrderDeskAgain.cfg`, `PaidNotPaidAgain`): when one group of a batch fails, the page is not
   refreshed. It says (line 237) that an order paid by hand leaves the list at once, but groups already paid
   stay on it with their boxes, and the next press pays them again.

Without a configuration of their own (all but 10 are operators to put in place of the properties of the
configuration named):

7. `member-ordering-workspace.tsx:1448` (`NamedIsSent`, `MCOrderForms.cfg`): a shop that was picked by its button is sent
   even if another one is typed afterwards.
8. `member-ordering-workspace.tsx:1022` (`SumIsShown`, `MCOrderForms.cfg`): the sum beside the button is computed
   from the page's copy of the menu, the wallet is asked for the sum over the menu of the moment.
9. `postgres.go:1867` (`MenuInOrder`, `MCPages.cfg`): two readers that apply due changes at once may
   leave the older price on the menu, although the page says that an approved change is in effect from the next midnight on
   (`merchant-menu-manager.tsx:208`).
10. `postgres.go:2162`: the new payout wallet goes to the first shop of the owner in whatever state it is, one that
    was given up included (`ShopProfile` finds the shop as the code does), although the page says that the wallet of the shop it shows was changed
    (`merchant-profile-manager.tsx:90`).
11. `handlers/helpers.go:61` (`WithdrawOffered`, `MCRoundViews.cfg`): answers hide who created a round and who
    proposed, and the pages offer to withdraw a round only to whom the answer names as its creator
    (`member-ordering-workspace.tsx:1389`): nobody is ever offered it.

Seen while modelling:

- a member who ticks the vote ticket without typing a number, or without having a ticket, pays for the vote and is refused
  afterwards: the page tests neither (`member-ordering-workspace.tsx:1124-1150`), the server does
  (`service/proposal.go:205-210`); `RefusedOnlyBehind` names the case;
- the receipt's status is never read (`chain.ts:62-72`): a payment that reverted, was replaced or cancelled is noted,
  registered and recorded like any other, and the amount of an order is what the request says (`AmountWei`);
- a payment is applied twice by a replay of the same member, one request after the other, when the server slipped between the
  change and its completion (`handlers.go:799`, `865`, `934`, `1074`, `1664-1683`);
- a fixed winner may be replaced by an overlapping refresh (`postgres.go:3855`), a later vote or a tie permitting, and two
  settlements may then each pay for a winner of its own;
- votes of the chain are converted one by one, and half a token counts for more than a whole one (`helpers.go:188-198`): the
  tallies of an imported round, and the order of its options, may differ from the contract's;
- two tabs that save a shop at once may make two open shops of one owner (`postgres.go:2123-2141`), and so may
  `/merchant/claim`; like `/merchant/delist`, no page calls it (`lib/api.ts:874`, `914`);
- an approval that is under way at midnight takes effect a day early, `effectiveAt` being computed before the update
  (`portal_handlers.go:433-440`);
- two tabs that write the record of reviews at once lose what one of them wrote (`EarnedIsKept` excepts it);
- a round with a limit of one option and two shops picked on the form is paid for and then stored without
  the second (`PaidRoundIsMade` names the case);
- the error of `service/proposal.go:61` says "10 to 90 minutes in 10-minute steps"; the rule admits every number of minutes from 1 to 90,
  while an admin may offer more than 90, which is paid for and then refused;
- `releasePayout` of the escrow contract pays the total of an order although less was paid in, from the ether of the others;
- `postgres.go:2050`: the owner's own shop is looked up among those with no request to delist, so the button
  that takes such a request back is on a page that no longer finds the shop after a reload.

## 7. Not modelled, and the plan

Not modelled: the leaderboard and the other pages that only read; the rate limiter (a counter in memory that nothing
else reads); decoding, routing and configuration; daily rewards, ticket claims and the faucet (single updates that
nothing here reads); the binding of the treasury wallet (both addresses are the platform's); names, notes,
hashes, the house drawn for a shop, layout and wording; `governance-board.tsx` (no page imports
it) and `handleDeleteOrder` of the ordering workspace (nothing that is shown calls it, see finding 11); the legacy front end in
`frontend/`, which `README.md:159` takes out of the main line.

Several requests of the same page are one at a time in the desks (the buttons are off meanwhile), the two reads of
one refresh are one step in `RoundViews`, and the payment is one step in `RoundViews` and `OrderForms`: `PaymentSync` has
its steps.

Worth adding next:

1. `ChainSync`: subscription events and pending transactions; the status of an imported round, which
   is given up ("no votes cast") by the first read after its vote deadline although votes came as events.
2. Rounds and orders of a pruned group, which go with it (`GroupDesk` and `OrderLifecycle` composed).

----------------------------- MODULE WebSession -----------------------------
(***************************************************************************)
(* Signing in to the web application: the login cards of the home page, the *)
(* wallet button of the navigation bar, the admin's forms, the status       *)
(* request of the bar, the gate in front of every page, and the server's    *)
(* wallet challenge and registration behind them.                           *)
(*                                                                          *)
(* Requests of a page that was left by a link go on in the same document:   *)
(* a status request that fails then still removes the token, a gate that is *)
(* no longer mounted still redirects.  A document that was told to go       *)
(* elsewhere goes on until it is unloaded.                                  *)
(***************************************************************************)
EXTENDS Naturals, FiniteSets

CONSTANTS Tabs, Wallets,
          Entrances,    \* the pages that members open by their address
          MaxMembers,   \* bound on the accounts that register with a wallet
          MaxTokens,    \* bound on the sessions the server issues
          NoWallet      \* an account that has not got a wallet yet

VARIABLES
  token,      \* token[t]: the session in the tab's session storage, 0 for none
  legacy,     \* the session an older version left in the browser's local storage
  doc,        \* doc[t]: the document of the tab
  login,      \* login[t][c]: the login under way from the card or button c
  wallet,     \* wallet[m]: the wallet of the account m that registered with one
  subscribed, \* the accounts with an active subscription
  challenge,  \* challenge[w]: the number of the wallet's stored challenge, 0 for none
  nonce,      \* how many challenges were made
  owner       \* owner[n]: the account of the session n, once issued

vars == <<token, legacy, doc, login, wallet, subscribed, challenge, nonce, owner>>

Admin    == 0
Nobody   == MaxMembers + 1
Blank    == "blank"      \* an account whose wallet was unlinked
Accounts == 0 .. MaxMembers
Tokens   == 1 .. MaxTokens
Created  == {m \in 1 .. MaxMembers : wallet[m] # "none"}

Pages == {"home", "member", "merchant", "console", "admin", "subscribe"}
Cards == {"member", "merchant", "admin", "bar", "form"}

\* The constants are fit for the tables and the pages they bound.
ConstantsOK ==
  /\ NoWallet \notin Wallets /\ Entrances \subseteq Pages
  /\ MaxMembers \in Nat \ {0} /\ MaxTokens \in Nat \ {0}

Idle  == [step |-> "idle"]
NoDoc == [at |-> "none", next |-> "none", open |-> FALSE, shown |-> Nobody, gate |-> "due",
          status |-> "due", known |-> Nobody, asked |-> {}]

Running(t) == {c \in Cards : login[t][c] # Idle}

----------------------------------------------------------------------------
(* The stored session. *)

\* A session of the older version is taken over by the tab that asks first.
StoredToken(t) == IF token[t] = 0 THEN legacy ELSE token[t]
TakeOver(t) ==
  /\ token' = [token EXCEPT ![t] = StoredToken(t)]
  /\ legacy' = IF token[t] = 0 THEN 0 ELSE legacy

SetStoredToken(t, n) == token' = [token EXCEPT ![t] = n] /\ legacy' = 0
ClearStoredToken(t)  == SetStoredToken(t, 0)

KeepStorage == UNCHANGED <<token, legacy>>
KeepServer  == UNCHANGED <<wallet, subscribed, challenge, nonce, owner>>

----------------------------------------------------------------------------
(* Documents. *)

Document(p) == [NoDoc EXCEPT !.at = p]

\* Another page of the application: what was asked is asked for an unmounted page.
Moved(d, p) ==
  [Document(p) EXCEPT !.next = d.next, !.asked = {[a EXCEPT !.mounted = FALSE] : a \in d.asked}]

\* What a login has sent to the server is served although its document is gone.
Served == {"read", "delete", "find", "link", "issue"}
Orphaned(t) ==
  [login EXCEPT ![t] = [c \in Cards |->
     IF login[t][c].step \in Served THEN [login[t][c] EXCEPT !.live = FALSE] ELSE Idle]]

\* The address of a page, or a reload.
Visit(t, p) ==
  /\ doc' = [doc EXCEPT ![t] = Document(p)]
  /\ login' = Orphaned(t)
  /\ KeepStorage /\ KeepServer

Unload(t) ==
  /\ doc[t].next # "none"
  /\ Visit(t, doc[t].next)

HomeLinks == {"member", "merchant", "admin"}

\* The links of the bar: the role of the page decides, for an admin the account.
VisibleLinks(t) ==
  IF doc[t].known = Admin \/ doc[t].at = "admin" THEN {"admin", "console"}
  ELSE IF doc[t].at = "merchant" THEN {"merchant"} ELSE {"member"}

RoleOptions(t) ==
  IF doc[t].known \in {Nobody, Admin} \/ doc[t].at = "admin" THEN {} ELSE {"member", "merchant"}

Links(t) ==
  CASE doc[t].at = "home" -> HomeLinks
    [] doc[t].at = "subscribe" -> {"home"}
    [] OTHER -> VisibleLinks(t) \cup RoleOptions(t) \cup {"home"}

Follow(t, p) ==
  /\ doc[t].at # "none" /\ p \in Links(t)
  /\ doc' = [doc EXCEPT ![t] = Moved(doc[t], p)]
  /\ KeepStorage /\ KeepServer /\ UNCHANGED login

\* The bar offers the logout to a known member, and otherwise its wallet button,
\* which is disabled on the home page; the subscription page has no bar.
MayLogout(t)   == doc[t].known # Nobody /\ doc[t].at \notin {"none", "subscribe"}
MayLoginBar(t) == doc[t].known = Nobody /\ doc[t].at \in {"member", "merchant", "admin", "console"}

\* The small screen's menu offers the same, by one button.
MenuOffers(t) == IF doc[t].known # Nobody THEN MayLogout(t) ELSE MayLoginBar(t)

Logout(t) ==
  /\ MayLogout(t) /\ MenuOffers(t)
  /\ ClearStoredToken(t)
  /\ doc' = [doc EXCEPT ![t].known = Nobody, ![t].next = "home"]
  /\ KeepServer /\ UNCHANGED login

----------------------------------------------------------------------------
(* What pages ask of the server.  An answer is served when it arrives; a    *)
(* session is known to the server for ever, other tokens never are.         *)

Ask(t, kind) == [tok |-> StoredToken(t), kind |-> kind, page |-> doc[t].at, mounted |-> TRUE]
Asking(t, kind) == [doc EXCEPT ![t].asked = @ \cup {Ask(t, kind)}]
Answer(t, a) == [doc[t] EXCEPT !.asked = @ \ {a}]
MemberOf(a) == owner[a.tok]

StatusStarts(t) ==
  /\ doc[t].at \notin {"none", "subscribe"} /\ doc[t].status = "due"
  /\ TakeOver(t)
  /\ doc' = IF StoredToken(t) = 0
              THEN [doc EXCEPT ![t].status = "done", ![t].known = Nobody]
              ELSE [Asking(t, "status") EXCEPT ![t].status = "done"]
  /\ KeepServer /\ UNCHANGED login

StatusOK(t, a) ==
  /\ a \in doc[t].asked /\ a.kind = "status"
  /\ doc' = [doc EXCEPT ![t] =
       IF a.mounted THEN [Answer(t, a) EXCEPT !.known = MemberOf(a)] ELSE Answer(t, a)]
  /\ KeepStorage /\ KeepServer /\ UNCHANGED login

\* Whatever the failure and whichever token lies there by now: it is removed.
StatusFails(t, a) ==
  /\ a \in doc[t].asked /\ a.kind = "status"
  /\ ClearStoredToken(t)
  /\ doc' = [doc EXCEPT ![t] =
       IF a.mounted THEN [Answer(t, a) EXCEPT !.known = Nobody] ELSE Answer(t, a)]
  /\ KeepServer /\ UNCHANGED login

GateStarts(t) ==
  /\ doc[t].at \notin {"none", "home"} /\ doc[t].gate = "due"
  /\ TakeOver(t)
  /\ doc' = IF StoredToken(t) = 0 /\ doc[t].at # "admin"
              THEN [doc EXCEPT ![t] = Moved([doc[t] EXCEPT !.gate = "done"], "home")]
              ELSE [Asking(t, "gate") EXCEPT ![t].gate = "asked"]
  /\ KeepServer /\ UNCHANGED login

\* Where the gate of page p sends the account m, p itself if it lets it in.
Destination(p, m) ==
  CASE p = "console" -> IF m = Admin THEN p ELSE "member"
    [] p = "merchant" -> IF m = Admin THEN "admin" ELSE p
    [] p = "member" -> IF m = Admin THEN "admin"
                       ELSE IF m \in subscribed THEN p ELSE "subscribe"

Opened(d, m) == [d EXCEPT !.open = TRUE, !.gate = "done", !.shown = m]

\* The gate of member, merchant and admin pages.
GateOK(t, a) ==
  LET to == Destination(a.page, MemberOf(a)) IN
  /\ a \in doc[t].asked /\ a.kind = "gate" /\ a.page \in {"member", "merchant", "console"}
  /\ doc' = [doc EXCEPT ![t] =
       IF to # a.page THEN Moved(Answer(t, a), to)
       ELSE IF a.mounted THEN Opened(Answer(t, a), MemberOf(a)) ELSE Answer(t, a)]
  /\ KeepStorage /\ KeepServer /\ UNCHANGED login

GateFailsSilently(t, a) ==
  /\ a \in doc[t].asked /\ a.kind = "gate" /\ a.page # "admin"
  /\ doc' = [doc EXCEPT ![t] = Answer(t, a)]
  /\ KeepStorage /\ KeepServer /\ UNCHANGED login

\* A failure leads home, also when the page of the gate was left.
GateFails(t, a) ==
  /\ a \in doc[t].asked /\ a.kind = "gate" /\ a.page # "admin"
  /\ doc' = [doc EXCEPT ![t] = Moved(Answer(t, a), "home")]
  /\ KeepStorage /\ KeepServer /\ UNCHANGED login

\* The subscription page sends an active subscriber on, in a new document.
CheckpointOK(t, a) ==
  /\ a \in doc[t].asked /\ a.kind = "gate" /\ a.page = "subscribe"
  /\ doc' = [doc EXCEPT ![t] =
       IF MemberOf(a) \in subscribed
         THEN [Answer(t, a) EXCEPT !.next = "member"]
         ELSE IF a.mounted THEN Opened(Answer(t, a), MemberOf(a)) ELSE Answer(t, a)]
  /\ KeepStorage /\ KeepServer /\ UNCHANGED login

\* The admin's home shows its figures to an admin and its login form to others.
DashboardAnswers(t, a) ==
  /\ a \in doc[t].asked /\ a.kind = "gate" /\ a.page = "admin"
  /\ doc' = [doc EXCEPT ![t] =
       IF ~a.mounted THEN Answer(t, a)
       ELSE IF a.tok # 0 /\ MemberOf(a) = Admin THEN Opened(Answer(t, a), Admin)
       ELSE [Answer(t, a) EXCEPT !.gate = "form"]]
  /\ KeepStorage /\ KeepServer /\ UNCHANGED login

DashboardFails(t, a) ==
  /\ a \in doc[t].asked /\ a.kind = "gate" /\ a.page = "admin"
  /\ doc' = [doc EXCEPT ![t] = IF a.mounted THEN [Answer(t, a) EXCEPT !.gate = "form"] ELSE Answer(t, a)]
  /\ KeepStorage /\ KeepServer /\ UNCHANGED login

----------------------------------------------------------------------------
(* Logins.  Each card has a loading flag of its own: two of them may run at *)
(* once, for the same wallet too.                                           *)

\* A name is submitted by who registers, an invitation on the member's card only.
Inputs(c) ==
  CASE c = "member" -> {[name |-> FALSE, code |-> "none"]} \cup [name : {TRUE}, code : {"none", "bad"}]
    [] c = "merchant" -> [name : BOOLEAN, code : {"none"}]
    [] OTHER -> {[name |-> FALSE, code |-> "none"]}

Fresh(t, in, step) ==
  [step |-> step, live |-> TRUE, name |-> in.name, code |-> in.code,
   wallet |-> NoWallet, nonce |-> 0, account |-> Nobody, tok |-> 0]
Starts(t, c, in, step) == login' = [login EXCEPT ![t][c] = Fresh(t, in, step)]

StartCard(t, c, in) ==
  /\ c \in {"member", "merchant"} /\ doc[t].at = "home" /\ login[t][c] = Idle
  /\ in \in Inputs(c)
  /\ ClearStoredToken(t)
  /\ Starts(t, c, in, "connect")
  /\ KeepServer /\ UNCHANGED doc

StartBar(t) ==
  /\ MayLoginBar(t) /\ login[t]["bar"] = Idle
  /\ ClearStoredToken(t)
  /\ \E in \in Inputs("bar") : Starts(t, "bar", in, "connect")
  /\ KeepServer /\ UNCHANGED doc

StartAdmin(t) ==
  /\ doc[t].at = "home" /\ login[t]["admin"] = Idle
  /\ ClearStoredToken(t)
  /\ \E in \in Inputs("admin") : Starts(t, "admin", in, "password")
  /\ KeepServer /\ UNCHANGED doc

\* The form on the admin's page does not clear the stored session first.
StartForm(t) ==
  /\ doc[t].at = "admin" /\ doc[t].gate = "form" /\ login[t]["form"] = Idle
  /\ \E in \in Inputs("form") : Starts(t, "form", in, "password")
  /\ KeepStorage /\ KeepServer /\ UNCHANGED doc

At(t, c, s) == login[t][c].step = s
Step(t, c, s) == login' = [login EXCEPT ![t][c].step = s]
Ends(t, c) == login' = [login EXCEPT ![t][c] = Idle]

\* The member chooses a wallet; its address is noted for display only.
Connect(t, c, w) ==
  /\ At(t, c, "connect")
  /\ login' = [login EXCEPT ![t][c].step = "challenge", ![t][c].wallet = w]
  /\ KeepStorage /\ KeepServer /\ UNCHANGED doc

\* No wallet, or the member refuses to connect or to sign.
Refuse(t, c) ==
  /\ At(t, c, "connect") \/ At(t, c, "sign")
  /\ Ends(t, c)
  /\ KeepStorage /\ KeepServer /\ UNCHANGED doc

\* A wallet has one challenge: a new one replaces it.
StartWalletAuth(t, c) ==
  /\ At(t, c, "challenge")
  /\ nonce' = nonce + 1
  /\ challenge' = [challenge EXCEPT ![login[t][c].wallet] = nonce + 1]
  /\ login' = [login EXCEPT ![t][c].step = "sign", ![t][c].nonce = nonce + 1]
  /\ KeepStorage /\ UNCHANGED <<doc, wallet, subscribed, owner>>

Sign(t, c) ==
  /\ At(t, c, "sign")
  /\ Step(t, c, "read")
  /\ KeepStorage /\ KeepServer /\ UNCHANGED doc

\* The signature is over the message that is stored now, or it is refused.
ReadChallenge(t, c) ==
  /\ At(t, c, "read")
  /\ Step(t, c, IF challenge[login[t][c].wallet] = login[t][c].nonce THEN "delete" ELSE "failed")
  /\ KeepStorage /\ KeepServer /\ UNCHANGED doc

\* The stored challenge has expired: it is deleted and the login refused.
ExpiredChallenge(t, c) ==
  /\ At(t, c, "read") /\ challenge[login[t][c].wallet] # 0
  /\ challenge' = [challenge EXCEPT ![login[t][c].wallet] = 0]
  /\ Step(t, c, "failed")
  /\ KeepStorage /\ UNCHANGED <<doc, wallet, subscribed, nonce, owner>>

\* The wallet's challenge is deleted, whichever it is by now.
DeleteChallenge(t, c) ==
  /\ At(t, c, "delete")
  /\ challenge' = [challenge EXCEPT ![login[t][c].wallet] = 0]
  /\ Step(t, c, "find")
  /\ KeepStorage /\ UNCHANGED <<doc, wallet, subscribed, nonce, owner>>

WithWallet(w) == {m \in Created : wallet[m] = w}

\* The account of the wallet, or a new one that has no wallet yet.
FindMember(t, c) ==
  LET l == login[t][c]
      m == Cardinality(Created) + 1
  IN /\ At(t, c, "find")
     /\ \/ \E n \in WithWallet(l.wallet) :
             /\ login' = [login EXCEPT ![t][c].step = "issue", ![t][c].account = n]
             /\ UNCHANGED wallet
        \/ /\ WithWallet(l.wallet) = {} /\ ~l.name
           /\ Step(t, c, "failed") /\ UNCHANGED wallet
        \/ /\ WithWallet(l.wallet) = {} /\ l.name /\ m <= MaxMembers
           /\ wallet' = [wallet EXCEPT ![m] = NoWallet]
           /\ login' = [login EXCEPT ![t][c].step = "link", ![t][c].account = m]
     /\ KeepStorage /\ UNCHANGED <<doc, subscribed, challenge, nonce, owner>>

\* Wallets are unique among the accounts, and so is the blank of an unlinked one.
Free(w, m) == \A n \in Created : wallet[n] = w => n = m

\* Then a right invitation is rewarded (with tickets, which are left out).  A wrong
\* code fails the request, although the account is there and has its wallet by now.
LinkWallet(t, c) ==
  LET l == login[t][c]
      linked == Free(l.wallet, l.account)
  IN /\ At(t, c, "link")
     /\ wallet' = IF linked THEN [wallet EXCEPT ![l.account] = l.wallet] ELSE wallet
     /\ Step(t, c, IF linked /\ l.code # "bad" THEN "issue" ELSE "failed")
     /\ KeepStorage /\ UNCHANGED <<doc, subscribed, challenge, nonce, owner>>

Issued == {n \in Tokens : owner[n] # Nobody}

CreateSession(t, c) ==
  LET n == Cardinality(Issued) + 1 IN
  /\ At(t, c, "issue") /\ n <= MaxTokens
  /\ owner' = [owner EXCEPT ![n] = login[t][c].account]
  /\ login' = [login EXCEPT ![t][c].step = "granted", ![t][c].tok = n]
  /\ KeepStorage /\ UNCHANGED <<doc, wallet, subscribed, challenge, nonce>>

PasswordLogin(t, c) ==
  /\ At(t, c, "password")
  /\ login' = [login EXCEPT ![t][c].step = "issue", ![t][c].account = Admin]
  /\ KeepStorage /\ KeepServer /\ UNCHANGED doc

HomeOf(m) == IF m \in subscribed THEN "member" ELSE "subscribe"

LoggedInPlace(t, c) ==
  LET l == login[t][c] IN
  /\ At(t, c, "granted") /\ l.live /\ c # "form"
  /\ SetStoredToken(t, l.tok)
  /\ doc' = [doc EXCEPT ![t].known = l.account]
  /\ Ends(t, c)
  /\ KeepServer

\* The session is stored and another document asked for.
LoggedIn(t, c) ==
  LET l == login[t][c]
      to == CASE c = "admin" -> "admin" [] c = "merchant" -> "merchant" [] OTHER -> HomeOf(l.account)
  IN /\ At(t, c, "granted") /\ l.live /\ c # "form"
     /\ SetStoredToken(t, l.tok)
     /\ doc' = [doc EXCEPT ![t].next = to, ![t].known = IF c = "bar" THEN l.account ELSE @]
     /\ Ends(t, c)
     /\ KeepServer

\* The admin's page stays and asks for its figures again.
FormLoggedIn(t) ==
  LET l == login[t]["form"] IN
  /\ At(t, "form", "granted") /\ l.live
  /\ SetStoredToken(t, l.tok)
  /\ doc' = IF doc[t].at = "admin" THEN [doc EXCEPT ![t].gate = "due"] ELSE doc
  /\ Ends(t, "form")
  /\ KeepServer

LoginFails(t, c) ==
  /\ At(t, c, "failed") \/ (At(t, c, "granted") /\ ~login[t][c].live)
  /\ Ends(t, c)
  /\ KeepStorage /\ KeepServer /\ UNCHANGED doc

\* The connection breaks: the card is free again, the server goes on.
LoseAnswer(t, c) ==
  /\ login[t][c].step \in {"challenge", "password"} \cup Served \cup {"granted"}
  /\ login[t][c].live
  /\ login' = [login EXCEPT ![t][c] =
       IF @.step \in Served THEN [@ EXCEPT !.live = FALSE] ELSE Idle]
  /\ KeepStorage /\ KeepServer /\ UNCHANGED doc

----------------------------------------------------------------------------
(* The account page, and subscriptions that begin and end. *)

Self(t) == IF token[t] = 0 THEN Nobody ELSE owner[token[t]]
OnAccountPage(t) == doc[t].at = "member" /\ doc[t].open /\ Self(t) \in Created

ChangeWallet(t, w) ==
  /\ OnAccountPage(t) /\ Free(w, Self(t))
  /\ wallet' = [wallet EXCEPT ![Self(t)] = w]
  /\ KeepStorage /\ UNCHANGED <<doc, login, subscribed, challenge, nonce, owner>>

UnlinkWallet(t) ==
  /\ OnAccountPage(t) /\ wallet[Self(t)] \in Wallets /\ Free(Blank, Self(t))
  /\ wallet' = [wallet EXCEPT ![Self(t)] = Blank]
  /\ KeepStorage /\ UNCHANGED <<doc, login, subscribed, challenge, nonce, owner>>

SubscriptionChanges(m) ==
  /\ m \in Created
  /\ subscribed' = IF m \in subscribed THEN subscribed \ {m} ELSE subscribed \cup {m}
  /\ KeepStorage /\ UNCHANGED <<doc, login, wallet, challenge, nonce, owner>>

----------------------------------------------------------------------------
Init ==
  /\ token = [t \in Tabs |-> 0]
  /\ legacy \in {0, 1}
  /\ doc = [t \in Tabs |-> Document("home")]
  /\ login = [t \in Tabs |-> [c \in Cards |-> Idle]]
  /\ wallet = [m \in 1 .. MaxMembers |-> "none"]
  /\ subscribed = {}
  /\ challenge = [w \in Wallets |-> 0]
  /\ nonce = 0
  /\ owner = [n \in Tokens |-> IF n = legacy THEN Admin ELSE Nobody]

AnswerOK(t, a) == StatusOK(t, a) \/ GateOK(t, a) \/ CheckpointOK(t, a) \/ DashboardAnswers(t, a)
AnswerFails(t, a) == StatusFails(t, a) \/ GateFails(t, a) \/ DashboardFails(t, a)

Mounts(t) == StatusStarts(t) \/ GateStarts(t)

Serve(t, c) ==
  \/ StartWalletAuth(t, c) \/ ReadChallenge(t, c) \/ ExpiredChallenge(t, c) \/ DeleteChallenge(t, c) \/ FindMember(t, c)
  \/ LinkWallet(t, c) \/ CreateSession(t, c) \/ PasswordLogin(t, c)

Returns(t, c) == LoggedIn(t, c) \/ LoginFails(t, c) \/ (c = "form" /\ FormLoggedIn(t))

\* What the member does with the browser, on the account page, and in the wallet.
Browses(t) == Logout(t) \/ (\E p \in Entrances : Visit(t, p)) \/ (\E p \in Pages : Follow(t, p))

Changes(t) ==
  \/ \E w \in Wallets : ChangeWallet(t, w)
  \/ UnlinkWallet(t)
  \/ \E m \in 1 .. MaxMembers : SubscriptionChanges(m)

SignsIn(t) ==
  \/ \E c \in Cards, in \in Inputs("member") : StartCard(t, c, in)
  \/ StartBar(t) \/ StartAdmin(t) \/ StartForm(t)
  \/ \E c \in Cards : Refuse(t, c) \/ Sign(t, c) \/ \E w \in Wallets : Connect(t, c, w)

Works(t) ==
  \/ Unload(t) \/ Mounts(t)
  \/ \E a \in doc[t].asked : AnswerOK(t, a)
  \/ \E c \in Cards : Serve(t, c) \/ Returns(t, c)

\* A connection breaks.
Breaks(t) ==
  \/ \E a \in doc[t].asked : AnswerFails(t, a)
  \/ \E c \in Cards : LoseAnswer(t, c)

Next == \E t \in Tabs : Browses(t) \/ Changes(t) \/ SignsIn(t) \/ Works(t) \/ Breaks(t)

(* In no tab does everything that could go on stand still: a promise a page  *)
(* waits for settles, an effect of a mounted page runs, the server goes on,   *)
(* a document told to go elsewhere is unloaded.  Members may leave the        *)
(* wallet's questions open for ever.                                          *)
Fairness == \A t \in Tabs : WF_vars(Works(t))

Spec == Init /\ [][Next]_vars /\ Fairness

----------------------------------------------------------------------------
(* Properties. *)

Asks == [tok : Tokens \cup {0}, kind : {"status", "gate"}, page : Pages, mounted : BOOLEAN]

(* The variables have their types. *)
TypeOK ==
  /\ token \in [Tabs -> Tokens \cup {0}] /\ legacy \in Tokens \cup {0}
  /\ doc \in [Tabs -> [at : Pages \cup {"none"}, next : Pages \cup {"none"}, open : BOOLEAN,
                      shown : Accounts \cup {Nobody}, gate : {"due", "asked", "form", "done"},
                      status : {"due", "done"}, known : Accounts \cup {Nobody}, asked : SUBSET Asks]]
  /\ wallet \in [1 .. MaxMembers -> Wallets \cup {"none", NoWallet, Blank}]
  /\ subscribed \subseteq Accounts
  /\ challenge \in [Wallets -> 0 .. nonce]
  /\ owner \in [Tokens -> Accounts \cup {Nobody}]

(* Every visit settles: whatever fails on the way, the tab comes to rest on  *)
(* a page it may show, the home page, or the admin's login form; redirects   *)
(* do not go round in circles and no page waits at its gate for ever.        *)
Settled(t) ==
  /\ doc[t].next = "none"
  /\ doc[t].at = "home" \/ doc[t].open \/ doc[t].gate = "form"
VisitsSettle == \A t \in Tabs : doc[t].at # "none" ~> Settled(t)
=============================================================================

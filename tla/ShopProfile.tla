----------------------------- MODULE ShopProfile -----------------------------
(***************************************************************************)
(* The shops of one owner: the profile page (save, change the payout wallet, *)
(* give the shop up, take that back) in any number of tabs, and the admin's   *)
(* page of the requests to delist a shop.  The server finds the shop a        *)
(* request of the profile page is about by its owner, each request in its own *)
(* way, and changes it, or creates one, by a second statement: other requests *)
(* come between the two.  Shops are compared by their ids, which are made     *)
(* from their names.  Two requests have no button: to claim a shop the admin  *)
(* entered, and to delist one without giving its wallet up.                   *)
(***************************************************************************)
EXTENDS PageRequests, FiniteSetsExt

CONSTANTS Ids,          \* the ids shops can get, in the order of the database
          Unclaimed,    \* those of the shops that the admin entered
          LoginWallet,  \* the wallet the owner signs in with
          Wallets,      \* the wallets the owner can connect
          Profiles, Delisters   \* the pages, one for each open tab

VARIABLES
  shops,     \* the owner's shops by id
  shown,     \* the shop each profile page shows
  listed,    \* the shops each admin page lists
  returned,  \* history: the shops whose request was taken back or rejected
  overtaken, \* history: the profile pages whose request has found its shop, and
             \* another request has changed the shops since
  extra      \* history: the shops that were claimed, and those that were made by
             \* a request that had been overtaken

shopHistory == <<returned, overtaken, extra>>
shopVars == <<shops, shown, listed, shopHistory>>
vars == <<requestVars, shopVars>>

NoWallet == "none"
NoShop == [wallet |-> NoWallet, asked |-> FALSE, delisted |-> FALSE]
Nothing == 0
ShopPages == Profiles \cup Delisters

TypeOK ==
  /\ RequestsOK /\ DOMAIN shops \subseteq Ids
  /\ \A s \in DOMAIN shops : /\ shops[s].wallet \in Wallets \cup {LoginWallet, NoWallet}
                             /\ {shops[s].asked, shops[s].delisted} \subseteq BOOLEAN
  /\ \A d \in Profiles : shown[d].id \in {Nothing} \cup DOMAIN shops
  /\ \A d \in Delisters : listed[d] \subseteq DOMAIN shops
  /\ overtaken \subseteq Profiles /\ returned \cup extra \subseteq DOMAIN shops

NotShown == [id |-> Nothing, asked |-> FALSE, delisted |-> FALSE]
Init ==
  /\ RequestsInit /\ shops = [s \in {} |-> NoShop]
  /\ returned = {} /\ overtaken = {} /\ extra = {}
  /\ shown = [d \in Profiles |-> NotShown] /\ listed = [d \in Delisters |-> {}]

----------------------------------------------------------------------------
(* The server: which shop it takes for the owner's. *)

Owned == DOMAIN shops
Open  == {s \in Owned : ~shops[s].delisted /\ ~shops[s].asked}

\* GetMerchantByOwner: the OR with the payout wallet is not bound by the
\* conditions before it, so it also finds shops that are given up.
ByOwner == Open \cup {s \in Owned : shops[s].wallet = LoginWallet}

First(S) == IF S = {} THEN Nothing ELSE Min(S)
Last(S)  == IF S = {} THEN Nothing ELSE Max(S)
Copy(s)  == IF s = Nothing THEN NotShown
            ELSE [id |-> s, asked |-> shops'[s].asked, delisted |-> shops'[s].delisted]

\* UpsertOwnedMerchantProfile takes the open shop, UpdateOwnedMerchantWallet and
\* CancelMerchantDelist the first, UnlinkOwnedMerchant the last one that is not
\* delisted.
Target(what) ==
  CASE what = "save" -> First(Open)
    [] what = "unlink" -> Last({s \in Owned : ~shops[s].delisted})
    [] OTHER -> First(Owned)

\* With a save the payout wallet becomes the wallet the owner signed in with.
SaveAsNew(id) ==
  /\ id \in Ids \ (Owned \cup Unclaimed)
  /\ shops' = [s \in Owned \cup {id} |->
                 IF s = id THEN [NoShop EXCEPT !.wallet = LoginWallet] ELSE shops[s]]
Rewire(s, w) == shops' = [shops EXCEPT ![s].wallet = w]
UnlinkOnly(s) == shops' = [shops EXCEPT ![s].wallet = NoWallet]
Unlink(s) == shops' = [shops EXCEPT ![s].wallet = NoWallet, ![s].asked = TRUE]
CanCancel(s) == shops[s].asked /\ ~shops[s].delisted
Cancel(s) == shops' = [shops EXCEPT ![s].asked = FALSE]

\* ReviewMerchantDelist: whether or not the shop is still asking.
Decide(s, approve) ==
  shops' = [shops EXCEPT ![s].asked = FALSE, ![s].delisted = approve]

----------------------------------------------------------------------------
(* The profile page. *)

\* The first read: the dashboard.
ReadProfile(d) ==
  /\ Reads(d) /\ UNCHANGED <<shops, listed, shopHistory>>
  /\ shown' = [shown EXCEPT ![d] = Copy(First(ByOwner))]
\* The form of the profile page is there without a copy.
ReadFails(d) == (IF d \in Profiles THEN Reads(d) ELSE ReadsNothing(d)) /\ UNCHANGED shopVars
OpenProfile(d) == /\ Opens(d) /\ shown' = [shown EXCEPT ![d] = NotShown]
                  /\ UNCHANGED <<shops, listed, shopHistory>>
Close(d) == Shuts(d) /\ UNCHANGED shopVars

Press(d, request) == Presses(d, request) /\ UNCHANGED shopVars
Plain(what) == [what |-> what, found |-> FALSE, on |-> Nothing]
PressSave(d) == Press(d, Plain("save"))
PressWallet(d) ==
  /\ shown[d].id # Nothing
  /\ \E w \in Wallets :
       Press(d, [what |-> "wallet", found |-> FALSE, on |-> Nothing, wallet |-> w])
PressUnlink(d) == shown[d].id # Nothing /\ Press(d, Plain("unlink"))
PressCancel(d) == /\ shown[d].asked /\ ~shown[d].delisted
                  /\ Press(d, Plain("cancel"))

AskedFor(d, what) == at[d] = "asking" /\ ask[d].what = what

\* The server finds the shop; only a save goes on without one.
Find(d) ==
  LET what == ask[d].what
      s    == Target(what)
  IN /\ at[d] = "asking" /\ ~ask[d].found
     /\ what # "save" => s # Nothing
     /\ what = "cancel" => CanCancel(s)
     /\ ask' = [ask EXCEPT ![d].found = TRUE, ![d].on = s]
     /\ UNCHANGED <<at, shopVars>>

\* The shops change: every request but those of the pages D, which end, is overtaken.
Overtakes(D) ==
  overtaken' = {p \in Profiles \ D : at[p] = "asking" /\ ask[p].found}

\* How a press ends for the page: with the shop the server answers with, or
\* with an error.  The changes of the server stand in both cases.
Answer(d, s) ==
  /\ Ends(d, "idle")
  /\ \/ s # Nothing /\ shown' = [shown EXCEPT ![d] = Copy(s)]
     \/ UNCHANGED shown
Served(d, what) ==
  AskedFor(d, what) /\ ask[d].found /\ Overtakes({d}) /\ UNCHANGED listed

ServeSave(d) ==
  LET s == ask[d].on
  IN /\ Served(d, "save") /\ UNCHANGED returned
     /\ \/ /\ s = Nothing
           /\ \E id \in Ids :
                /\ SaveAsNew(id) /\ Answer(d, id)
                /\ extra' = IF d \in overtaken THEN extra \cup {id} ELSE extra
        \/ /\ s # Nothing
           /\ Rewire(s, LoginWallet) /\ Answer(d, s) /\ UNCHANGED extra
ServeWallet(d) ==
  /\ Served(d, "wallet") /\ UNCHANGED <<returned, extra>>
  /\ Rewire(ask[d].on, ask[d].wallet) /\ Answer(d, First(Open'))
ServeUnlink(d) ==
  /\ Served(d, "unlink") /\ UNCHANGED <<returned, extra>>
  /\ Unlink(ask[d].on) /\ Ends(d, "idle")
  /\ \/ shown' = [shown EXCEPT ![d] = NotShown]
     \/ UNCHANGED shown       \* the answer is lost
ServeCancel(d) ==
  /\ Served(d, "cancel") /\ UNCHANGED extra
  /\ Cancel(ask[d].on) /\ returned' = returned \cup {ask[d].on}
  /\ Answer(d, First(Open'))
Fails(d) == /\ Ends(d, "idle") /\ overtaken' = overtaken \ {d}
            /\ UNCHANGED <<shops, shown, listed, returned, extra>>

\* What the owner asks without a page.  ClaimMerchant: the wallet becomes the
\* owner's, also if the shop is the owner's already.
ClaimMerchant(s) ==
  /\ s \in Unclaimed \cup Owned
  /\ shops' = [t \in Owned \cup {s} |->
       IF t \in Owned THEN [shops[t] EXCEPT !.wallet = IF t = s THEN LoginWallet ELSE @]
       ELSE [NoShop EXCEPT !.wallet = LoginWallet]]
  /\ extra' = IF s \in Owned THEN extra ELSE extra \cup {s}
  /\ Overtakes({}) /\ UNCHANGED <<requestVars, shown, listed, returned>>

RequestMerchantDelist ==
  /\ Owned # {}
  /\ shops' = [shops EXCEPT ![First(Owned)].asked = TRUE]
  /\ Overtakes({}) /\ UNCHANGED <<requestVars, shown, listed, returned, extra>>

----------------------------------------------------------------------------
(* The admin's page. *)

OpenDelists(d) == /\ Opens(d) /\ listed' = [listed EXCEPT ![d] = {}]
                  /\ UNCHANGED <<shops, shown, shopHistory>>

\* ListMerchantDelistRequests.
Asking == {s \in Owned : shops[s].asked /\ ~shops[s].delisted}
ReadDelists(d) ==
  /\ Reads(d) /\ listed' = [listed EXCEPT ![d] = Asking]
  /\ UNCHANGED <<shops, shown, shopHistory>>

\* Every listed shop has both buttons.
PressReview(d) ==
  \E s \in listed[d], approve \in BOOLEAN :
    Press(d, [what |-> "review", on |-> s, approve |-> approve])
ServeReview(d) ==
  /\ AskedFor(d, "review") /\ Decide(ask[d].on, ask[d].approve)
  /\ returned' = IF ask[d].approve THEN returned ELSE returned \cup {ask[d].on}
  /\ Overtakes({d}) /\ UNCHANGED <<shown, listed, extra>>
  /\ (Ends(d, "reading") \/ Ends(d, "idle"))

Next ==
  \/ \E d \in Profiles :
       \/ OpenProfile(d) \/ ReadProfile(d)
       \/ PressSave(d) \/ PressWallet(d) \/ PressUnlink(d) \/ PressCancel(d) \/ Find(d)
       \/ ServeSave(d) \/ ServeWallet(d) \/ ServeUnlink(d) \/ ServeCancel(d)
  \/ \E d \in Delisters :
       OpenDelists(d) \/ ReadDelists(d) \/ PressReview(d) \/ ServeReview(d)
  \/ \E d \in ShopPages : ReadFails(d) \/ Close(d) \/ Fails(d)
  \/ \E s \in Ids : ClaimMerchant(s)
  \/ RequestMerchantDelist

Spec == Init /\ [][Next]_vars

----------------------------------------------------------------------------
(* Properties *)

\* A shop that members can order from has a payout wallet, unless a request to
\* delist it was taken back or rejected: neither gives the wallet back.  And the
\* owner has one such shop, beside those whose request was taken back or rejected,
\* those that were claimed, and those that a save made although another request
\* had changed the shops after it looked for an open one
\* (UpsertOwnedMerchantProfile, postgres.go:2123-2141, has no transaction).
OpenShopsAreWhole ==
  /\ \A s \in Open \ returned : shops[s].wallet # NoWallet
  /\ Cardinality(Open \ (returned \cup extra)) <= 1
=============================================================================

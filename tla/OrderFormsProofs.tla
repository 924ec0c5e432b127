-------------------------- MODULE OrderFormsProofs --------------------------
(***************************************************************************)
(* Proofs about OrderForms, for any shops, dishes, prices, durations and   *)
(* limits: what is charged, what is claimed and what is created.           *)
(*                                                                         *)
(* A handler outlives what it was started with: the menu, the shops and    *)
(* the durations move on behind the page, and the form may be filled in    *)
(* anew.  The invariant says what a handler still has in common with its   *)
(* page: the page cannot be left, so its copy of the database stays, the   *)
(* durations and the shops of a round are from that copy, the quantities   *)
(* are those on the page until they are signed, and after that the wallet  *)
(* has sent the price that was signed, or the page knows no treasury.  Of  *)
(* a round it says that the deadlines no admin has moved are those that    *)
(* were asked for, and that the last one is the one being filled.          *)
(*                                                                         *)
(* And about Achievements, for any tabs and members: a handler's record     *)
(* goes on from the one it read, so that only a record that was written     *)
(* meanwhile can be lost.                                                   *)
(*                                                                         *)
(* And about the session these pages belong to (WebSession), for any tabs,  *)
(* accounts and sessions: a page is shown to the account of its tab's       *)
(* session.  The invariant is about what will be shown, too: the gates that *)
(* wait for an answer asked with a session of the same account, and what is *)
(* stored, asked or granted keeps its owner, since sessions are numbered.   *)
(***************************************************************************)
EXTENDS MCOrderForms, MCWebSession, SumLemmas, SequenceTheorems

IsForm(f) ==
  f = [page |-> f.page, minutes |-> f.minutes, limit |-> f.limit, picked |-> f.picked,
       chosen |-> f.chosen, text |-> f.text, named |-> f.named, count |-> f.count]

(* Durations and shops are among those that the page c has read.            *)
TakenFrom(c, x) ==
  /\ x.minutes \in [Stages -> Offered(c.settings)]
  /\ IsFiniteSet(x.picked) /\ x.picked \subseteq c.shops

FormInv == IsForm(form) /\ (form.page = "create" => TakenFrom(copy, form))

IsJob(j) == j = [at |-> j.at, page |-> j.page, what |-> j.what, paid |-> j.paid, left |-> j.left]

JobInv ==
  job # NoJob =>
    /\ IsJob(job) /\ job.at \in {"sign", "pay", "ask", "shops", "refused"}
    /\ form.page # "list"
    /\ job.page = "create" => TakenFrom(copy, job.what) /\ job.what.picked # {}
    /\ job.at = "sign" => /\ job.what = [count |-> form.count, price |-> 0]
                          /\ job.page = "ordering"
    /\ job.at = "ask" /\ job.page = "ordering" => job.paid = job.what.price \/ ~copy.treasury
    /\ job.at = "shops" => /\ job.page = "create" /\ Creatable(job.what)
                           /\ job.left \subseteq job.what.picked
                           /\ Len(rounds) # 0 /\ rounds[Len(rounds)].limit = job.what.limit

(* The deadline of a stage that was asked for.                              *)
EndAsked(m, s) ==
  CASE s = "proposal" -> m.proposal
    [] s = "vote"     -> m.proposal + m.vote
    [] s = "order"    -> m.proposal + m.vote + m.order

Rounds == [asked : [Stages -> 1..90], moved : SUBSET Stages, day : Nat, limit : 1..10,
           shops : SUBSET Shops, ends : [Stages -> Int \cup Moments]]
RoundsInv ==
  /\ rounds \in Seq(Rounds)
  /\ \A k \in 1..Len(rounds) : \A s \in Stages \ rounds[k].moved :
       rounds[k].ends[s] = EndAsked(rounds[k].asked, s)

WorldInv == day \in Nat /\ shops \subseteq Shops

IInv == FormInv /\ JobInv /\ RoundsInv /\ WorldInv

LEMMA NoJobIdles == NoJob.at = "idle"
BY DEF NoJob

LEMMA BlankList ==
  ASSUME NEW f, f = Blank("list", 0)
  PROVE  IsForm(f) /\ f.page = "list"
BY DEF IsForm, Blank

-----------------------------------------------------------------------------
LEMMA InitForms == Init => IInv
<1> SUFFICES ASSUME Init PROVE IInv OBVIOUS
<1>1. FormInv
  <2>1. form = Blank("list", 0)
    BY DEF Init
  <2> QED BY <2>1, BlankList DEF FormInv
<1>2. JobInv /\ RoundsInv /\ WorldInv
  <2>1. rounds = <<>> /\ job = NoJob /\ day = 0 /\ shops = Shops
    BY DEF Init
  <2> QED BY <2>1, EmptySeq DEF JobInv, RoundsInv, WorldInv
<1> QED BY <1>1, <1>2 DEF IInv

(* A page is mounted only from the list, where no handler runs.             *)
LEMMA MountKeeps ==
  ASSUME IInv, NEW page, Mount(page)
  PROVE  IInv'
<1>1. PICK s, treasury :
        /\ copy' = [settings |-> s, shops |-> shops, price |-> price, treasury |-> treasury]
        /\ form' = Blank(page, s.minutes)
  BY DEF Mount
<1>2. form.page = "list" /\ job' = job /\ UNCHANGED <<rounds, day, shops>>
  BY DEF Mount, worldVars
<1>3. job = NoJob
  BY <1>2 DEF IInv, JobInv
<1>a. PICK m : m = s.minutes
  OBVIOUS
<1>b. /\ IsForm(form') /\ form'.page = page /\ form'.picked = {}
      /\ form'.minutes = [x \in Stages |-> m]
  <2>1. PICK f : f = Blank(page, m)
    OBVIOUS
  <2>2. form' = f
    BY ONLY <1>1, <1>a, <2>1
  <2>3. IsForm(f) /\ f.page = page /\ f.picked = {} /\ f.minutes = [x \in Stages |-> m]
    BY ONLY <2>1 DEF Blank, IsForm
  <2> QED BY ONLY <2>2, <2>3
<1>4. TakenFrom(copy', form')
  <2>1. copy'.settings = s /\ m \in Offered(s)
    BY <1>1, <1>a DEF Offered
  <2> QED BY <1>b, <2>1, FS_EmptySet DEF TakenFrom
<1>5. FormInv'
  BY <1>b, <1>4 DEF FormInv, TakenFrom
<1> QED BY <1>2, <1>3, <1>5 DEF IInv, JobInv, RoundsInv, WorldInv

LEMMA LeaveKeeps ==
  ASSUME IInv, Leave
  PROVE  IInv'
<1>1. form' = Blank("list", 0) /\ job' = NoJob /\ UNCHANGED <<rounds, day, shops>>
  BY DEF Leave, worldVars
<1>2. FormInv'
  BY <1>1, BlankList DEF FormInv
<1> QED BY <1>1, <1>2 DEF IInv, JobInv, RoundsInv, WorldInv

(* What is filled in stays on the page, and its quantities wait for the     *)
(* handler.                                                                 *)
LEMMA FillsKeeps ==
  ASSUME IInv, NEW new, Fills(new), IsForm(new), new.page = form.page,
         new.page = "create" => TakenFrom(copy, new),
         new.count = form.count \/ job = NoJob
  PROVE  IInv'
<1>1. form' = new /\ UNCHANGED <<rounds, copy, job, day, shops>>
  BY DEF Fills, worldVars
<1>2. FormInv' /\ RoundsInv' /\ WorldInv'
  BY <1>1 DEF IInv, FormInv, RoundsInv, WorldInv, TakenFrom
<1>3. JobInv'
  <2>1. CASE job = NoJob
    BY <1>1, <2>1 DEF JobInv
  <2>2. CASE job # NoJob
    <3>1. new.count = form.count
      BY <2>2
    <3> QED BY <1>1, <2>2, <3>1 DEF IInv, JobInv, TakenFrom, Creatable
  <2> QED BY <2>1, <2>2
<1> QED BY <1>2, <1>3 DEF IInv

LEMMA FillKeeps ==
  ASSUME IInv, Fill
  PROVE  IInv'
<1>0. IsForm(form)
  BY DEF IInv, FormInv
<1>1. CASE ChooseMinutes
  <2>1. PICK s \in Stages, m \in Offered(copy.settings) :
               form.page = "create" /\ Fills([form EXCEPT !.minutes[s] = m])
    BY <1>1 DEF ChooseMinutes, On
  <2>2. PICK ms : ms = [form.minutes EXCEPT ![s] = m]
    OBVIOUS
  <2>3. PICK new : new = [form EXCEPT !.minutes = ms]
    OBVIOUS
  <2>4. Fills(new)
    BY <2>1, <2>2, <2>3
  <2>5. /\ IsForm(new) /\ new.page = form.page /\ new.count = form.count
        /\ new.minutes = ms /\ new.picked = form.picked
    BY ONLY <1>0, <2>3 DEF IsForm
  <2>6. TakenFrom(copy, form)
    BY <2>1 DEF IInv, FormInv
  <2>7. ms \in [Stages -> Offered(copy.settings)]
    BY <2>2, <2>6 DEF TakenFrom
  <2>8. TakenFrom(copy, new)
    BY <2>5, <2>6, <2>7 DEF TakenFrom
  <2> QED BY <2>4, <2>5, <2>8, FillsKeeps
<1>2. CASE TypeLimit
  <2>1. PICK n \in Limits : form.page = "create" /\ Fills([form EXCEPT !.limit = n])
    BY <1>2 DEF TypeLimit, On
  <2>2. PICK new : new = [form EXCEPT !.limit = n]
    OBVIOUS
  <2>3. Fills(new)
    BY <2>1, <2>2
  <2>4. /\ IsForm(new) /\ new.page = form.page /\ new.count = form.count
        /\ new.minutes = form.minutes /\ new.picked = form.picked
    BY ONLY <1>0, <2>2 DEF IsForm
  <2>5. TakenFrom(copy, form)
    BY <2>1 DEF IInv, FormInv
  <2>6. TakenFrom(copy, new)
    BY <2>4, <2>5 DEF TakenFrom
  <2> QED BY <2>3, <2>4, <2>6, FillsKeeps
<1>3. CASE Toggle
  <2>1. PICK shop \in copy.shops :
          /\ form.page = "create"
          /\ Fills([form EXCEPT !.picked = IF shop \in @ THEN @ \ {shop} ELSE @ \cup {shop}])
    BY <1>3 DEF Toggle, On
  <2>2. PICK ps : ps = IF shop \in form.picked THEN form.picked \ {shop}
                       ELSE form.picked \cup {shop}
    OBVIOUS
  <2>3. PICK new : new = [form EXCEPT !.picked = ps]
    OBVIOUS
  <2>4. Fills(new)
    BY <2>1, <2>2, <2>3
  <2>5. /\ IsForm(new) /\ new.page = form.page /\ new.count = form.count
        /\ new.minutes = form.minutes /\ new.picked = ps
    BY ONLY <1>0, <2>3 DEF IsForm
  <2>6. TakenFrom(copy, form)
    BY <2>1 DEF IInv, FormInv
  <2>7. IsFiniteSet(ps)
    BY <2>2, <2>6, FS_AddElement, FS_RemoveElement DEF TakenFrom
  <2>8. TakenFrom(copy, new)
    BY <2>2, <2>5, <2>6, <2>7 DEF TakenFrom
  <2> QED BY <2>4, <2>5, <2>8, FillsKeeps
<1>4. CASE PickShop \/ TypeShop
  <2>1. PICK c, t, n : /\ form.page = "proposal"
                       /\ Fills([form EXCEPT !.chosen = c, !.text = t, !.named = n])
    <3>1. CASE PickShop
      <4>1. PICK shop : /\ form.page = "proposal"
                        /\ Fills([form EXCEPT !.chosen = shop, !.text = NoShop, !.named = shop])
        BY <3>1 DEF PickShop, On
      <4> QED BY <4>1
    <3>2. CASE TypeShop
      <4>1. PICK shop : form.page = "proposal" /\ Fills([form EXCEPT !.text = shop, !.named = shop])
        BY <3>2 DEF TypeShop, On
      <4>2. [form EXCEPT !.text = shop, !.named = shop]
              = [form EXCEPT !.chosen = form.chosen, !.text = shop, !.named = shop]
        BY <1>0 DEF IsForm
      <4> QED BY <4>1, <4>2
    <3> QED BY <1>4, <3>1, <3>2
  <2>2. PICK new : new = [form EXCEPT !.chosen = c, !.text = t, !.named = n]
    OBVIOUS
  <2>3. IsForm(new) /\ new.page = form.page /\ new.count = form.count
    BY ONLY <1>0, <2>2 DEF IsForm
  <2> QED BY <2>1, <2>2, <2>3, FillsKeeps
<1>5. CASE SetOrderQuantity
  <2>1. PICK i, n : /\ form.page = "ordering" /\ job = NoJob
                    /\ Fills([form EXCEPT !.count[i] = n])
    BY <1>5 DEF SetOrderQuantity, On, CountsOn
  <2>2. PICK cs : cs = [form.count EXCEPT ![i] = n]
    OBVIOUS
  <2>3. PICK new : new = [form EXCEPT !.count = cs]
    OBVIOUS
  <2>4. Fills(new)
    BY <2>1, <2>2, <2>3
  <2>5. IsForm(new) /\ new.page = form.page
    BY ONLY <1>0, <2>3 DEF IsForm
  <2> QED BY <2>1, <2>4, <2>5, FillsKeeps
<1> QED BY <1>1, <1>2, <1>3, <1>4, <1>5 DEF Fill

-----------------------------------------------------------------------------
LEMMA PressKeeps ==
  ASSUME IInv, Presses
  PROVE  IInv'
<1>1. ASSUME NEW page, NEW at, NEW what, Press(page, at, what), at \in {"sign", "pay", "ask"},
             form.page = page, page \in {"create", "proposal", "ordering"},
             page = "create" => TakenFrom(copy, what) /\ what.picked # {},
             at = "sign" => page = "ordering" /\ what = [count |-> form.count, price |-> 0],
             page = "ordering" => at = "sign"
      PROVE  IInv'
  <2>1. /\ job' = [at |-> at, page |-> page, what |-> what, paid |-> 0, left |-> {}]
        /\ UNCHANGED <<rounds, form, copy, day, shops>>
    BY <1>1 DEF Press, worldVars
  <2>2. FormInv' /\ RoundsInv' /\ WorldInv'
    BY <2>1 DEF IInv, FormInv, RoundsInv, WorldInv, TakenFrom
  <2>3. PICK j : j = [at |-> at, page |-> page, what |-> what, paid |-> 0, left |-> {}]
    OBVIOUS
  <2>4. IsJob(j) /\ j.at = at /\ j.page = page /\ j.what = what
    BY ONLY <2>3 DEF IsJob
  <2>5. JobInv'
    BY <1>1, <2>1, <2>3, <2>4 DEF JobInv, TakenFrom
  <2> QED BY <2>2, <2>5 DEF IInv
<1>2. CASE PressCreate
  <2>1. PICK at, what :
          /\ at = PayOrAsk(copy.settings # Fallback)
          /\ what = [minutes |-> form.minutes, limit |-> form.limit,
                     picked |-> form.picked, price |-> 1]
    OBVIOUS
  <2>2. form.page = "create" /\ form.picked # {} /\ Press("create", at, what)
    BY <1>2, <2>1 DEF PressCreate, On
  <2>3. at \in {"pay", "ask"}
    BY <2>1 DEF PayOrAsk
  <2>4. TakenFrom(copy, what) /\ what.picked # {}
    BY <2>1, <2>2 DEF IInv, FormInv, TakenFrom
  <2> QED BY <1>1, <2>2, <2>3, <2>4
<1>3. CASE PressOption
  <2>1. PICK at, what : at = PayOrAsk(TRUE) /\ what = [shop |-> Resolved, price |-> 1]
    OBVIOUS
  <2>2. form.page = "proposal" /\ Press("proposal", at, what)
    BY <1>3, <2>1 DEF PressOption, On
  <2>3. at \in {"pay", "ask"}
    BY <2>1 DEF PayOrAsk
  <2> QED BY <1>1, <2>2, <2>3
<1>4. CASE PressOrder
  <2>1. PICK what : what = [count |-> form.count, price |-> 0]
    OBVIOUS
  <2>2. form.page = "ordering" /\ Press("ordering", "sign", what)
    BY <1>4, <2>1 DEF PressOrder, On
  <2> QED BY <1>1, <2>1, <2>2
<1> QED BY <1>2, <1>3, <1>4 DEF Presses

(* A handler that ends leaves the form as it is, clears drafts of it, or    *)
(* goes back to the list.                                                   *)
LEMMA EndsKeeps ==
  ASSUME IInv, NEW new, Ends(new), IsForm(new), RoundsInv', UNCHANGED <<day, shops>>,
         \/ new.page = form.page /\ copy' = copy
            /\ new.minutes = form.minutes /\ new.picked = form.picked
         \/ new.page = "list"
  PROVE  IInv'
<1>1. job' = NoJob /\ form' = new
  BY DEF Ends
<1>2. FormInv'
  BY <1>1 DEF IInv, FormInv, TakenFrom
<1> QED BY <1>1, <1>2 DEF IInv, JobInv, WorldInv

LEMMA SignKeeps ==
  ASSUME IInv, SignOrder
  PROVE  IInv' /\ job'.what.price = Subtotal(form.count, price)
<1>1. /\ job.at = "sign" /\ UNCHANGED <<rounds, copy, form, day, shops>>
      /\ job' = [job EXCEPT !.at = PayOrAsk(TRUE), !.what.price = Subtotal(job.what.count, price)]
  BY DEF SignOrder, Kept, worldVars
<1>2. /\ IsJob(job) /\ job.page = "ordering" /\ form.page # "list"
      /\ job.what = [count |-> form.count, price |-> 0]
  BY <1>1, NoJobIdles DEF IInv, JobInv
<1>3. PICK what : what = [count |-> form.count, price |-> Subtotal(form.count, price)]
  OBVIOUS
<1>4. what = [job.what EXCEPT !.price = Subtotal(job.what.count, price)]
  BY <1>2, <1>3
<1>5. PICK j : j = [job EXCEPT !.at = PayOrAsk(TRUE), !.what = what]
  OBVIOUS
<1>6. job' = j
  BY ONLY <1>1, <1>4, <1>5
<1>7. IsJob(j) /\ j.at = PayOrAsk(TRUE) /\ j.page = "ordering" /\ j.what = what
  BY ONLY <1>2, <1>5 DEF IsJob
<1>8. j.at \in {"pay", "ask"} /\ (j.at = "ask" => ~copy.treasury)
  BY <1>7 DEF PayOrAsk
<1>9. JobInv'
  BY <1>1, <1>2, <1>6, <1>7, <1>8 DEF JobInv
<1>10. FormInv' /\ RoundsInv' /\ WorldInv'
  BY <1>1 DEF IInv, FormInv, RoundsInv, WorldInv, TakenFrom
<1>11. job'.what.price = Subtotal(form.count, price)
  BY <1>3, <1>6, <1>7
<1> QED BY <1>9, <1>10, <1>11 DEF IInv

LEMMA WalletKeeps ==
  ASSUME IInv, WalletSends
  PROVE  IInv'
<1>1. /\ job.at = "pay" /\ UNCHANGED <<rounds, copy, form, day, shops>>
      /\ job' = [job EXCEPT !.at = "ask", !.paid = job.what.price]
  BY DEF WalletSends, Kept, worldVars
<1>2. /\ IsJob(job) /\ form.page # "list"
      /\ job.page = "create" => TakenFrom(copy, job.what) /\ job.what.picked # {}
  BY <1>1, NoJobIdles DEF IInv, JobInv
<1>3. PICK j : j = [job EXCEPT !.at = "ask", !.paid = job.what.price]
  OBVIOUS
<1>4. /\ IsJob(j) /\ j.at = "ask" /\ j.page = job.page /\ j.what = job.what
      /\ j.paid = j.what.price
  BY ONLY <1>2, <1>3 DEF IsJob
<1>5. JobInv'
  BY <1>1, <1>2, <1>3, <1>4 DEF JobInv, TakenFrom
<1> QED BY <1>1, <1>5 DEF IInv, FormInv, RoundsInv, WorldInv, TakenFrom

LEMMA ThreeMinutes ==
  ASSUME NEW a \in 1..90, NEW b \in 1..90, NEW c \in 1..90
  PROVE  a + b \in Int /\ a + b + c \in Int /\ (a + b) - a = b /\ (a + b + c) - (a + b) = c
OBVIOUS

LEMMA RoundIs ==
  ASSUME NEW x, x.minutes \in [Stages -> 1..90], x.limit \in 1..10, WorldInv, NEW q, q = RoundOf(x)
  PROVE  /\ q \in Rounds /\ q.limit = x.limit
         /\ \A s \in Stages \ q.moved : q.ends[s] = EndAsked(q.asked, s)
<1>1. PICK m : m = x.minutes
  OBVIOUS
<1>2. m.proposal \in 1..90 /\ m.vote \in 1..90 /\ m.order \in 1..90 /\ m \in [Stages -> 1..90]
  BY <1>1 DEF Stages
<1>3. PICK e : e = [proposal |-> m.proposal, vote |-> m.proposal + m.vote,
                    order |-> m.proposal + m.vote + m.order]
  OBVIOUS
<1>4. e \in [Stages -> Int \cup Moments] /\ \A s \in Stages : e[s] = EndAsked(m, s)
  <2>1. m.proposal + m.vote \in Int /\ m.proposal + m.vote + m.order \in Int
    BY <1>2, ThreeMinutes
  <2>2. e \in [Stages -> Int \cup Moments]
    BY <1>2, <1>3, <2>1 DEF Stages
  <2>3. ASSUME NEW s \in Stages PROVE e[s] = EndAsked(m, s)
    BY ONLY <1>3, <2>3 DEF Stages, EndAsked
  <2> QED BY <2>2, <2>3
<1>5. q = [asked |-> m, moved |-> {}, day |-> day, limit |-> x.limit, shops |-> {}, ends |-> e]
  BY <1>1, <1>3 DEF RoundOf
<1> QED BY <1>2, <1>4, <1>5 DEF Rounds, WorldInv

LEMMA CreateKeeps ==
  ASSUME IInv, CreateProposal
  PROVE  IInv'
<1>1. PICK x, q : x = job.what /\ q = RoundOf(x)
  OBVIOUS
<1>2. /\ job.at = "ask" /\ job.page = "create" /\ Creatable(x) /\ rounds' = Append(rounds, q)
      /\ job' = [job EXCEPT !.at = "shops", !.left = x.picked]
      /\ UNCHANGED <<form, copy, day, shops>>
  BY <1>1 DEF CreateProposal, worldVars
<1>3. IsJob(job) /\ form.page # "list" /\ TakenFrom(copy, x) /\ x.picked # {}
  BY <1>1, <1>2, NoJobIdles DEF IInv, JobInv
<1>4. x.minutes \in [Stages -> 1..90] /\ x.limit \in 1..10
  <2>1. x.limit \in 1..10 /\ \A s \in Stages : x.minutes[s] \in 1..90
    BY <1>2 DEF Creatable, AllowedMinutes
  <2> QED BY <1>3, <2>1 DEF TakenFrom
<1>5. /\ q \in Rounds /\ q.limit = x.limit
      /\ \A s \in Stages \ q.moved : q.ends[s] = EndAsked(q.asked, s)
  BY <1>1, <1>4, RoundIs DEF IInv
<1>6. /\ rounds' \in Seq(Rounds) /\ Len(rounds') = Len(rounds) + 1 /\ Len(rounds) \in Nat
      /\ rounds'[Len(rounds) + 1] = q /\ \A k \in 1..Len(rounds) : rounds'[k] = rounds[k]
  BY <1>2, <1>5, AppendProperties, LenProperties DEF IInv, RoundsInv
<1>7. RoundsInv'
  <2>1. ASSUME NEW k \in 1..Len(rounds')
        PROVE  rounds'[k] = q \/ (k \in 1..Len(rounds) /\ rounds'[k] = rounds[k])
    <3>1. PICK n \in Nat : n = Len(rounds)
      BY <1>6
    <3>2. k \in 1..n \/ k = n + 1
      BY <1>6, <2>1, <3>1
    <3> QED BY <1>6, <3>1, <3>2
  <2>2. ASSUME NEW k \in 1..Len(rounds')
        PROVE  \A s \in Stages \ rounds'[k].moved : rounds'[k].ends[s] = EndAsked(rounds'[k].asked, s)
    <3>1. CASE rounds'[k] = q
      BY <1>5, <3>1
    <3>2. CASE k \in 1..Len(rounds) /\ rounds'[k] = rounds[k]
      BY <3>2 DEF IInv, RoundsInv
    <3> QED BY <2>1, <3>1, <3>2
  <2> QED BY <1>6, <2>2 DEF RoundsInv
<1>8. PICK j : j = [job EXCEPT !.at = "shops", !.left = x.picked]
  OBVIOUS
<1>9. IsJob(j) /\ j.at = "shops" /\ j.page = "create" /\ j.what = x /\ j.left = x.picked
  BY ONLY <1>1, <1>2, <1>3, <1>8 DEF IsJob
<1>10. JobInv'
  <2>1. job' = j /\ Len(rounds') # 0 /\ rounds'[Len(rounds')].limit = x.limit
    BY <1>2, <1>5, <1>6, <1>8
  <2>2. Creatable(j.what)' /\ TakenFrom(copy, j.what)'
    BY <1>2, <1>3, <1>9 DEF Creatable, TakenFrom
  <2> QED BY <1>2, <1>3, <1>9, <2>1, <2>2 DEF JobInv
<1> QED BY <1>2, <1>7, <1>10 DEF IInv, FormInv, WorldInv, TakenFrom

(* What befalls a round that is there.                                      *)
LEMMA RoundMoves ==
  ASSUME IInv, NEW k \in DOMAIN rounds, NEW q, rounds' = [rounds EXCEPT ![k] = q],
         q \in Rounds, q.limit = rounds[k].limit,
         \A s \in Stages \ q.moved : q.ends[s] = EndAsked(q.asked, s)
  PROVE  /\ RoundsInv' /\ Len(rounds') = Len(rounds) /\ Len(rounds) \in Nat
         /\ \A i \in 1..Len(rounds) : rounds'[i].limit = rounds[i].limit
<1>1. rounds \in Seq(Rounds) /\ k \in 1..Len(rounds) /\ Len(rounds) \in Nat
  BY LenProperties DEF IInv, RoundsInv
<1>2. /\ rounds' \in Seq(Rounds) /\ Len(rounds') = Len(rounds)
      /\ \A i \in 1..Len(rounds) : rounds'[i] = IF i = k THEN q ELSE rounds[i]
  BY <1>1, ExceptSeq
<1>3. ASSUME NEW i \in 1..Len(rounds), NEW s \in Stages \ rounds'[i].moved
      PROVE  rounds'[i].ends[s] = EndAsked(rounds'[i].asked, s)
  <2>1. CASE i = k
    BY <1>2, <1>3, <2>1
  <2>2. CASE i # k
    BY <1>2, <1>3, <2>2 DEF IInv, RoundsInv
  <2> QED BY <2>1, <2>2
<1> QED BY <1>1, <1>2, <1>3 DEF RoundsInv

LEMMA ProposesMoves ==
  ASSUME IInv, NEW k \in DOMAIN rounds, NEW shop, Proposes(k, shop)
  PROVE  /\ RoundsInv' /\ Len(rounds') = Len(rounds) /\ Len(rounds) \in Nat
         /\ \A i \in 1..Len(rounds) : rounds'[i].limit = rounds[i].limit
<1>1. PICK r : r = rounds[k]
  OBVIOUS
<1>2. r \in Rounds /\ \A s \in Stages \ r.moved : r.ends[s] = EndAsked(r.asked, s)
  <2>1. k \in 1..Len(rounds)
    BY LenProperties DEF IInv, RoundsInv
  <2> QED BY <1>1, <2>1, ElementOfSeq DEF IInv, RoundsInv
<1>3. PICK q : q = [r EXCEPT !.shops = @ \cup {shop}]
  OBVIOUS
<1>4. q = [asked |-> r.asked, moved |-> r.moved, day |-> r.day, limit |-> r.limit,
           shops |-> r.shops \cup {shop}, ends |-> r.ends]
  <2>1. r = [asked |-> r.asked, moved |-> r.moved, day |-> r.day, limit |-> r.limit,
             shops |-> r.shops, ends |-> r.ends]
    BY ONLY <1>2 DEF Rounds
  <2> QED BY ONLY <1>3, <2>1
<1>5. rounds' = [rounds EXCEPT ![k] = q]
  BY <1>1, <1>3 DEF Proposes
<1>6. shop \in Shops
  BY DEF Proposes, Proposable, IInv, WorldInv
<1>7. q \in Rounds
  BY <1>2, <1>4, <1>6 DEF Rounds
<1>8. q.limit = r.limit /\ q.moved = r.moved /\ q.ends = r.ends /\ q.asked = r.asked
  BY <1>4
<1> QED BY <1>1, <1>2, <1>5, <1>7, <1>8, RoundMoves

LEMMA AdvanceMoves ==
  ASSUME IInv, NEW k \in DOMAIN rounds, NEW s \in Stages, NEW t \in Moments,
         rounds' = [rounds EXCEPT ![k].ends[s] = t, ![k].moved = @ \cup {s}]
  PROVE  /\ RoundsInv' /\ Len(rounds') = Len(rounds) /\ Len(rounds) \in Nat
         /\ \A i \in 1..Len(rounds) : rounds'[i].limit = rounds[i].limit
<1>1. PICK r : r = rounds[k]
  OBVIOUS
<1>2. r \in Rounds /\ \A x \in Stages \ r.moved : r.ends[x] = EndAsked(r.asked, x)
  <2>1. k \in 1..Len(rounds) /\ rounds \in Seq(Rounds)
    BY LenProperties DEF IInv, RoundsInv
  <2> QED BY <1>1, <2>1, ElementOfSeq DEF IInv, RoundsInv
<1>3. PICK e : e = [r.ends EXCEPT ![s] = t]
  OBVIOUS
<1>4. PICK p : p = [asked |-> r.asked, moved |-> r.moved, day |-> r.day, limit |-> r.limit,
                    shops |-> r.shops, ends |-> e]
  OBVIOUS
<1>5. PICK q : q = [asked |-> r.asked, moved |-> r.moved \cup {s}, day |-> r.day, limit |-> r.limit,
                    shops |-> r.shops, ends |-> e]
  OBVIOUS
<1>6. p = [r EXCEPT !.ends = e] /\ q = [p EXCEPT !.moved = @ \cup {s}]
  BY <1>2, <1>4, <1>5 DEF Rounds
<1>7. rounds' = [rounds EXCEPT ![k] = q]
  <2>1. k \in DOMAIN rounds /\ rounds = [i \in DOMAIN rounds |-> rounds[i]]
    BY DEF IInv, RoundsInv
  <2>2. rounds' = [[rounds EXCEPT ![k] = [rounds[k] EXCEPT !.ends = [rounds[k].ends EXCEPT ![s] = t]]]
                   EXCEPT ![k].moved = @ \cup {s}]
    OBVIOUS
  <2>3. PICK f : f = [rounds EXCEPT ![k] = p]
    OBVIOUS
  <2>4. rounds' = [f EXCEPT ![k].moved = @ \cup {s}]
    BY <1>1, <1>3, <1>6, <2>2, <2>3
  <2>5. f[k] = p /\ f = [i \in DOMAIN rounds |-> IF i = k THEN p ELSE rounds[i]]
    BY <2>1, <2>3
  <2>6. rounds' = [f EXCEPT ![k] = q]
    BY <1>6, <2>4, <2>5
  <2> QED BY <2>1, <2>5, <2>6
<1>8. q \in Rounds
  BY <1>2, <1>3, <1>5 DEF Rounds
<1>9. q.limit = r.limit /\ q.moved = r.moved \cup {s} /\ q.ends = e /\ q.asked = r.asked
  BY <1>5
<1>10. \A x \in Stages \ q.moved : q.ends[x] = EndAsked(q.asked, x)
  BY <1>2, <1>3, <1>9 DEF Rounds
<1> QED BY <1>1, <1>7, <1>8, <1>9, <1>10, RoundMoves

(* A handler and its page while the rounds move.                            *)
LEMMA OnRoundsKeeps ==
  ASSUME IInv, OnRounds
  PROVE  IInv'
<1>1. /\ RoundsInv' /\ Len(rounds') = Len(rounds) /\ Len(rounds) \in Nat
      /\ \A i \in 1..Len(rounds) : rounds'[i].limit = rounds[i].limit
  BY ProposesMoves, AdvanceMoves DEF OnRounds, AdvanceProposalStage, OthersPropose
<1>2. UNCHANGED <<form, copy, job, day, shops>>
  BY DEF OnRounds, AdvanceProposalStage, OthersPropose, worldVars
<1>3. JobInv'
  <2>1. job # NoJob /\ job.at = "shops" =>
          /\ Creatable(job.what) /\ Len(rounds') # 0
          /\ rounds'[Len(rounds')].limit = job.what.limit
    BY <1>1 DEF IInv, JobInv
  <2>2. Creatable(job.what)' = Creatable(job.what)
    BY <1>2 DEF Creatable
  <2> QED BY <1>2, <2>1, <2>2 DEF IInv, JobInv, TakenFrom
<1> QED BY <1>1, <1>2, <1>3 DEF IInv, FormInv, WorldInv, TakenFrom

LEMMA ProposePickedKeeps ==
  ASSUME IInv, ProposePicked
  PROVE  IInv' /\ (job' # NoJob => job'.at = "shops")
<1>1. PICK shop \in job.left :
        /\ Proposes(Len(rounds), shop)
        /\ \/ job' = [job EXCEPT !.left = @ \ {shop}] /\ UNCHANGED <<form, copy>>
           \/ Ends(Blank("list", 0)) /\ copy' = NoCopy
           \/ Ends(form) /\ UNCHANGED copy
  BY DEF ProposePicked
<1>2. job.at = "shops" /\ UNCHANGED <<day, shops>>
  BY DEF ProposePicked, worldVars
<1>3. /\ IsJob(job) /\ job.page = "create" /\ form.page # "list" /\ Creatable(job.what)
      /\ TakenFrom(copy, job.what) /\ job.what.picked # {} /\ job.left \subseteq job.what.picked
      /\ Len(rounds) # 0 /\ rounds[Len(rounds)].limit = job.what.limit
  BY <1>2, NoJobIdles DEF IInv, JobInv
<1>4. Len(rounds) \in DOMAIN rounds
  BY <1>3, LenProperties DEF IInv, RoundsInv
<1>5. /\ RoundsInv' /\ Len(rounds') = Len(rounds) /\ Len(rounds) \in Nat
      /\ \A i \in 1..Len(rounds) : rounds'[i].limit = rounds[i].limit
  BY <1>1, <1>4, ProposesMoves
<1>6. CASE job' = [job EXCEPT !.left = @ \ {shop}] /\ UNCHANGED <<form, copy>>
  <2>1. PICK j : j = [job EXCEPT !.left = @ \ {shop}]
    OBVIOUS
  <2>2. IsJob(j) /\ j.at = "shops" /\ j.page = "create" /\ j.what = job.what /\ j.left = job.left \ {shop}
    BY ONLY <1>2, <1>3, <2>1 DEF IsJob
  <2>3. Creatable(j.what)' /\ TakenFrom(copy, j.what)'
    BY <1>3, <1>6, <2>2 DEF Creatable, TakenFrom
  <2>4. Len(rounds') # 0 /\ rounds'[Len(rounds')].limit = j.what.limit
    BY <1>3, <1>5, <2>2
  <2>5. JobInv'
    BY <1>3, <1>6, <2>1, <2>2, <2>3, <2>4 DEF JobInv
  <2> QED BY <1>2, <1>5, <1>6, <2>1, <2>2, <2>5 DEF IInv, FormInv, WorldInv, TakenFrom
<1>7. CASE Ends(Blank("list", 0)) \/ (Ends(form) /\ UNCHANGED copy)
  <2>1. PICK new : Ends(new) /\ (new = Blank("list", 0) \/ (new = form /\ copy' = copy))
    BY <1>7
  <2>2. IsForm(form)
    BY DEF IInv, FormInv
  <2> QED BY <1>2, <1>5, <2>1, <2>2, BlankList, EndsKeeps DEF Ends
<1> QED BY <1>1, <1>6, <1>7

LEMMA RefuseRoundKeeps ==
  ASSUME IInv, RefuseRound
  PROVE  IInv'
<1>1. /\ job.at \in {"ask", "shops"} /\ job' = [job EXCEPT !.at = "refused"]
      /\ UNCHANGED <<rounds, form, copy, day, shops>>
  BY DEF RefuseRound, Kept, worldVars
<1>2. /\ IsJob(job) /\ form.page # "list"
      /\ job.page = "create" => TakenFrom(copy, job.what) /\ job.what.picked # {}
  BY <1>1, NoJobIdles DEF IInv, JobInv
<1>3. PICK j : j = [job EXCEPT !.at = "refused"]
  OBVIOUS
<1>4. IsJob(j) /\ j.at = "refused" /\ j.page = job.page /\ j.what = job.what
  BY ONLY <1>2, <1>3 DEF IsJob
<1>5. JobInv'
  BY <1>1, <1>2, <1>3, <1>4 DEF JobInv, TakenFrom
<1> QED BY <1>1, <1>5 DEF IInv, FormInv, RoundsInv, WorldInv, TakenFrom

LEMMA RunKeeps ==
  ASSUME IInv, Runs
  PROVE  IInv'
<1>0. IsForm(form)
  BY DEF IInv, FormInv
<1>1. CASE FinalizeOrder
  <2>1. PICK new : /\ Ends(new) /\ UNCHANGED <<rounds, copy, day, shops>>
                   /\ new = [form EXCEPT !.count = NoDishes] \/ new = form
    BY <1>1 DEF FinalizeOrder, worldVars
  <2>2. /\ IsForm(new) /\ new.page = form.page /\ new.minutes = form.minutes
        /\ new.picked = form.picked
    BY ONLY <1>0, <2>1 DEF IsForm
  <2>3. RoundsInv'
    BY <2>1 DEF IInv, RoundsInv
  <2> QED BY <2>1, <2>2, <2>3, EndsKeeps
<1>2. CASE AddOption \/ Fails
  <2>1. PICK new : /\ Ends(new) /\ UNCHANGED <<rounds, copy, day, shops>>
                   /\ \/ new = [form EXCEPT !.chosen = NoShop, !.text = NoShop, !.named = NoShop]
                      \/ new = form
    BY <1>2 DEF AddOption, Fails, Kept, worldVars
  <2>2. /\ IsForm(new) /\ new.page = form.page /\ new.minutes = form.minutes
        /\ new.picked = form.picked
    BY ONLY <1>0, <2>1 DEF IsForm
  <2>3. RoundsInv'
    BY <2>1 DEF IInv, RoundsInv
  <2> QED BY <2>1, <2>2, <2>3, EndsKeeps
<1> QED BY <1>1, <1>2, SignKeeps, WalletKeeps, CreateKeeps, ProposePickedKeeps, RefuseRoundKeeps DEF Runs

LEMMA StepKeeps == IInv /\ [Next]_vars => IInv'
<1> SUFFICES ASSUME IInv, [Next]_vars PROVE IInv' OBVIOUS
<1>1. ASSUME UNCHANGED <<rounds, form, copy, job>>, WorldInv' PROVE IInv'
  <2>1. Creatable(job.what)' = Creatable(job.what)
    BY <1>1 DEF Creatable
  <2> QED BY <1>1, <2>1 DEF IInv, FormInv, JobInv, RoundsInv, TakenFrom
<1>2. CASE AdminSaves \/ ShopMoves \/ MenuMoves \/ GroupMoves \/ Midnight
  <2>1. UNCHANGED <<rounds, form, copy, job>>
    BY <1>2 DEF AdminSaves, ShopMoves, MenuMoves, GroupMoves, Midnight, Elsewhere
  <2>2. WorldInv'
    BY <1>2 DEF AdminSaves, ShopMoves, MenuMoves, GroupMoves, Midnight, IInv, WorldInv
  <2> QED BY <1>1, <2>1, <2>2
<1>3. CASE UNCHANGED vars
  BY <1>1, <1>3 DEF vars, worldVars, IInv, WorldInv
<1> QED BY <1>2, <1>3, MountKeeps, LeaveKeeps, FillKeeps, PressKeeps, RunKeeps, OnRoundsKeeps
        DEF Next, Visit, Others

LEMMA Invariance == Spec => []IInv
BY InitForms, StepKeeps, PTL DEF Spec

-----------------------------------------------------------------------------
(* A round that is paid for is refused only for one of the named reasons:   *)
(* its durations were on offer and its shops in the page's list, and the    *)
(* shops it has are those of the handler that were proposed already, unless *)
(* somebody else was faster (handleCreateOrder, handleCreateProposal).      *)
THEOREM PaidRoundsAreMade == Spec => PaidRoundIsMade
<1>1. IInv /\ [Next]_vars =>
        [job'.at = "refused" /\ job'.paid > 0 /\ job # job' =>
           \/ job.at = "ask" /\ ~inGroup
           \/ ~(Offered(copy.settings) \subseteq 1..90)
           \/ job.what.limit \notin Cardinality(job.what.picked)..10
           \/ ~(copy.shops \subseteq shops)
           \/ job.at = "shops" /\ LET r == rounds[Len(rounds)] IN
                r.day # day \/ r.shops # job.what.picked \ job.left]_vars
  <2> SUFFICES ASSUME IInv, [Next]_vars, job'.at = "refused", job # job',
                      Offered(copy.settings) \subseteq 1..90,
                      job.what.limit \in Cardinality(job.what.picked)..10,
                      copy.shops \subseteq shops,
                      job.at = "ask" => inGroup,
                      NEW r, r = rounds[Len(rounds)],
                      job.at = "shops" => r.day = day /\ r.shops = job.what.picked \ job.left
               PROVE  FALSE
    OBVIOUS
  <2>1. RefuseRound
    <3>1. job' # NoJob
      BY NoJobIdles
    <3>2. ~Fills(form') /\ ~Presses
      BY DEF Fills, Presses, PressCreate, PressOption, PressOrder, Press, PayOrAsk
    <3>3. ~SignOrder
      BY SignKeeps, NoJobIdles, <3>1 DEF SignOrder, PayOrAsk, IInv, JobInv, IsJob
    <3>4. ~WalletSends /\ ~CreateProposal
      BY NoJobIdles DEF WalletSends, CreateProposal, IInv, JobInv, IsJob
    <3>5. ~ProposePicked
      BY <3>1, ProposePickedKeeps
    <3>6. ~Others /\ ~Visit /\ ~Leave /\ ~Fill
      BY <3>1 DEF Others, AdminSaves, ShopMoves, MenuMoves, GroupMoves, Midnight, Elsewhere, OnRounds,
                  AdvanceProposalStage, OthersPropose, Visit, Mount, Leave, Fill, ChooseMinutes,
                  TypeLimit, Toggle, PickShop, TypeShop, SetOrderQuantity, Fills
    <3>7. ~AddOption /\ ~FinalizeOrder /\ ~Fails
      BY <3>1 DEF AddOption, FinalizeOrder, Fails, Ends
    <3> QED BY <3>2, <3>3, <3>4, <3>5, <3>6, <3>7 DEF Next, Runs, vars
  <2>2. job # NoJob /\ job.page = "create" /\ job.at \in {"ask", "shops"}
    BY <2>1, NoJobIdles DEF RefuseRound, IInv, JobInv
  <2>3. TakenFrom(copy, job.what) /\ job.what.picked # {}
    BY <2>2 DEF IInv, JobInv
  <2>4. Cardinality(job.what.picked) \in Nat \ {0}
    BY <2>3, FS_CardinalityType, FS_EmptySet DEF TakenFrom
  <2>5. job.what.limit \in 1..10 /\ Cardinality(job.what.picked) <= job.what.limit
    BY <2>4
  <2>6. Creatable(job.what)
    <3>1. \A s \in Stages : job.what.minutes[s] \in 1..90
      BY <2>3 DEF TakenFrom
    <3> QED BY <2>5, <3>1 DEF Creatable, AllowedMinutes
  <2>7. job.at = "shops" /\ \E shop \in job.left : ~Proposable(r, shop)
    BY <2>1, <2>2, <2>6 DEF RefuseRound
  <2>8. PICK shop \in job.left : ~Proposable(r, shop)
    BY <2>7
  <2>9. /\ job.left \subseteq job.what.picked /\ r.limit = job.what.limit
        /\ r.day = day /\ r.shops = job.what.picked \ job.left
    BY <2>2, <2>7 DEF IInv, JobInv
  <2>10. shop \in shops \ r.shops
    BY <2>3, <2>9 DEF TakenFrom
  <2>11. Cardinality(r.shops) < Cardinality(job.what.picked)
    <3>1. IsFiniteSet(job.what.picked) /\ r.shops \subseteq job.what.picked /\ r.shops # job.what.picked
      BY <2>3, <2>8, <2>9 DEF TakenFrom
    <3>2. /\ Cardinality(r.shops) <= Cardinality(job.what.picked)
          /\ Cardinality(r.shops) # Cardinality(job.what.picked)
      BY <3>1, FS_Subset
    <3>3. IsFiniteSet(r.shops)
      BY <3>1, FS_Subset
    <3>4. Cardinality(r.shops) \in Nat /\ Cardinality(job.what.picked) \in Nat
      BY <3>1, <3>3, FS_CardinalityType
    <3> QED BY <3>2, <3>4
  <2>12. Cardinality(r.shops) \in Nat
    <3>1. IsFiniteSet(r.shops)
      BY <2>3, <2>9, FS_Subset DEF TakenFrom
    <3> QED BY <3>1, FS_CardinalityType
  <2>13. Cardinality(r.shops) < r.limit
    BY <2>4, <2>5, <2>9, <2>11, <2>12
  <2> QED BY <2>8, <2>9, <2>10, <2>13 DEF Proposable
<1> QED BY <1>1, Invariance, PTL DEF Spec, PaidRoundIsMade

(* No round of the application is long enough to be taken for one of        *)
(* another day, until an admin moves its deadlines: the durations a page    *)
(* shows are those it was created with, for the stages that were not moved  *)
(* (normalizeProposal, getProposalStageMinutes, isAllowedStageDuration).    *)
THEOREM DurationsAreShown == Spec => []MinutesAreShown
<1>1. IInv => MinutesAreShown
  <2> SUFFICES ASSUME IInv, NEW k \in DOMAIN rounds, NEW s \in Stages,
                      rounds[k].moved \cap Bounds(s) = {}
               PROVE  ShownMinutes(rounds[k].ends, s) = rounds[k].asked[s]
    BY DEF MinutesAreShown
  <2>1. /\ rounds[k] \in Rounds
        /\ \A x \in Stages \ rounds[k].moved : rounds[k].ends[x] = EndAsked(rounds[k].asked, x)
    <3>1. k \in 1..Len(rounds)
      BY LenProperties DEF IInv, RoundsInv
    <3> QED BY <3>1, ElementOfSeq DEF IInv, RoundsInv
  <2>2. PICK m, e : m = rounds[k].asked /\ e = rounds[k].ends
    OBVIOUS
  <2>3. m.proposal \in 1..90 /\ m.vote \in 1..90 /\ m.order \in 1..90
    <3>1. m \in [Stages -> 1..90]
      BY <2>1, <2>2 DEF Rounds
    <3> QED BY <3>1 DEF Stages
  <2>4. \A x \in Bounds(s) : e[x] = EndAsked(m, x)
    BY <2>1, <2>2 DEF Bounds, Stages
  <2>5. ASSUME NEW n \in 1..90 PROVE StageMinutes(n) = n
    <3>1. (n - 1) % 1440 = n - 1
      BY <2>5
    <3> QED BY <3>1 DEF StageMinutes, Day
  <2>6. ShownMinutes(e, s) = m[s]
    <3>1. CASE s = "proposal"
      <4>1. e.proposal = m.proposal
        BY <2>4, <3>1 DEF Bounds, EndAsked
      <4>2. Shift(e) = 0
        BY <2>3, <4>1 DEF Shift
      <4>3. ShownMinutes(e, s) = StageMinutes(e.proposal - Shift(e))
        BY <3>1 DEF ShownMinutes
      <4> QED BY <2>3, <2>5, <3>1, <4>1, <4>2, <4>3
    <3>2. CASE s = "vote"
      <4>1. e.proposal = m.proposal /\ e.vote = m.proposal + m.vote
        BY <2>4, <3>2 DEF Bounds, EndAsked
      <4>2. ShownMinutes(e, s) = StageMinutes(e.vote - e.proposal)
        BY <3>2 DEF ShownMinutes
      <4>3. e.vote - e.proposal = m.vote
        BY <2>3, <4>1, ThreeMinutes
      <4> QED BY <2>3, <2>5, <3>2, <4>2, <4>3
    <3>3. CASE s = "order"
      <4>1. e.vote = m.proposal + m.vote /\ e.order = m.proposal + m.vote + m.order
        BY <2>4, <3>3 DEF Bounds, EndAsked
      <4>2. ShownMinutes(e, s) = StageMinutes(e.order - e.vote)
        BY <3>3 DEF ShownMinutes
      <4>3. e.order - e.vote = m.order
        <5>1. PICK a \in 1..90, b \in 1..90, c \in 1..90 :
                m.proposal = a /\ m.vote = b /\ m.order = c
          BY <2>3
        <5>2. e.vote = a + b /\ e.order = a + b + c
          BY ONLY <4>1, <5>1
        <5>3. (a + b + c) - (a + b) = c
          BY ONLY ThreeMinutes
        <5> QED BY ONLY <5>1, <5>2, <5>3
      <4> QED BY <2>3, <2>5, <3>3, <4>2, <4>3
    <3> QED BY <3>1, <3>2, <3>3 DEF Stages
  <2> QED BY <2>2, <2>6
<1> QED BY <1>1, Invariance, PTL

(* An order claims what the wallet has sent for it, whatever became of the  *)
(* menu after the signature, unless the page knows no treasury (SaveOrder). *)
THEOREM OrdersArePaid == Spec => OrderedIsPaid
<1>1. IInv /\ [Next]_vars
      => [ordered' # ordered => ordered' = ordered + job.paid \/ ~copy.treasury]_vars
  <2> SUFFICES ASSUME IInv, [Next]_vars, ordered' # ordered
               PROVE  ordered' = ordered + job.paid \/ ~copy.treasury
    OBVIOUS
  <2>1. FinalizeOrder
    BY DEF Next, Visit, Mount, Leave, Fill, ChooseMinutes, TypeLimit, Toggle, PickShop, TypeShop,
           SetOrderQuantity, Fills, Presses, PressCreate, PressOption, PressOrder, Press,
           Runs, SignOrder, WalletSends, CreateProposal, ProposePicked, RefuseRound, AddOption,
           Fails, Kept, Others, AdminSaves, ShopMoves, MenuMoves, GroupMoves, Midnight, OnRounds,
           AdvanceProposalStage, OthersPropose, Elsewhere, vars
  <2>2. job.at = "ask" /\ job.page = "ordering" /\ ordered' = ordered + job.what.price
    BY <2>1 DEF FinalizeOrder, AmountOf
  <2>3. job.paid = job.what.price \/ ~copy.treasury
    BY <2>2, NoJobIdles DEF IInv, JobInv
  <2> QED BY <2>2, <2>3
<1> QED BY <1>1, Invariance, PTL DEF Spec, OrderedIsPaid

(* The wallet is asked for the sum that stands beside the button, unless    *)
(* the menu has changed since the page fetched it (handleOrder, Quote).     *)
THEOREM ChargesAreShown == Spec => ChargedIsShown
<1>1. IInv /\ [Next]_vars
      => [job.at = "sign" /\ job'.at \in {"pay", "ask"} => Shown \/ price # copy.price]_vars
  <2> SUFFICES ASSUME IInv, [Next]_vars, job.at = "sign", job'.at \in {"pay", "ask"}
               PROVE  Shown \/ price # copy.price
    OBVIOUS
  <2>1. SignOrder
    <3>1. job # NoJob /\ job' # job /\ job' # NoJob
      BY NoJobIdles
    <3> QED BY <3>1 DEF Next, Visit, Mount, Leave, Fill, ChooseMinutes, TypeLimit, Toggle, PickShop,
                        TypeShop, SetOrderQuantity, Fills, Presses, PressCreate, PressOption,
                        PressOrder, Press, Runs, WalletSends, CreateProposal, ProposePicked,
                        RefuseRound, AddOption, FinalizeOrder, Ends, Fails, Others, AdminSaves,
                        ShopMoves, MenuMoves, GroupMoves, Midnight, OnRounds,
                        AdvanceProposalStage, OthersPropose, Elsewhere, vars
  <2>2. job'.what.price = Subtotal(form.count, price)
    BY <2>1, SignKeeps
  <2> QED BY <2>2 DEF Shown
<1> QED BY <1>1, Invariance, PTL DEF Spec, ChargedIsShown

----------------------------------------------------------------------------
(* Reviews, points and titles (Achievements).                               *)

Purchases == [member : Members, reward : Titles!Rewards]

(* What is kept in the browser's storage.                                   *)
IsRecord(s) ==
  /\ s = [comments |-> s.comments, menuRecords |-> s.menuRecords, redemptions |-> s.redemptions]
  /\ s.comments \in [Members -> Nat] /\ s.redemptions \in Seq(Purchases)

(* Nobody has spent more than he earned.                                    *)
Covered(s) == \A m \in Members : Titles!SpentPoints(s, m) <= Titles!MemberPoints(s, m)

(* Whoever has earned or bought something in r still has it in s.           *)
Keeps(r, s) ==
  \A m \in Members : r.comments[m] <= s.comments[m] /\ Titles!Titles(r, m) \subseteq Titles!Titles(s, m)

TitleTypes ==
  /\ IsRecord(store)
  /\ tab = [t \in Tabs |-> tab[t]] /\ handler = [t \in Tabs |-> handler[t]]
  /\ \A t \in Tabs : tab[t] # Titles!NoTab =>
       /\ tab[t] = [page |-> tab[t].page, member |-> tab[t].member, seen |-> tab[t].seen]
       /\ tab[t].member \in Members /\ IsRecord(tab[t].seen)

(* A handler's next record goes on from the one it read.                    *)
HandlersFit ==
  \A t \in Tabs : handler[t] # Titles!Idle =>
    /\ tab[t] # Titles!NoTab /\ IsRecord(handler[t].next)
    /\ Keeps(handler[t].read, handler[t].next)
    /\ Covered(handler[t].read) => Covered(handler[t].next)

TitlesInv ==
  /\ TitleTypes /\ HandlersFit
  /\ \/ overtaken
     \/ Covered(store) /\ \A t \in Tabs : tab[t] # Titles!NoTab => Keeps(tab[t].seen, store)

(* The sum that the instance holds is the one of the lemmas.               *)
LEMMA SameSum ==
  ASSUME NEW f, NEW S
  PROVE  Titles!SumFunctionOnSet(f, S) = SumFunctionOnSet(f, S)
BY DEF Titles!SumFunctionOnSet, SumFunctionOnSet, Titles!FoldFunctionOnSet, FoldFunctionOnSet,
       Titles!MapThenFoldSet, MapThenFoldSet

(* What a member has spent is a natural number, 0 at first.                 *)
Prices(q) == [k \in DOMAIN q |-> Titles!Cost[q[k].reward]]
PlacesOf(q, m) == {k \in DOMAIN q : q[k].member = m}

LEMMA SpentIsSum ==
  ASSUME NEW s, IsRecord(s), NEW m
  PROVE  /\ Titles!SpentPoints(s, m) = SumFunctionOnSet(Prices(s.redemptions), PlacesOf(s.redemptions, m))
         /\ Titles!SpentPoints(s, m) \in Nat
         /\ IsFiniteSet(PlacesOf(s.redemptions, m))
         /\ PlacesOf(s.redemptions, m) \subseteq DOMAIN s.redemptions
         /\ DOMAIN s.redemptions = 1..Len(s.redemptions) /\ Len(s.redemptions) \in Nat
         /\ \A k \in DOMAIN s.redemptions : s.redemptions[k] \in Purchases
         /\ NatValued(Prices(s.redemptions), DOMAIN s.redemptions)
<1> DEFINE q == s.redemptions
           P == PlacesOf(q, m)
<1>1. Titles!SpentPoints(s, m) = SumFunctionOnSet(Prices(q), P)
  BY SameSum DEF Titles!SpentPoints, Titles!MemberRedemptions, Prices, PlacesOf
<1>2. DOMAIN q = 1..Len(q) /\ Len(q) \in Nat /\ \A k \in DOMAIN q : q[k] \in Purchases
  BY DEF IsRecord
<1>3. P \subseteq DOMAIN q /\ IsFiniteSet(P)
  <2>0. PICK n \in Nat : Len(q) = n
    BY <1>2
  <2>1. IsFiniteSet(1..Len(q))
    BY <2>0, FS_Interval
  <2>2. P \subseteq DOMAIN q
    BY DEF PlacesOf
  <2> QED BY <1>2, <2>1, <2>2, FS_Subset
<1>4. \A r \in Titles!Rewards : Titles!Cost[r] \in Nat
  BY DEF Titles!Rewards, Titles!Cost
<1>5. NatValued(Prices(q), DOMAIN q)
  BY <1>2, <1>4 DEF NatValued, Prices, Purchases
<1>6. NatValued(Prices(q), P)
  BY <1>3, <1>5 DEF NatValued
<1>7. SumFunctionOnSet(Prices(q), P) \in Nat
  BY <1>3, <1>6, SumNat
<1> QED BY <1>1, <1>2, <1>3, <1>5, <1>7

(* A purchase goes before those there are: it adds its price to what its    *)
(* member has spent, and its title to his.                                  *)
LEMMA OneMorePurchase ==
  ASSUME NEW s, IsRecord(s), NEW n \in Members, NEW w \in Titles!Rewards,
         NEW b, b = [member |-> n, reward |-> w],
         NEW u, u = [comments |-> s.comments, menuRecords |-> s.menuRecords,
                     redemptions |-> <<b>> \o s.redemptions]
  PROVE  /\ IsRecord(u) /\ Keeps(s, u)
         /\ Titles!SpentPoints(u, n) = Titles!SpentPoints(s, n) + Titles!Cost[w]
         /\ \A m \in Members \ {n} : Titles!SpentPoints(u, m) = Titles!SpentPoints(s, m)
         /\ \A m \in Members : Titles!MemberPoints(u, m) = Titles!MemberPoints(s, m)
<1> DEFINE q == s.redemptions
           p == <<b>> \o q
<1>1. /\ q \in Seq(Purchases) /\ DOMAIN q = 1..Len(q) /\ Len(q) \in Nat
      /\ b \in Purchases
  BY DEF IsRecord, Purchases
<1>2. /\ p \in Seq(Purchases) /\ DOMAIN p = 1..(Len(q) + 1)
      /\ p[1] = b /\ \A k \in 1..Len(q) : p[k + 1] = q[k]
  BY <1>1
<1>3. u = [comments |-> s.comments, menuRecords |-> s.menuRecords, redemptions |-> p]
  OBVIOUS
<1> HIDE DEF p, q
<1>4. u.comments = s.comments /\ u.redemptions = p
  BY <1>3
<1>5. IsRecord(u)
  <2>1. s.comments \in [Members -> Nat]
    BY DEF IsRecord
  <2>2. u = [comments |-> u.comments, menuRecords |-> u.menuRecords, redemptions |-> u.redemptions]
    BY <1>3
  <2> QED BY <1>2, <1>4, <2>1, <2>2 DEF IsRecord
<1>6. \A m \in Members : Titles!MemberPoints(u, m) = Titles!MemberPoints(s, m)
  BY <1>4 DEF Titles!MemberPoints
<1>7. ASSUME NEW m \in Members
      PROVE  PlacesOf(p, m) = {k + 1 : k \in PlacesOf(q, m)} \cup (IF m = n THEN {1} ELSE {})
  <2>1. b.member = n
    OBVIOUS
  <2>2. \A k \in DOMAIN p : k = 1 \/ (k - 1 \in DOMAIN q /\ p[k] = q[k - 1] /\ k = (k - 1) + 1)
    <3>1. ASSUME NEW k \in DOMAIN p, k # 1
          PROVE  k - 1 \in 1..Len(q) /\ k = (k - 1) + 1
      BY <1>1, <1>2, <3>1
    <3> QED BY <1>1, <1>2, <3>1
  <2>3. \A k \in DOMAIN q : k + 1 \in DOMAIN p /\ p[k + 1] = q[k] /\ k + 1 # 1
    BY <1>1, <1>2
  <2>4. ASSUME NEW k \in PlacesOf(p, m)
        PROVE  k \in {j + 1 : j \in PlacesOf(q, m)} \cup (IF m = n THEN {1} ELSE {})
    <3>1. k \in DOMAIN p /\ p[k].member = m
      BY <2>4 DEF PlacesOf
    <3>2. CASE k = 1
      BY <1>2, <2>1, <3>1, <3>2
    <3>3. CASE k # 1
      <4>1. k - 1 \in PlacesOf(q, m) /\ k = (k - 1) + 1
        BY <2>2, <3>1, <3>3 DEF PlacesOf
      <4> QED BY <4>1
    <3> QED BY <3>2, <3>3
  <2>5. \A k \in PlacesOf(q, m) : k + 1 \in PlacesOf(p, m)
    BY <2>3 DEF PlacesOf
  <2>6. m = n => 1 \in PlacesOf(p, m)
    BY <1>1, <1>2, <2>1 DEF PlacesOf
  <2> QED BY <2>4, <2>5, <2>6
<1>8. ASSUME NEW m \in Members
      PROVE  /\ m = n => Titles!SpentPoints(u, m) = Titles!SpentPoints(s, m) + Titles!Cost[w]
             /\ m # n => Titles!SpentPoints(u, m) = Titles!SpentPoints(s, m)
  <2> DEFINE S == PlacesOf(q, m)
             U == {k + 1 : k \in S}
             f == Prices(q)
             g == Prices(p)
  <2>1. /\ Titles!SpentPoints(s, m) = SumFunctionOnSet(f, S) /\ Titles!SpentPoints(s, m) \in Nat
        /\ IsFiniteSet(S) /\ S \subseteq 1..Len(q) /\ NatValued(f, DOMAIN q)
    BY <1>1, SpentIsSum DEF q
  <2>2. /\ Titles!SpentPoints(u, m) = SumFunctionOnSet(g, PlacesOf(p, m))
        /\ IsFiniteSet(PlacesOf(p, m)) /\ NatValued(g, DOMAIN p) /\ PlacesOf(p, m) \subseteq DOMAIN p
    BY <1>4, <1>5, SpentIsSum
  <2>3. \A k \in S : k \in Nat /\ g[k + 1] = f[k]
    <3>1. ASSUME NEW k \in S
          PROVE  k \in Nat /\ k + 1 \in 1..(Len(q) + 1) /\ p[k + 1] = q[k] /\ k \in DOMAIN q
      BY <1>1, <1>2, <2>1, <3>1
    <3> QED BY <1>2, <3>1 DEF Prices
  <2>4. g[1] = Titles!Cost[w]
    <3>1. b.reward = w /\ 1 \in DOMAIN p
      BY <1>1, <1>2 
    <3> QED BY <1>2, <3>1 DEF Prices
  <2>5. SumFunctionOnSet(g, U) = SumFunctionOnSet(f, S)
    <3>1. IntValued(f, S) /\ S \in SUBSET Nat
      BY <1>1, <2>1, <2>3 DEF IntValued, NatValued
    <3> HIDE DEF S, f, g
    <3> QED BY <2>1, <2>3, <3>1, SumShift
  <2>6. CASE m # n
    <3>1. PlacesOf(p, m) = U
      BY <1>7, <2>6
    <3> HIDE DEF g, f, S, U
    <3>2. Titles!SpentPoints(u, m) = Titles!SpentPoints(s, m)
      BY <2>1, <2>2, <2>5, <3>1
    <3> QED BY <2>1, <2>6, <3>2
  <2>7. CASE m = n
    <3>1. PlacesOf(p, m) = U \cup {1}
      <4>1. PlacesOf(p, m) = U \cup (IF m = n THEN {1} ELSE {})
        BY <1>7
      <4> HIDE DEF U
      <4> QED BY <2>7, <4>1
    <3>2. 1 \notin U
      <4>1. \A k \in S : k \in 1..Len(q) /\ k + 1 # 1
        BY <1>1, <2>1
      <4> QED BY <4>1
    <3>3. IntValued(g, PlacesOf(p, m))
      BY <2>2 DEF NatValued, IntValued
    <3>4. PlacesOf(p, m) \ {1} = U
      BY <3>1, <3>2
    <3>5. 1 \in PlacesOf(p, m)
      BY <3>1
    <3> HIDE DEF g, U
    <3>6. SumFunctionOnSet(g, PlacesOf(p, m)) = g[1] + SumFunctionOnSet(g, U)
      <4>1. PICK P : P = PlacesOf(p, m)
        OBVIOUS
      <4>2. SumFunctionOnSet(g, P) = g[1] + SumFunctionOnSet(g, P \ {1})
        <5>1. IsFiniteSet(P) /\ IntValued(g, P) /\ 1 \in P
          BY <2>2, <3>3, <3>5, <4>1
        <5> QED BY ONLY <5>1, SumStep
      <4> QED BY <3>4, <4>1, <4>2
    <3>7. g[1] \in Nat
      BY <2>2, <3>5 DEF NatValued
    <3> QED BY <2>1, <2>2, <2>4, <2>5, <2>7, <3>6, <3>7
  <2> QED BY <2>6, <2>7
<1>9. Keeps(s, u)
  <2>1. ASSUME NEW m \in Members, NEW x \in Titles!Titles(s, m)
        PROVE  x \in Titles!Titles(u, m)
    <3>1. PICK k \in DOMAIN q : q[k].member = m /\ x = q[k].reward
      BY <2>1 DEF Titles!Titles, Titles!MemberRedemptions, q
    <3>2. k + 1 \in DOMAIN p /\ p[k + 1] = q[k]
      BY <1>1, <1>2
    <3> QED BY <1>4, <3>1, <3>2 DEF Titles!Titles, Titles!MemberRedemptions
  <2>2. \A m \in Members : s.comments[m] <= u.comments[m]
    BY <1>4 DEF IsRecord
  <2> QED BY <2>1, <2>2 DEF Keeps
<1>10. Titles!SpentPoints(u, n) = Titles!SpentPoints(s, n) + Titles!Cost[w]
  BY <1>8
<1>11. \A m \in Members \ {n} : Titles!SpentPoints(u, m) = Titles!SpentPoints(s, m)
  BY <1>8
<1> QED BY <1>5, <1>6, <1>9, <1>10, <1>11

(* The title that is shown was bought.                                      *)
LEMMA TitleIsBought ==
  ASSUME NEW s, IsRecord(s), NEW m
  PROVE  Titles!CurrentTitle(s, m) = "none" \/ Titles!CurrentTitle(s, m) \in Titles!Titles(s, m)
<1> DEFINE P == PlacesOf(s.redemptions, m)
<1>1. Titles!MemberRedemptions(s, m) = P
  BY DEF Titles!MemberRedemptions, PlacesOf
<1>2. CASE P = {}
  BY <1>1, <1>2 DEF Titles!CurrentTitle
<1>3. CASE P # {}
  <2>1. PICK n \in Nat : P \subseteq 0..n
    <3>1. P \subseteq 1..Len(s.redemptions) /\ Len(s.redemptions) \in Nat
      BY SpentIsSum
    <3>2. 1..Len(s.redemptions) \subseteq 0..Len(s.redemptions)
      BY <3>1
    <3> QED BY <3>1, <3>2
  <2>2. \E i \in P : \A j \in P : i <= j
    <3> HIDE DEF P
    <3> QED BY <1>3, <2>1, LeastExists
  <2>3. Titles!Min(P) \in P
    BY <2>2 DEF Titles!Min
  <2>4. Titles!CurrentTitle(s, m) = s.redemptions[Titles!Min(P)].reward
    BY <1>1, <1>3 DEF Titles!CurrentTitle
  <2> QED BY <1>1, <2>3, <2>4 DEF Titles!Titles
<1> QED BY <1>2, <1>3

(* Records that go on from each other.                                      *)
LEMMA KeepsIsTransitive ==
  ASSUME NEW r, NEW s, NEW u, IsRecord(r), IsRecord(s), IsRecord(u), Keeps(r, s), Keeps(s, u)
  PROVE  Keeps(r, u)
<1>1. \A m \in Members : r.comments[m] \in Nat /\ s.comments[m] \in Nat /\ u.comments[m] \in Nat
  BY DEF IsRecord
<1> QED BY <1>1 DEF Keeps

LEMMA KeepsItself ==
  ASSUME NEW s, IsRecord(s)
  PROVE  Keeps(s, s)
BY DEF Keeps, IsRecord

(* What the invariant says is what the property asks for.                   *)
LEMMA TitlesInvIsEnough ==
  ASSUME TitlesInv
  PROVE  EarnedIsKept
<1> SUFFICES ASSUME ~overtaken
             PROVE  /\ \A m \in Members : Titles!SpentPoints(store, m) <= Titles!MemberPoints(store, m)
                    /\ \A t \in Tabs : tab[t] # Titles!NoTab =>
                         /\ Titles!Unlocked(tab[t].seen, tab[t].member) \subseteq Titles!Unlocked(store, tab[t].member)
                         /\ \/ Titles!CurrentTitle(tab[t].seen, tab[t].member) = "none"
                            \/ Titles!CurrentTitle(tab[t].seen, tab[t].member) \in Titles!Titles(store, tab[t].member)
  BY DEF EarnedIsKept, Titles!EarnedIsKept
<1>1. Covered(store) /\ \A t \in Tabs : tab[t] # Titles!NoTab => Keeps(tab[t].seen, store)
  BY DEF TitlesInv
<1>2. ASSUME NEW t \in Tabs, tab[t] # Titles!NoTab
      PROVE  /\ Titles!Unlocked(tab[t].seen, tab[t].member) \subseteq Titles!Unlocked(store, tab[t].member)
             /\ \/ Titles!CurrentTitle(tab[t].seen, tab[t].member) = "none"
                \/ Titles!CurrentTitle(tab[t].seen, tab[t].member) \in Titles!Titles(store, tab[t].member)
  <2>1. PICK s, m : s = tab[t].seen /\ m = tab[t].member
    OBVIOUS
  <2>2. IsRecord(s) /\ IsRecord(store) /\ m \in Members /\ Keeps(s, store)
    BY <1>1, <1>2, <2>1 DEF TitlesInv, TitleTypes
  <2>3. Titles!Unlocked(s, m) \subseteq Titles!Unlocked(store, m)
    <3>1. s.comments[m] \in Nat /\ store.comments[m] \in Nat /\ s.comments[m] <= store.comments[m]
      BY <2>2 DEF IsRecord, Keeps
    <3>2. \A b \in Titles!Badges : b \in Nat
      BY DEF Titles!Badges
    <3> QED BY <3>1, <3>2 DEF Titles!Unlocked
  <2>4. Titles!Titles(s, m) \subseteq Titles!Titles(store, m)
    BY <2>2 DEF Keeps
  <2> QED BY <2>1, <2>2, <2>3, <2>4, TitleIsBought
<1> QED BY <1>1, <1>2 DEF Covered

(* Nothing is earned or spent at first.                                     *)
LEMMA TitlesBegin ==
  ASSUME Titles!Init
  PROVE  TitlesInv
<1>1. store = [comments |-> [m \in Members |-> 0], menuRecords |-> 0, redemptions |-> <<>>]
  BY DEF Titles!Init, Titles!EmptyState
<1>2. IsRecord(store)
  BY <1>1 DEF IsRecord
<1>3. Covered(store)
  <2>1. ASSUME NEW m \in Members
        PROVE  Titles!SpentPoints(store, m) <= Titles!MemberPoints(store, m)
    <3>1. store.redemptions = <<>> /\ store.comments[m] = 0
      BY <1>1
    <3>2. PlacesOf(store.redemptions, m) = {}
      BY <3>1 DEF PlacesOf
    <3>3. Titles!SpentPoints(store, m) = 0
      BY <1>2, <3>2, SpentIsSum, SumEmpty
    <3>4. Titles!MemberPoints(store, m) = 0
      BY <3>1 DEF Titles!MemberPoints, Titles!PerReview
    <3> QED BY <3>3, <3>4
  <2> QED BY <2>1 DEF Covered
<1>4. \A t \in Tabs : tab[t] = Titles!NoTab /\ handler[t] = Titles!Idle
  BY DEF Titles!Init
<1>5. tab = [t \in Tabs |-> tab[t]] /\ handler = [t \in Tabs |-> handler[t]]
  BY DEF Titles!Init
<1> QED BY <1>2, <1>3, <1>4, <1>5 DEF TitlesInv, TitleTypes, HandlersFit

(* Only the tabs that are drawn change.                                     *)
LEMMA TabsChange ==
  ASSUME TitlesInv, UNCHANGED <<store, handler, overtaken>>,
         NEW t \in Tabs, handler[t] = Titles!Idle, NEW r, tab' = [tab EXCEPT ![t] = r],
         \/ r = Titles!NoTab
         \/ \E p, m : m \in Members /\ r = [page |-> p, member |-> m, seen |-> store]
  PROVE  TitlesInv'
<1>1. tab' = [u \in Tabs |-> tab'[u]] /\ tab'[t] = r /\ \A u \in Tabs \ {t} : tab'[u] = tab[u]
  BY DEF TitlesInv, TitleTypes
<1>2. r # Titles!NoTab => /\ r = [page |-> r.page, member |-> r.member, seen |-> r.seen]
                         /\ r.member \in Members /\ r.seen = store
  OBVIOUS
<1>3. IsRecord(store)
  BY DEF TitlesInv, TitleTypes
<1>4. TitleTypes'
  <2>1. ASSUME NEW u \in Tabs, tab'[u] # Titles!NoTab
        PROVE  /\ tab'[u] = [page |-> tab'[u].page, member |-> tab'[u].member, seen |-> tab'[u].seen]
               /\ tab'[u].member \in Members /\ IsRecord(tab'[u].seen)
    <3>1. CASE u = t
      BY <1>1, <1>2, <1>3, <2>1, <3>1
    <3>2. CASE u # t
      BY <1>1, <2>1, <3>2 DEF TitlesInv, TitleTypes
    <3> QED BY <3>1, <3>2
  <2>2. handler' = [u \in Tabs |-> handler'[u]] /\ IsRecord(store')
    BY <1>3 DEF TitlesInv, TitleTypes
  <2> QED BY <1>1, <2>1, <2>2 DEF TitleTypes
<1>5. HandlersFit'
  <2>1. ASSUME NEW u \in Tabs, handler'[u] # Titles!Idle
        PROVE  tab'[u] # Titles!NoTab
    BY <1>1, <2>1 DEF TitlesInv, HandlersFit
  <2> QED BY <2>1 DEF TitlesInv, HandlersFit
<1>6. ASSUME ~overtaken'
      PROVE  Covered(store') /\ \A u \in Tabs : tab'[u] # Titles!NoTab => Keeps(tab'[u].seen, store')
  <2>1. Covered(store) /\ \A u \in Tabs : tab[u] # Titles!NoTab => Keeps(tab[u].seen, store)
    BY <1>6 DEF TitlesInv
  <2>2. ASSUME NEW u \in Tabs, tab'[u] # Titles!NoTab
        PROVE  Keeps(tab'[u].seen, store')
    <3>1. CASE u = t
      BY <1>1, <1>2, <1>3, <2>2, <3>1, KeepsItself
    <3>2. CASE u # t
      BY <1>1, <2>1, <2>2, <3>2
    <3> QED BY <3>1, <3>2
  <2> QED BY <2>1, <2>2
<1> QED BY <1>4, <1>5, <1>6 DEF TitlesInv

(* A handler begins: what it will write goes on from what it has read.      *)
LEMMA HandlerBegins ==
  ASSUME TitlesInv, NEW t \in Tabs, tab[t] # Titles!NoTab, NEW next, Titles!Computes(t, next),
         IsRecord(next), Keeps(store, next), Covered(store) => Covered(next)
  PROVE  TitlesInv'
<1>1. /\ handler' = [u \in Tabs |-> handler'[u]] /\ \A u \in Tabs \ {t} : handler'[u] = handler[u]
      /\ handler'[t] = [at |-> "write", read |-> store, next |-> next]
      /\ store' = store /\ tab' = tab /\ overtaken' = overtaken
  BY DEF Titles!Computes, TitlesInv, TitleTypes
<1>2. TitleTypes'
  BY <1>1 DEF TitlesInv, TitleTypes
<1>3. HandlersFit'
  <2>1. ASSUME NEW u \in Tabs, handler'[u] # Titles!Idle
        PROVE  /\ tab'[u] # Titles!NoTab /\ IsRecord(handler'[u].next)
               /\ Keeps(handler'[u].read, handler'[u].next)
               /\ Covered(handler'[u].read) => Covered(handler'[u].next)
    <3>1. CASE u = t
      <4>1. handler'[u].read = store /\ handler'[u].next = next
        BY <1>1, <3>1
      <4> QED BY <1>1, <3>1, <4>1
    <3>2. CASE u # t
      <4>1. handler'[u] = handler[u] /\ tab'[u] = tab[u]
        BY <1>1, <3>2
      <4> QED BY <2>1, <4>1 DEF TitlesInv, HandlersFit
    <3> QED BY <3>1, <3>2
  <2> QED BY <2>1 DEF HandlersFit
<1> QED BY <1>1, <1>2, <1>3 DEF TitlesInv

(* A record is written back: unless it has changed since, nothing is lost.  *)
LEMMA WriteKeepsTitles ==
  ASSUME TitlesInv, NEW t \in Tabs, Titles!Write(t)
  PROVE  TitlesInv'
<1>1. PICK h : h = handler[t]
  OBVIOUS
<1>2. /\ h # Titles!Idle /\ store' = h.next
      /\ overtaken' = (overtaken \/ h.read # store)
      /\ tab' = [tab EXCEPT ![t].seen = store'] /\ handler' = [handler EXCEPT ![t] = Titles!Idle]
  BY <1>1 DEF Titles!Write, Titles!WriteDemoState, Titles!Summary
<1>3. /\ tab[t] # Titles!NoTab /\ IsRecord(h.next) /\ Keeps(h.read, h.next)
      /\ Covered(h.read) => Covered(h.next)
  BY <1>1, <1>2 DEF TitlesInv, HandlersFit
<1>4. /\ tab' = [u \in Tabs |-> tab'[u]] /\ \A u \in Tabs \ {t} : tab'[u] = tab[u]
      /\ tab'[t] = [page |-> tab[t].page, member |-> tab[t].member, seen |-> h.next]
  <2>1. tab = [u \in Tabs |-> tab[u]]
    BY DEF TitlesInv, TitleTypes
  <2>2. tab[t] = [page |-> tab[t].page, member |-> tab[t].member, seen |-> tab[t].seen]
    BY <1>3 DEF TitlesInv, TitleTypes
  <2>3. tab' = [u \in Tabs |-> tab'[u]] /\ \A u \in Tabs \ {t} : tab'[u] = tab[u]
    BY <1>2, <2>1
  <2>4. tab'[t] = [tab[t] EXCEPT !.seen = h.next]
    BY <1>2, <2>1
  <2>5. PICK a, b, c : tab[t] = [page |-> a, member |-> b, seen |-> c]
    BY <2>2
  <2> QED BY <2>3, <2>4, <2>5
<1>5. /\ handler' = [u \in Tabs |-> handler'[u]] /\ handler'[t] = Titles!Idle
      /\ \A u \in Tabs \ {t} : handler'[u] = handler[u]
  BY <1>2 DEF TitlesInv, TitleTypes
<1>6. tab'[t].member = tab[t].member /\ tab'[t].seen = h.next /\ tab[t].member \in Members
  BY <1>3, <1>4 DEF TitlesInv, TitleTypes
<1>7. TitleTypes'
  <2>1. ASSUME NEW u \in Tabs, tab'[u] # Titles!NoTab
        PROVE  /\ tab'[u] = [page |-> tab'[u].page, member |-> tab'[u].member, seen |-> tab'[u].seen]
               /\ tab'[u].member \in Members /\ IsRecord(tab'[u].seen)
    <3>1. CASE u = t
      BY <1>3, <1>4, <1>6, <3>1
    <3>2. CASE u # t
      BY <1>4, <2>1, <3>2 DEF TitlesInv, TitleTypes
    <3> QED BY <3>1, <3>2
  <2> QED BY <1>2, <1>3, <1>4, <1>5, <2>1 DEF TitleTypes
<1>8. HandlersFit'
  <2>1. ASSUME NEW u \in Tabs, handler'[u] # Titles!Idle
        PROVE  /\ tab'[u] # Titles!NoTab /\ IsRecord(handler'[u].next)
               /\ Keeps(handler'[u].read, handler'[u].next)
               /\ Covered(handler'[u].read) => Covered(handler'[u].next)
    <3>1. u # t /\ handler'[u] = handler[u] /\ tab'[u] = tab[u]
      BY <1>4, <1>5, <2>1
    <3> QED BY <2>1, <3>1 DEF TitlesInv, HandlersFit
  <2> QED BY <2>1 DEF HandlersFit
<1>9. ASSUME ~overtaken'
      PROVE  Covered(store') /\ \A u \in Tabs : tab'[u] # Titles!NoTab => Keeps(tab'[u].seen, store')
  <2>1. ~overtaken /\ h.read = store
    BY <1>2, <1>9
  <2>2. Covered(store) /\ \A u \in Tabs : tab[u] # Titles!NoTab => Keeps(tab[u].seen, store)
    BY <2>1 DEF TitlesInv
  <2>3. IsRecord(store) /\ \A u \in Tabs : tab[u] # Titles!NoTab => IsRecord(tab[u].seen)
    BY DEF TitlesInv, TitleTypes
  <2>4. ASSUME NEW u \in Tabs, tab'[u] # Titles!NoTab
        PROVE  Keeps(tab'[u].seen, h.next)
    <3>1. CASE u = t
      BY <1>3, <1>6, <3>1, KeepsItself
    <3>2. CASE u # t
      <4>1. PICK s : s = tab[u].seen
        OBVIOUS
      <4>2. IsRecord(s) /\ Keeps(s, store) /\ tab'[u].seen = s
        BY <1>4, <2>2, <2>3, <2>4, <3>2, <4>1
      <4> QED BY <1>3, <2>1, <2>3, <4>2, KeepsIsTransitive
    <3> QED BY <3>1, <3>2
  <2> QED BY <1>2, <1>3, <2>1, <2>2, <2>4
<1> QED BY <1>7, <1>8, <1>9 DEF TitlesInv

(* What each button computes goes on from what was read.                    *)
LEMMA ReviewIsAdded ==
  ASSUME TitlesInv, NEW t \in Tabs, tab[t] # Titles!NoTab, Titles!AddDemoComment(t)
  PROVE  TitlesInv'
<1>1. PICK n : n = tab[t].member
  OBVIOUS
<1>2. n \in Members /\ IsRecord(store)
  BY <1>1 DEF TitlesInv, TitleTypes
<1>3. PICK next : next = [store EXCEPT !.comments[n] = @ + 1]
  OBVIOUS
<1>4. Titles!Computes(t, next)
  BY <1>1, <1>3 DEF Titles!AddDemoComment
<1>5. /\ next = [comments |-> [store.comments EXCEPT ![n] = @ + 1], menuRecords |-> store.menuRecords,
                 redemptions |-> store.redemptions]
  BY <1>2, <1>3 DEF IsRecord
<1>6. /\ next.redemptions = store.redemptions /\ next.menuRecords = store.menuRecords
      /\ next.comments = [store.comments EXCEPT ![n] = @ + 1]
  BY <1>5
<1>7. /\ next.comments \in [Members -> Nat]
      /\ \A m \in Members : store.comments[m] \in Nat /\ next.comments[m] \in Nat
                           /\ store.comments[m] <= next.comments[m]
  BY <1>2, <1>6 DEF IsRecord
<1>8. IsRecord(next)
  <2>1. next = [comments |-> next.comments, menuRecords |-> next.menuRecords, redemptions |-> next.redemptions]
    BY <1>5
  <2> QED BY <1>2, <1>6, <1>7, <2>1 DEF IsRecord
<1>9. Keeps(store, next)
  BY <1>6, <1>7 DEF Keeps, Titles!Titles, Titles!MemberRedemptions
<1>10. ASSUME Covered(store)
       PROVE  Covered(next)
  <2>1. ASSUME NEW m \in Members
        PROVE  Titles!SpentPoints(next, m) <= Titles!MemberPoints(next, m)
    <3>1. Titles!SpentPoints(next, m) = Titles!SpentPoints(store, m)
      BY <1>6 DEF Titles!SpentPoints, Titles!MemberRedemptions
    <3>2. /\ Titles!MemberPoints(store, m) \in Nat /\ Titles!MemberPoints(next, m) \in Nat
          /\ Titles!MemberPoints(store, m) <= Titles!MemberPoints(next, m)
      BY <1>7 DEF Titles!MemberPoints, Titles!PerReview
    <3>3. Titles!SpentPoints(store, m) \in Nat
      BY <1>2, SpentIsSum
    <3>4. Titles!SpentPoints(store, m) <= Titles!MemberPoints(store, m)
      BY <1>10 DEF Covered
    <3> QED BY <3>1, <3>2, <3>3, <3>4
  <2> QED BY <2>1 DEF Covered
<1> QED BY <1>4, <1>8, <1>9, <1>10, HandlerBegins

LEMMA DishIsAdded ==
  ASSUME TitlesInv, NEW t \in Tabs, tab[t] # Titles!NoTab, Titles!AddDemoMenuRecord(t)
  PROVE  TitlesInv'
<1>1. IsRecord(store)
  BY DEF TitlesInv, TitleTypes
<1>2. PICK next : next = [store EXCEPT !.menuRecords = @ + 1]
  OBVIOUS
<1>3. Titles!Computes(t, next)
  BY <1>2 DEF Titles!AddDemoMenuRecord
<1>4. next = [comments |-> store.comments, menuRecords |-> store.menuRecords + 1,
              redemptions |-> store.redemptions]
  BY <1>1, <1>2 DEF IsRecord
<1>5. next.comments = store.comments /\ next.redemptions = store.redemptions
  BY <1>4
<1>6. IsRecord(next)
  <2>1. next = [comments |-> next.comments, menuRecords |-> next.menuRecords, redemptions |-> next.redemptions]
    BY <1>4
  <2> QED BY <1>1, <1>5, <2>1 DEF IsRecord
<1>7. Keeps(store, next)
  BY <1>1, <1>5 DEF IsRecord, Keeps, Titles!Titles, Titles!MemberRedemptions
<1>8. Covered(store) => Covered(next)
  BY <1>5 DEF Covered, Titles!SpentPoints, Titles!MemberPoints, Titles!MemberRedemptions
<1> QED BY <1>3, <1>6, <1>7, <1>8, HandlerBegins

LEMMA TitleIsTaken ==
  ASSUME TitlesInv, NEW t \in Tabs, tab[t] # Titles!NoTab, NEW w \in Titles!Rewards,
         Titles!RedeemReward(t, w)
  PROVE  TitlesInv'
<1>1. PICK n : n = tab[t].member
  OBVIOUS
<1>2. n \in Members /\ IsRecord(store)
  BY <1>1 DEF TitlesInv, TitleTypes
<1>3. PICK next : next = [store EXCEPT !.redemptions = <<[member |-> n, reward |-> w]>> \o @]
  OBVIOUS
<1>4. /\ Titles!Computes(t, next)
      /\ Titles!SpentPoints(store, n) + Titles!Cost[w] <= Titles!MemberPoints(store, n)
  BY <1>1, <1>3 DEF Titles!RedeemReward, Titles!Covers
<1>5. /\ IsRecord(next) /\ Keeps(store, next)
      /\ Titles!SpentPoints(next, n) = Titles!SpentPoints(store, n) + Titles!Cost[w]
      /\ \A m \in Members \ {n} : Titles!SpentPoints(next, m) = Titles!SpentPoints(store, m)
      /\ \A m \in Members : Titles!MemberPoints(next, m) = Titles!MemberPoints(store, m)
  <2>1. PICK s : s = store
    OBVIOUS
  <2>0. PICK b : b = [member |-> n, reward |-> w]
    OBVIOUS
  <2>2. IsRecord(s) /\ next = [comments |-> s.comments, menuRecords |-> s.menuRecords,
                               redemptions |-> <<b>> \o s.redemptions]
    BY <1>2, <1>3, <2>0, <2>1 DEF IsRecord
  <2>3. IsRecord(next) /\ Keeps(s, next)
    BY <1>2, <2>0, <2>2, OneMorePurchase
  <2>4. Titles!SpentPoints(next, n) = Titles!SpentPoints(s, n) + Titles!Cost[w]
    BY <1>2, <2>0, <2>2, OneMorePurchase
  <2>5. \A m \in Members \ {n} : Titles!SpentPoints(next, m) = Titles!SpentPoints(s, m)
    BY <1>2, <2>0, <2>2, OneMorePurchase
  <2>6. \A m \in Members : Titles!MemberPoints(next, m) = Titles!MemberPoints(s, m)
    BY <1>2, <2>0, <2>2, OneMorePurchase
  <2> QED BY <2>1, <2>3, <2>4, <2>5, <2>6
<1>6. ASSUME Covered(store)
      PROVE  Covered(next)
  <2>1. ASSUME NEW m \in Members
        PROVE  Titles!SpentPoints(next, m) <= Titles!MemberPoints(next, m)
    <3>1. Titles!SpentPoints(store, m) \in Nat
      BY <1>2, SpentIsSum
    <3>2. Titles!SpentPoints(store, m) <= Titles!MemberPoints(store, m)
      BY <1>6 DEF Covered
    <3> QED BY <1>4, <1>5, <3>1, <3>2
  <2> QED BY <2>1 DEF Covered
<1> QED BY <1>4, <1>5, <1>6, HandlerBegins

(* The invariant is inductive.                                              *)
LEMMA TitlesGoOn ==
  ASSUME TitlesInv, [Titles!Next]_(Titles!vars)
  PROVE  TitlesInv'
<1>1. ASSUME NEW t \in Tabs, NEW p \in {"badges", "shop"}, NEW m \in Members, Titles!Open(t, p, m)
      PROVE  TitlesInv'
  <2>1. handler[t] = Titles!Idle
    BY <1>1 DEF Titles!Open, TitlesInv, HandlersFit
  <2>2. PICK r : r = [page |-> p, member |-> m, seen |-> store]
    OBVIOUS
  <2>3. tab' = [tab EXCEPT ![t] = r] /\ UNCHANGED <<store, handler, overtaken>>
    BY <1>1, <2>2 DEF Titles!Open
  <2> QED BY <2>1, <2>2, <2>3, TabsChange
<1>2. ASSUME NEW t \in Tabs, Titles!Leave(t)
      PROVE  TitlesInv'
  <2>1. PICK r : r = Titles!NoTab
    OBVIOUS
  <2>2. handler[t] = Titles!Idle /\ tab' = [tab EXCEPT ![t] = r] /\ UNCHANGED <<store, handler, overtaken>>
    BY <1>2, <2>1 DEF Titles!Leave
  <2> QED BY <2>1, <2>2, TabsChange
<1>3. ASSUME NEW t \in Tabs, NEW p \in {"badges", "shop"}, Titles!On(t, p)
      PROVE  tab[t] # Titles!NoTab
  <2>1. tab[t].page = p
    BY <1>3 DEF Titles!On
  <2>2. Titles!NoTab.page = "none"
    BY DEF Titles!NoTab
  <2> QED BY <2>1, <2>2
<1>4. ASSUME NEW t \in Tabs, Titles!HandleReviewSubmit(t)
      PROVE  TitlesInv'
  BY <1>3, <1>4, ReviewIsAdded DEF Titles!HandleReviewSubmit
<1>5. ASSUME NEW t \in Tabs, Titles!HandleMenuSubmit(t)
      PROVE  TitlesInv'
  BY <1>3, <1>5, DishIsAdded DEF Titles!HandleMenuSubmit
<1>6. ASSUME NEW t \in Tabs, NEW w \in Titles!Rewards, Titles!HandleRedeem(t, w)
      PROVE  TitlesInv'
  BY <1>3, <1>6, TitleIsTaken DEF Titles!HandleRedeem
<1>7. CASE UNCHANGED Titles!vars
  BY <1>7 DEF Titles!vars, TitlesInv, TitleTypes, HandlersFit
<1> QED BY <1>1, <1>2, <1>4, <1>5, <1>6, <1>7, WriteKeepsTitles DEF Titles!Next

(* Nobody spends points twice, and what a page shows as earned is kept,     *)
(* unless a tab has written over what another one wrote: for any number of  *)
(* tabs, members and reviews (redeemReward, addDemoComment).                *)
THEOREM EarningsAreKept == Titles!Spec => []EarnedIsKept
<1>1. Titles!Init => TitlesInv
  BY TitlesBegin
<1>2. TitlesInv /\ [Titles!Next]_(Titles!vars) => TitlesInv'
  BY TitlesGoOn
<1>3. TitlesInv => EarnedIsKept
  BY TitlesInvIsEnough
<1> QED BY <1>1, <1>2, <1>3, PTL DEF Titles!Spec

-----------------------------------------------------------------------------
(* The sessions that were issued, where own says whose each one is.         *)
IssuedIn(own) == {n \in Session!Tokens : own[n] # Session!Nobody}

IsDoc(d) ==
  d = [at |-> d.at, next |-> d.next, open |-> d.open, shown |-> d.shown, gate |-> d.gate,
       status |-> d.status, known |-> d.known, asked |-> d.asked]

(* What a document asked, it asked with a session that was issued; a page   *)
(* that is mounted asked for itself, and only the admin's home asks its     *)
(* gate without a session.                                                  *)
AskFits(a, at, own) ==
  /\ a = [tok |-> a.tok, kind |-> a.kind, page |-> a.page, mounted |-> a.mounted]
  /\ a.tok \in IssuedIn(own) \cup {0}
  /\ a.mounted /\ a.kind = "gate" => a.page = at
  /\ a.kind = "gate" /\ a.page # "admin" => a.tok # 0

DocFits(d, own) ==
  /\ IsDoc(d)
  /\ \A a \in d.asked : AskFits(a, d.at, own)
  /\ d.open /\ d.at = "admin" => d.shown = Session!Admin

(* What is shown is the stored session's, and so is what the gate of the    *)
(* page will show: on the admin's home at least when it is the admin's.     *)
GateFits(a, n, own) ==
  IF a.page = "admin" THEN own[a.tok] = Session!Admin => own[n] = Session!Admin
  ELSE own[a.tok] = own[n]

ShownFits(d, n, own) ==
  d.next = "none" /\ n # 0 =>
    /\ d.open => own[n] = d.shown
    /\ \A a \in d.asked : a.kind = "gate" /\ a.mounted /\ a.tok # 0 => GateFits(a, n, own)

IsLogin(l) ==
  l = [step |-> l.step, live |-> l.live, name |-> l.name, code |-> l.code, wallet |-> l.wallet,
       nonce |-> l.nonce, account |-> l.account, tok |-> l.tok]

(* A login is for an account, and the admin's form is for the admin's.      *)
LoginFits(c, l, own) ==
  l # Session!Idle =>
    /\ IsLogin(l) /\ l.step # "idle"
    /\ l.step \in {"link", "issue"} => l.account \in Session!Accounts
    /\ l.step = "granted" => l.tok \in IssuedIn(own)
    /\ c = "form" => /\ l.step \in {"password", "issue", "granted"}
                     /\ l.step = "issue" => l.account = Session!Admin
                     /\ l.step = "granted" => own[l.tok] = Session!Admin

TabFits(d, n, ls, own) ==
  /\ DocFits(d, own) /\ n \in IssuedIn(own) \cup {0}
  /\ ls = [c \in Session!Cards |-> ls[c]] /\ \A c \in Session!Cards : LoginFits(c, ls[c], own)

(* The old version's session is there only before anything was opened.      *)
Untouched(d, n) == n = 0 /\ ~d.open /\ d.asked = {}

ServerInv ==
  /\ owner \in [Session!Tokens -> Session!Accounts \cup {Session!Nobody}]
  /\ \E k \in 0..MaxTokens : IssuedIn(owner) = 1..k

TabsInv ==
  /\ doc = [t \in SessionTabs |-> doc[t]] /\ token = [t \in SessionTabs |-> token[t]]
  /\ login = [t \in SessionTabs |-> login[t]]
  /\ \A t \in SessionTabs : /\ TabFits(doc[t], token[t], login[t], owner)
                            /\ t \notin late => ShownFits(doc[t], token[t], owner)

LegacyInv ==
  legacy # 0 => legacy \in IssuedIn(owner) /\ \A t \in SessionTabs : Untouched(doc[t], token[t])

SessionInv == ServerInv /\ TabsInv /\ LegacyInv

-----------------------------------------------------------------------------
(* A step of one tab, which issues no session.                              *)
TabMoves(t, d, n, ls) ==
  /\ doc' = [u \in SessionTabs |-> doc'[u]] /\ doc'[t] = d
  /\ token' = [u \in SessionTabs |-> token'[u]] /\ token'[t] = n
  /\ login' = [u \in SessionTabs |-> login'[u]] /\ login'[t] = ls
  /\ \A u \in SessionTabs \ {t} : doc'[u] = doc[u] /\ token'[u] = token[u] /\ login'[u] = login[u]

LEMMA LateStays == Late => late \subseteq late'
BY DEF Late

LEMMA OneTab ==
  ASSUME SessionInv, NEW t \in SessionTabs, NEW d, NEW n, NEW ls, TabMoves(t, d, n, ls),
         owner' = owner, Late, TabFits(d, n, ls, owner),
         t \notin late' => ShownFits(d, n, owner),
         legacy' = 0 \/ (legacy' = legacy /\ (legacy # 0 => Untouched(d, n)))
  PROVE  SessionInv'
<1>1. ServerInv'
  BY DEF SessionInv, ServerInv, IssuedIn
<1>2. TabsInv'
  <2>1. ASSUME NEW u \in SessionTabs
        PROVE  /\ TabFits(doc'[u], token'[u], login'[u], owner)
               /\ u \notin late' => ShownFits(doc'[u], token'[u], owner)
    <3>1. CASE u = t
      BY <3>1 DEF TabMoves
    <3>2. CASE u # t
      BY <3>2, LateStays DEF TabMoves, SessionInv, TabsInv
    <3> QED BY <3>1, <3>2
  <2> QED BY <2>1 DEF TabMoves, TabsInv
<1>3. LegacyInv'
  <2> SUFFICES ASSUME legacy' # 0
               PROVE  legacy' \in IssuedIn(owner) /\ \A u \in SessionTabs : Untouched(doc'[u], token'[u])
    BY DEF LegacyInv
  <2>1. legacy' = legacy /\ Untouched(d, n)
    OBVIOUS
  <2> QED BY <2>1 DEF TabMoves, SessionInv, LegacyInv
<1> QED BY <1>1, <1>2, <1>3 DEF SessionInv

(* What is known of a tab.                                                  *)
LEMMA TabKnown ==
  ASSUME SessionInv, NEW t \in SessionTabs
  PROVE  /\ TabFits(doc[t], token[t], login[t], owner)
         /\ t \notin late => ShownFits(doc[t], token[t], owner)
         /\ legacy # 0 => Untouched(doc[t], token[t])
         /\ legacy \in IssuedIn(owner) \cup {0} /\ token[t] \in IssuedIn(owner) \cup {0}
BY DEF SessionInv, TabsInv, LegacyInv, TabFits

(* Only the document changes.                                               *)
LEMMA DocMoves ==
  ASSUME SessionInv, NEW t \in SessionTabs, NEW d, doc' = [doc EXCEPT ![t] = d],
         UNCHANGED <<token, legacy, login, owner>>, Late, DocFits(d, owner),
         ShownFits(doc[t], token[t], owner) => ShownFits(d, token[t], owner),
         legacy # 0 => Untouched(d, token[t])
  PROVE  SessionInv'
<1>1. PICK n, ls : n = token[t] /\ ls = login[t]
  OBVIOUS
<1>2. TabMoves(t, d, n, ls)
  BY <1>1 DEF TabMoves, SessionInv, TabsInv
<1>3. TabFits(d, n, ls, owner)
  BY <1>1, TabKnown DEF TabFits
<1>4. t \notin late' => ShownFits(d, n, owner)
  BY <1>1, TabKnown, LateStays
<1>5. legacy' = legacy /\ (legacy # 0 => Untouched(d, n))
  BY <1>1
<1> QED BY <1>2, <1>3, <1>4, <1>5, OneTab

(* Only a login changes.                                                    *)
LEMMA LoginMoves ==
  ASSUME SessionInv, NEW t \in SessionTabs, NEW c \in Session!Cards, NEW l,
         login' = [login EXCEPT ![t][c] = l], LoginFits(c, l, owner),
         UNCHANGED <<token, legacy, doc, owner>>, Late
  PROVE  SessionInv'
<1>1. PICK n, d, ls : n = token[t] /\ d = doc[t] /\ ls = [login[t] EXCEPT ![c] = l]
  OBVIOUS
<1>2. TabMoves(t, d, n, ls)
  BY <1>1 DEF TabMoves, SessionInv, TabsInv
<1>3. TabFits(d, n, ls, owner)
  <2>1. PICK old : old = login[t]
    OBVIOUS
  <2>2. TabFits(d, n, old, owner)
    BY <1>1, <2>1, TabKnown
  <2> QED BY <1>1, <2>1, <2>2 DEF TabFits
<1>4. t \notin late' => ShownFits(d, n, owner)
  BY <1>1, TabKnown, LateStays
<1>5. legacy' = legacy /\ (legacy # 0 => Untouched(d, n))
  BY <1>1, TabKnown
<1> QED BY <1>2, <1>3, <1>4, <1>5, OneTab

(* The tab's session is removed, by a document that opens nothing new.      *)
LEMMA TokenCleared ==
  ASSUME SessionInv, NEW t \in SessionTabs, NEW d, NEW ls, Session!ClearStoredToken(t),
         doc' = [doc EXCEPT ![t] = d], login' = [login EXCEPT ![t] = ls],
         DocFits(d, owner), TabFits(doc[t], 0, ls, owner), owner' = owner, Late
  PROVE  SessionInv'
<1>1. token' = [token EXCEPT ![t] = 0] /\ legacy' = 0
  BY DEF Session!ClearStoredToken, Session!SetStoredToken
<1>2. TabMoves(t, d, 0, ls)
  BY <1>1 DEF TabMoves, SessionInv, TabsInv
<1>3. TabFits(d, 0, ls, owner)
  BY DEF TabFits
<1>4. ShownFits(d, 0, owner)
  BY DEF ShownFits
<1> QED BY <1>1, <1>2, <1>3, <1>4, OneTab

-----------------------------------------------------------------------------
(* Documents that show nothing, and documents that ask for less.            *)
LEMMA FreshDoc ==
  ASSUME NEW p
  PROVE  LET d == Session!Document(p) IN
         IsDoc(d) /\ d.at = p /\ d.next = "none" /\ d.open = FALSE /\ d.asked = {}
<1>1. PICK e, x : e = Session!NoDoc /\ x = Session!Nobody
  OBVIOUS
<1>2. e = [at |-> "none", next |-> "none", open |-> FALSE, shown |-> x, gate |-> "due",
           status |-> "due", known |-> x, asked |-> {}]
  BY <1>1 DEF Session!NoDoc
<1>3. PICK d : d = Session!Document(p)
  OBVIOUS
<1>4. d = [e EXCEPT !.at = p]
  BY <1>1, <1>3 DEF Session!Document
<1>5. d = [at |-> p, next |-> "none", open |-> FALSE, shown |-> x, gate |-> "due",
           status |-> "due", known |-> x, asked |-> {}]
  BY <1>2, <1>4
<1> QED BY <1>3, <1>5 DEF IsDoc

LEMMA FreshDocFits ==
  ASSUME NEW p, NEW own, NEW n
  PROVE  /\ DocFits(Session!Document(p), own) /\ ShownFits(Session!Document(p), n, own)
         /\ ~Session!Document(p).open /\ Session!Document(p).asked = {}
<1>1. PICK d : d = Session!Document(p)
  OBVIOUS
<1>2. IsDoc(d) /\ d.open = FALSE /\ d.asked = {}
  BY <1>1, FreshDoc
<1> QED BY <1>1, <1>2 DEF DocFits, ShownFits

LEMMA MovedDoc ==
  ASSUME NEW d, NEW p
  PROVE  LET e == Session!Moved(d, p) IN
         /\ IsDoc(e) /\ e.at = p /\ e.next = d.next /\ e.open = FALSE
         /\ e.asked = {[a EXCEPT !.mounted = FALSE] : a \in d.asked}
<1>1. PICK e, f, s, x : /\ e = Session!Moved(d, p) /\ f = Session!Document(p) /\ x = d.next
                        /\ s = {[a EXCEPT !.mounted = FALSE] : a \in d.asked}
  OBVIOUS
<1>2. IsDoc(f) /\ f.at = p /\ f.open = FALSE
  BY <1>1, FreshDoc
<1>3. e = [f EXCEPT !.next = x, !.asked = s]
  BY <1>1 DEF Session!Moved
<1>4. IsDoc(e) /\ e.at = p /\ e.next = x /\ e.open = FALSE /\ e.asked = s
  BY <1>2, <1>3 DEF IsDoc
<1> QED BY <1>1, <1>4

LEMMA MovedDocFits ==
  ASSUME NEW d, NEW p, NEW own, NEW n, DocFits(d, own)
  PROVE  /\ DocFits(Session!Moved(d, p), own) /\ ShownFits(Session!Moved(d, p), n, own)
         /\ ~Session!Moved(d, p).open
         /\ d.asked = {} => Session!Moved(d, p).asked = {}
<1>1. PICK e : e = Session!Moved(d, p)
  OBVIOUS
<1>2. /\ IsDoc(e) /\ e.at = p /\ e.next = d.next /\ e.open = FALSE
      /\ e.asked = {[a EXCEPT !.mounted = FALSE] : a \in d.asked}
  BY <1>1, MovedDoc
<1>3. ASSUME NEW b \in e.asked
      PROVE  AskFits(b, p, own) /\ ~b.mounted
  <2>1. PICK a \in d.asked : b = [a EXCEPT !.mounted = FALSE]
    BY <1>2
  <2>2. a = [tok |-> a.tok, kind |-> a.kind, page |-> a.page, mounted |-> a.mounted] /\ AskFits(a, d.at, own)
    BY DEF DocFits, AskFits
  <2>3. /\ b = [tok |-> a.tok, kind |-> a.kind, page |-> a.page, mounted |-> FALSE]
        /\ b.tok = a.tok /\ b.kind = a.kind /\ b.page = a.page /\ b.mounted = FALSE
    BY <2>1, <2>2
  <2> QED BY <2>2, <2>3 DEF AskFits
<1>4. DocFits(e, own) /\ ShownFits(e, n, own)
  BY <1>2, <1>3 DEF DocFits, ShownFits
<1>5. d.asked = {} => e.asked = {}
  BY <1>2
<1> QED BY <1>1, <1>2, <1>4, <1>5

\* Still what it was, with fewer answers to come, or no longer to be looked at.
LEMMA LessAskedFits ==
  ASSUME NEW d, NEW e, NEW own, NEW n, DocFits(d, own), IsDoc(e),
         e.at = d.at, e.open = d.open, e.shown = d.shown, e.asked \subseteq d.asked,
         e.next = "none" => d.next = "none"
  PROVE  /\ DocFits(e, own)
         /\ ShownFits(d, n, own) => ShownFits(e, n, own)
         /\ Untouched(d, n) => Untouched(e, n)
<1>1. DocFits(e, own)
  BY DEF DocFits
<1>2. ShownFits(d, n, own) => ShownFits(e, n, own)
  BY DEF ShownFits
<1>3. Untouched(d, n) => Untouched(e, n)
  BY DEF Untouched
<1> QED BY <1>1, <1>2, <1>3

-----------------------------------------------------------------------------
(* Logins, by themselves.                                                   *)
LEMMA IdleFits == ASSUME NEW c, NEW own PROVE LoginFits(c, Session!Idle, own)
BY DEF LoginFits

LEMMA UnderWayFits ==
  ASSUME NEW c, NEW own, NEW l, LoginFits(c, l, own), l.step # "idle"
  PROVE  IsLogin(l) /\ l # Session!Idle
<1>1. Session!Idle.step = "idle"
  BY DEF Session!Idle
<1> QED BY <1>1 DEF LoginFits

LEMMA AbandonedFits ==
  ASSUME NEW c, NEW own, NEW l, LoginFits(c, l, own), l.step # "idle"
  PROVE  LoginFits(c, [l EXCEPT !.live = FALSE], own)
<1>1. PICK m : m = [l EXCEPT !.live = FALSE]
  OBVIOUS
<1>2. IsLogin(l) /\ l # Session!Idle
  BY UnderWayFits
<1>3. IsLogin(m) /\ m.step = l.step /\ m.account = l.account /\ m.tok = l.tok
  BY <1>1, <1>2 DEF IsLogin
<1> QED BY <1>1, <1>2, <1>3 DEF LoginFits

-----------------------------------------------------------------------------
(* Visits and links.                                                        *)
LEMMA OrphanedFit ==
  ASSUME SessionInv, NEW t \in SessionTabs
  PROVE  \E ls : /\ Session!Orphaned(t) = [login EXCEPT ![t] = ls]
                 /\ ls = [c \in Session!Cards |-> ls[c]]
                 /\ \A c \in Session!Cards : LoginFits(c, ls[c], owner)
<1>1. PICK old : old = login[t]
  OBVIOUS
<1>2. \A c \in Session!Cards : LoginFits(c, old[c], owner)
  BY <1>1, TabKnown DEF TabFits
<1>3. PICK ls : ls = [c \in Session!Cards |->
                       IF old[c].step \in Session!Served THEN [old[c] EXCEPT !.live = FALSE] ELSE Session!Idle]
  OBVIOUS
<1>4. ASSUME NEW c \in Session!Cards
      PROVE  LoginFits(c, ls[c], owner)
  <2>1. CASE old[c].step \in Session!Served
    <3>1. old[c].step # "idle"
      BY <2>1 DEF Session!Served
    <3>2. PICK l, own : l = old[c] /\ own = owner
      OBVIOUS
    <3>3. LoginFits(c, l, own) /\ l.step # "idle" /\ ls[c] = [l EXCEPT !.live = FALSE]
      BY <1>2, <1>3, <2>1, <3>1, <3>2
    <3>4. LoginFits(c, ls[c], own)
      BY <3>3, AbandonedFits
    <3> QED BY <3>2, <3>4
  <2>2. CASE old[c].step \notin Session!Served
    BY <1>3, <2>2, IdleFits
  <2> QED BY <2>1, <2>2
<1>5. Session!Orphaned(t) = [login EXCEPT ![t] = ls]
  BY <1>1, <1>3 DEF Session!Orphaned
<1>6. ls = [c \in Session!Cards |-> ls[c]]
  BY <1>3
<1> QED BY <1>4, <1>5, <1>6

LEMMA VisitKeeps ==
  ASSUME SessionInv, NEW t \in SessionTabs, NEW p, Session!Visit(t, p), Late
  PROVE  SessionInv'
<1>1. PICK d, n, own : d = Session!Document(p) /\ n = token[t] /\ own = owner
  OBVIOUS
<1>2. PICK ls : /\ Session!Orphaned(t) = [login EXCEPT ![t] = ls]
                /\ ls = [c \in Session!Cards |-> ls[c]]
                /\ \A c \in Session!Cards : LoginFits(c, ls[c], owner)
  BY OrphanedFit
<1>3. DocFits(d, own) /\ ShownFits(d, n, own) /\ ~d.open /\ d.asked = {}
  BY <1>1, FreshDocFits
<1>4. doc' = [doc EXCEPT ![t] = d] /\ login' = [login EXCEPT ![t] = ls]
  BY <1>1, <1>2 DEF Session!Visit
<1>5. token' = token /\ legacy' = legacy /\ owner' = owner
  BY DEF Session!Visit, Session!KeepStorage, Session!KeepServer
<1>6. TabMoves(t, d, n, ls)
  BY <1>1, <1>4, <1>5 DEF TabMoves, SessionInv, TabsInv
<1>7. TabFits(d, n, ls, owner)
  BY <1>1, <1>2, <1>3, TabKnown DEF TabFits
<1>8. legacy # 0 => Untouched(d, n)
  BY <1>1, <1>3, TabKnown DEF Untouched
<1> QED BY <1>1, <1>3, <1>5, <1>6, <1>7, <1>8, OneTab

LEMMA FollowKeeps ==
  ASSUME SessionInv, NEW t \in SessionTabs, NEW p, Session!Follow(t, p), Late
  PROVE  SessionInv'
<1>1. PICK d, e, n, own : d = doc[t] /\ e = Session!Moved(d, p) /\ n = token[t] /\ own = owner
  OBVIOUS
<1>2. DocFits(d, own) /\ (legacy # 0 => Untouched(d, n))
  BY <1>1, TabKnown DEF TabFits
<1>3. /\ DocFits(e, own) /\ ShownFits(e, n, own) /\ ~e.open
      /\ d.asked = {} => e.asked = {}
  BY <1>1, <1>2, MovedDocFits
<1>4. doc' = [doc EXCEPT ![t] = e] /\ UNCHANGED <<token, legacy, login, owner>>
  BY <1>1 DEF Session!Follow, Session!KeepStorage, Session!KeepServer
<1>5. legacy # 0 => Untouched(e, n)
  BY <1>2, <1>3 DEF Untouched
<1> QED BY <1>1, <1>3, <1>4, <1>5, DocMoves

LEMMA LogoutKeeps ==
  ASSUME SessionInv, NEW t \in SessionTabs, Session!Logout(t), Late
  PROVE  SessionInv'
<1>1. PICK d, e, ls, own : /\ d = doc[t] /\ own = owner /\ ls = login[t]
                           /\ e = [d EXCEPT !.known = Session!Nobody, !.next = "home"]
  OBVIOUS
<1>2. TabFits(d, token[t], ls, own)
  BY <1>1, TabKnown
<1>3. DocFits(d, own)
  BY <1>2 DEF TabFits
<1>4. IsDoc(e) /\ e.at = d.at /\ e.open = d.open /\ e.shown = d.shown /\ e.asked = d.asked /\ e.next = "home"
  BY <1>1, <1>3 DEF DocFits, IsDoc
<1>5. DocFits(e, own)
  BY <1>3, <1>4 DEF DocFits
<1>6. doc' = [doc EXCEPT ![t] = e]
  BY <1>1 DEF Session!Logout, SessionInv, TabsInv
<1>7. /\ Session!ClearStoredToken(t) /\ login' = [login EXCEPT ![t] = ls] /\ owner' = owner
  BY <1>1 DEF Session!Logout, Session!KeepServer, SessionInv, TabsInv
<1>8. TabFits(d, 0, ls, owner)
  BY <1>1, <1>2 DEF TabFits
<1> QED BY <1>1, <1>5, <1>6, <1>7, <1>8, TokenCleared

-----------------------------------------------------------------------------
(* What a page asks when it is mounted: with the tab's session, or with the *)
(* one of the older version, which it takes over.                           *)
LEMMA AskStarts ==
  ASSUME SessionInv, NEW t \in SessionTabs, NEW d, Session!TakeOver(t),
         doc' = [doc EXCEPT ![t] = d], login' = login, owner' = owner, Late, DocFits(d, owner),
         ShownFits(doc[t], Session!StoredToken(t), owner) => ShownFits(d, Session!StoredToken(t), owner)
  PROVE  SessionInv'
<1>1. PICK n, ls, old : n = Session!StoredToken(t) /\ ls = login[t] /\ old = doc[t]
  OBVIOUS
<1>2. /\ TabFits(old, token[t], ls, owner)
      /\ t \notin late => ShownFits(old, token[t], owner)
      /\ legacy # 0 => Untouched(old, token[t])
      /\ legacy \in IssuedIn(owner) \cup {0}
  BY <1>1, TabKnown
<1>3. token[t] # 0 => legacy = 0 /\ n = token[t]
  BY <1>1, <1>2 DEF Untouched, Session!StoredToken
<1>4. token[t] = 0 => n = legacy
  BY <1>1 DEF Session!StoredToken
<1>5. legacy' = 0 /\ token' = [token EXCEPT ![t] = n]
  BY <1>1, <1>3 DEF Session!TakeOver
<1>6. TabMoves(t, d, n, ls)
  BY <1>1, <1>5 DEF TabMoves, SessionInv, TabsInv
<1>7. TabFits(d, n, ls, owner)
  BY <1>2, <1>3, <1>4 DEF TabFits
<1>8. ASSUME t \notin late'
      PROVE  ShownFits(d, n, owner)
  <2>1. t \notin late
    BY <1>8, LateStays
  <2>2. ShownFits(old, n, owner)
    BY <1>2, <1>3, <1>4, <2>1 DEF ShownFits, Untouched
  <2> QED BY <1>1, <2>2
<1> QED BY <1>5, <1>6, <1>7, <1>8, OneTab

\* One more question, asked with the tab's session by the page that is mounted.
LEMMA OneMoreAskFits ==
  ASSUME NEW d, NEW e, NEW own, NEW n, NEW a, DocFits(d, own), IsDoc(e),
         e.at = d.at, e.open = d.open, e.shown = d.shown, e.next = d.next, e.asked = d.asked \cup {a},
         AskFits(a, d.at, own), a.tok = n
  PROVE  /\ DocFits(e, own)
         /\ ShownFits(d, n, own) => ShownFits(e, n, own)
<1>1. DocFits(e, own)
  BY DEF DocFits
<1>2. ASSUME ShownFits(d, n, own)
      PROVE  ShownFits(e, n, own)
  <2>1. GateFits(a, n, own)
    BY DEF GateFits
  <2> QED BY <1>2, <2>1 DEF ShownFits
<1> QED BY <1>1, <1>2

LEMMA StatusStartsKeeps ==
  ASSUME SessionInv, NEW t \in SessionTabs, Session!StatusStarts(t), Late
  PROVE  SessionInv'
<1>1. PICK d, n, own, a : /\ d = doc[t] /\ own = owner /\ n = Session!StoredToken(t)
                          /\ a = [tok |-> n, kind |-> "status", page |-> d.at, mounted |-> TRUE]
  OBVIOUS
<1>2. DocFits(d, own) /\ IsDoc(d) /\ n \in IssuedIn(own) \cup {0}
  BY <1>1, TabKnown DEF TabFits, DocFits, Session!StoredToken
<1>3. Session!TakeOver(t) /\ login' = login /\ owner' = owner
  BY DEF Session!StatusStarts, Session!KeepServer
<1>4. CASE n = 0
  <2>1. PICK e : e = [d EXCEPT !.status = "done", !.known = Session!Nobody]
    OBVIOUS
  <2>2. doc' = [doc EXCEPT ![t] = e]
    BY <1>1, <1>4, <2>1 DEF Session!StatusStarts, SessionInv, TabsInv
  <2>3. /\ IsDoc(e) /\ e.at = d.at /\ e.open = d.open /\ e.shown = d.shown
        /\ e.asked = d.asked /\ e.next = d.next
    BY <1>2, <2>1 DEF IsDoc
  <2>4. /\ DocFits(e, own)
        /\ ShownFits(d, n, own) => ShownFits(e, n, own)
    BY <1>2, <2>3 DEF DocFits, ShownFits
  <2> QED BY <1>1, <1>3, <2>2, <2>4, AskStarts
<1>5. CASE n # 0
  <2>1. PICK e : e = [d EXCEPT !.asked = d.asked \cup {a}, !.status = "done"]
    OBVIOUS
  <2>2. Session!Ask(t, "status") = a
    BY <1>1 DEF Session!Ask
  <2>3. doc' = [[doc EXCEPT ![t].asked = @ \cup {a}] EXCEPT ![t].status = "done"]
    BY <1>1, <1>5, <2>2 DEF Session!StatusStarts, Session!Asking
  <2>4. doc' = [doc EXCEPT ![t] = e]
    BY <1>1, <2>1, <2>3 DEF SessionInv, TabsInv
  <2>5. /\ IsDoc(e) /\ e.at = d.at /\ e.open = d.open /\ e.shown = d.shown
        /\ e.asked = d.asked \cup {a} /\ e.next = d.next
    BY <1>2, <2>1 DEF IsDoc
  <2>6. a.tok = n /\ AskFits(a, d.at, own)
    BY <1>1, <1>2 DEF AskFits
  <2>7. /\ DocFits(e, own)
        /\ ShownFits(d, n, own) => ShownFits(e, n, own)
    BY <1>2, <2>5, <2>6, OneMoreAskFits
  <2> QED BY <1>1, <1>3, <2>4, <2>7, AskStarts
<1> QED BY <1>4, <1>5

LEMMA GateStartsKeeps ==
  ASSUME SessionInv, NEW t \in SessionTabs, Session!GateStarts(t), Late
  PROVE  SessionInv'
<1>1. PICK d, n, own, a : /\ d = doc[t] /\ own = owner /\ n = Session!StoredToken(t)
                          /\ a = [tok |-> n, kind |-> "gate", page |-> d.at, mounted |-> TRUE]
  OBVIOUS
<1>2. DocFits(d, own) /\ IsDoc(d) /\ n \in IssuedIn(own) \cup {0}
  BY <1>1, TabKnown DEF TabFits, DocFits, Session!StoredToken
<1>3. Session!TakeOver(t) /\ login' = login /\ owner' = owner
  BY DEF Session!GateStarts, Session!KeepServer
<1>4. CASE n = 0 /\ d.at # "admin"
  <2>1. PICK f, e : f = [d EXCEPT !.gate = "done"] /\ e = Session!Moved(f, "home")
    OBVIOUS
  <2>2. doc' = [doc EXCEPT ![t] = e]
    BY <1>1, <1>4, <2>1 DEF Session!GateStarts
  <2>3. IsDoc(f) /\ f.at = d.at /\ f.open = d.open /\ f.shown = d.shown /\ f.asked = d.asked
    BY <1>2, <2>1 DEF IsDoc
  <2>4. DocFits(f, own)
    BY <1>2, <2>3 DEF DocFits
  <2>5. DocFits(e, own) /\ ShownFits(e, n, own)
    BY <2>1, <2>4, MovedDocFits
  <2> QED BY <1>1, <1>3, <2>2, <2>5, AskStarts
<1>5. CASE n # 0 \/ d.at = "admin"
  <2>1. PICK e : e = [d EXCEPT !.asked = d.asked \cup {a}, !.gate = "asked"]
    OBVIOUS
  <2>2. Session!Ask(t, "gate") = a
    BY <1>1 DEF Session!Ask
  <2>3. doc' = [[doc EXCEPT ![t].asked = @ \cup {a}] EXCEPT ![t].gate = "asked"]
    BY <1>1, <1>5, <2>2 DEF Session!GateStarts, Session!Asking
  <2>4. doc' = [doc EXCEPT ![t] = e]
    BY <1>1, <2>1, <2>3 DEF SessionInv, TabsInv
  <2>5. /\ IsDoc(e) /\ e.at = d.at /\ e.open = d.open /\ e.shown = d.shown
        /\ e.asked = d.asked \cup {a} /\ e.next = d.next
    BY <1>2, <2>1 DEF IsDoc
  <2>6. a.tok = n /\ AskFits(a, d.at, own)
    BY <1>1, <1>2, <1>5 DEF AskFits
  <2>7. /\ DocFits(e, own)
        /\ ShownFits(d, n, own) => ShownFits(e, n, own)
    BY <1>2, <2>5, <2>6, OneMoreAskFits
  <2> QED BY <1>1, <1>3, <2>4, <2>7, AskStarts
<1> QED BY <1>4, <1>5

-----------------------------------------------------------------------------
(* Answers.                                                                 *)
LEMMA AnswerIs ==
  ASSUME SessionInv, NEW t \in SessionTabs, NEW a, NEW e, e = Session!Answer(t, a)
  PROVE  /\ IsDoc(e) /\ e.at = doc[t].at /\ e.open = doc[t].open /\ e.shown = doc[t].shown
         /\ e.next = doc[t].next /\ e.asked = doc[t].asked \ {a}
<1>1. PICK d : d = doc[t]
  OBVIOUS
<1>2. IsDoc(d)
  BY <1>1, TabKnown DEF TabFits, DocFits
<1>3. e = [d EXCEPT !.asked = d.asked \ {a}]
  BY <1>1 DEF Session!Answer
<1> QED BY <1>1, <1>2, <1>3 DEF IsDoc

LEMMA AnswerMoves ==
  ASSUME SessionInv, NEW t \in SessionTabs, NEW e, doc' = [doc EXCEPT ![t] = e],
         UNCHANGED <<token, legacy, login, owner>>, Late, IsDoc(e),
         e.at = doc[t].at, e.open = doc[t].open, e.shown = doc[t].shown, e.asked \subseteq doc[t].asked,
         e.next = "none" => doc[t].next = "none"
  PROVE  SessionInv'
<1>1. PICK d, n, own : d = doc[t] /\ n = token[t] /\ own = owner
  OBVIOUS
<1>2. DocFits(d, own) /\ (legacy # 0 => Untouched(d, n))
  BY <1>1, TabKnown DEF TabFits
<1>3. /\ DocFits(e, own)
      /\ ShownFits(d, n, own) => ShownFits(e, n, own)
      /\ Untouched(d, n) => Untouched(e, n)
  BY <1>1, <1>2, LessAskedFits
<1> QED BY <1>1, <1>2, <1>3, DocMoves

LEMMA AnswerLeaves ==
  ASSUME SessionInv, NEW t \in SessionTabs, NEW a \in doc[t].asked, NEW p,
         doc' = [doc EXCEPT ![t] = Session!Moved(Session!Answer(t, a), p)],
         UNCHANGED <<token, legacy, login, owner>>, Late
  PROVE  SessionInv'
<1>1. PICK d, f, e, n, own : /\ d = doc[t] /\ n = token[t] /\ own = owner /\ f = Session!Answer(t, a)
                             /\ e = Session!Moved(f, p)
  OBVIOUS
<1>2. DocFits(d, own) /\ (legacy # 0 => Untouched(d, n))
  BY <1>1, TabKnown DEF TabFits
<1>3. IsDoc(f) /\ f.at = d.at /\ f.open = d.open /\ f.shown = d.shown /\ f.asked = d.asked \ {a}
  BY <1>1, AnswerIs
<1>4. DocFits(f, own)
  BY <1>2, <1>3 DEF DocFits
<1>5. DocFits(e, own) /\ ShownFits(e, n, own)
  BY <1>1, <1>4, MovedDocFits
<1>6. legacy = 0
  BY <1>1, <1>2 DEF Untouched
<1> QED BY <1>1, <1>5, <1>6, DocMoves

(* A page is opened for the account of the session its gate asked with.     *)
LEMMA OpenedFits ==
  ASSUME NEW d, NEW e, NEW own, NEW n, NEW a \in d.asked, DocFits(d, own), IsDoc(e),
         a.kind = "gate", a.mounted, a.tok # 0, a.page = "admin" => own[a.tok] = Session!Admin,
         e.at = d.at, e.open = TRUE, e.shown = own[a.tok], e.next = d.next, e.asked \subseteq d.asked
  PROVE  /\ DocFits(e, own)
         /\ ShownFits(d, n, own) => ShownFits(e, n, own)
<1>1. a.page = d.at
  BY DEF DocFits, AskFits
<1>2. DocFits(e, own)
  BY <1>1 DEF DocFits
<1>3. ASSUME ShownFits(d, n, own), e.next = "none", n # 0
      PROVE  own[n] = e.shown
  <2>1. GateFits(a, n, own)
    BY <1>3 DEF ShownFits
  <2> QED BY <2>1 DEF GateFits
<1> QED BY <1>2, <1>3 DEF ShownFits

LEMMA AnswerOpens ==
  ASSUME SessionInv, NEW t \in SessionTabs, NEW a \in doc[t].asked,
         a.kind = "gate", a.mounted, a.tok # 0, a.page = "admin" => owner[a.tok] = Session!Admin,
         doc' = [doc EXCEPT ![t] = Session!Opened(Session!Answer(t, a), owner[a.tok])],
         UNCHANGED <<token, legacy, login, owner>>, Late
  PROVE  SessionInv'
<1>1. PICK d, f, e, n, own : /\ d = doc[t] /\ n = token[t] /\ own = owner /\ f = Session!Answer(t, a)
                             /\ e = Session!Opened(f, own[a.tok])
  OBVIOUS
<1>2. DocFits(d, own) /\ (legacy # 0 => Untouched(d, n))
  BY <1>1, TabKnown DEF TabFits
<1>3. /\ IsDoc(f) /\ f.at = d.at /\ f.open = d.open /\ f.shown = d.shown /\ f.asked = d.asked \ {a}
      /\ f.next = d.next
  BY <1>1, AnswerIs
<1>4. e = [f EXCEPT !.open = TRUE, !.gate = "done", !.shown = own[a.tok]]
  BY <1>1 DEF Session!Opened
<1>5. /\ IsDoc(e) /\ e.at = d.at /\ e.open = TRUE /\ e.shown = own[a.tok] /\ e.asked = d.asked \ {a}
      /\ e.next = d.next
  BY <1>3, <1>4 DEF IsDoc
<1>6. /\ DocFits(e, own)
      /\ ShownFits(d, n, own) => ShownFits(e, n, own)
  BY <1>1, <1>2, <1>5, OpenedFits
<1>7. legacy = 0
  BY <1>1, <1>2 DEF Untouched
<1> QED BY <1>1, <1>6, <1>7, DocMoves

LEMMA StatusOKKeeps ==
  ASSUME SessionInv, NEW t \in SessionTabs, NEW a, Session!StatusOK(t, a), Late
  PROVE  SessionInv'
<1>1. PICK d, f, e : /\ d = doc[t] /\ f = Session!Answer(t, a)
                     /\ e = IF a.mounted THEN [f EXCEPT !.known = Session!MemberOf(a)] ELSE f
  OBVIOUS
<1>2. doc' = [doc EXCEPT ![t] = e] /\ UNCHANGED <<token, legacy, login, owner>>
  BY <1>1 DEF Session!StatusOK, Session!KeepStorage, Session!KeepServer
<1>3. /\ IsDoc(f) /\ f.at = d.at /\ f.open = d.open /\ f.shown = d.shown /\ f.asked = d.asked \ {a}
      /\ f.next = d.next
  BY <1>1, AnswerIs
<1>4. /\ IsDoc(e) /\ e.at = d.at /\ e.open = d.open /\ e.shown = d.shown /\ e.asked = d.asked \ {a}
      /\ e.next = d.next
  BY <1>1, <1>3 DEF IsDoc
<1> QED BY <1>1, <1>2, <1>4, AnswerMoves

LEMMA StatusFailsKeeps ==
  ASSUME SessionInv, NEW t \in SessionTabs, NEW a, Session!StatusFails(t, a), Late
  PROVE  SessionInv'
<1>1. PICK d, f, e, ls, own : /\ d = doc[t] /\ f = Session!Answer(t, a) /\ ls = login[t] /\ own = owner
                              /\ e = IF a.mounted THEN [f EXCEPT !.known = Session!Nobody] ELSE f
  OBVIOUS
<1>2. doc' = [doc EXCEPT ![t] = e]
  BY <1>1 DEF Session!StatusFails
<1>3. Session!ClearStoredToken(t) /\ login' = [login EXCEPT ![t] = ls] /\ owner' = owner
  BY <1>1 DEF Session!StatusFails, Session!KeepServer, SessionInv, TabsInv
<1>4. /\ IsDoc(f) /\ f.at = d.at /\ f.open = d.open /\ f.shown = d.shown /\ f.asked = d.asked \ {a}
      /\ f.next = d.next
  BY <1>1, AnswerIs
<1>5. /\ IsDoc(e) /\ e.at = d.at /\ e.open = d.open /\ e.shown = d.shown /\ e.asked = d.asked \ {a}
      /\ e.next = d.next
  BY <1>1, <1>4 DEF IsDoc
<1>6. TabFits(d, token[t], ls, own)
  BY <1>1, TabKnown
<1>7. DocFits(e, own) /\ TabFits(d, 0, ls, own)
  BY <1>5, <1>6 DEF DocFits, TabFits
<1> QED BY <1>1, <1>2, <1>3, <1>7, TokenCleared

LEMMA GateOKKeeps ==
  ASSUME SessionInv, NEW t \in SessionTabs, NEW a, Session!GateOK(t, a), Late
  PROVE  SessionInv'
<1>1. PICK to : to = Session!Destination(a.page, Session!MemberOf(a))
  OBVIOUS
<1>2. /\ a \in doc[t].asked /\ a.kind = "gate" /\ a.page \in {"member", "merchant", "console"}
      /\ UNCHANGED <<token, legacy, login, owner>>
  BY DEF Session!GateOK, Session!KeepStorage, Session!KeepServer
<1>3. CASE to # a.page
  <2>1. doc' = [doc EXCEPT ![t] = Session!Moved(Session!Answer(t, a), to)]
    BY <1>1, <1>3 DEF Session!GateOK
  <2> QED BY <1>2, <2>1, AnswerLeaves
<1>4. CASE to = a.page /\ a.mounted
  <2>1. doc' = [doc EXCEPT ![t] = Session!Opened(Session!Answer(t, a), owner[a.tok])]
    BY <1>1, <1>4 DEF Session!GateOK, Session!MemberOf
  <2>2. a.tok # 0
    BY <1>2, TabKnown DEF TabFits, DocFits, AskFits
  <2> QED BY <1>2, <1>4, <2>1, <2>2, AnswerOpens
<1>5. CASE to = a.page /\ ~a.mounted
  <2>1. PICK f : f = Session!Answer(t, a)
    OBVIOUS
  <2>2. doc' = [doc EXCEPT ![t] = f]
    BY <1>1, <1>5, <2>1 DEF Session!GateOK
  <2>3. /\ IsDoc(f) /\ f.at = doc[t].at /\ f.open = doc[t].open /\ f.shown = doc[t].shown
        /\ f.next = doc[t].next /\ f.asked = doc[t].asked \ {a}
    BY <2>1, AnswerIs
  <2> QED BY <1>2, <2>2, <2>3, AnswerMoves
<1> QED BY <1>3, <1>4, <1>5

LEMMA GateFailsKeeps ==
  ASSUME SessionInv, NEW t \in SessionTabs, NEW a, Session!GateFails(t, a), Late
  PROVE  SessionInv'
<1>1. /\ a \in doc[t].asked /\ doc' = [doc EXCEPT ![t] = Session!Moved(Session!Answer(t, a), "home")]
      /\ UNCHANGED <<token, legacy, login, owner>>
  BY DEF Session!GateFails, Session!KeepStorage, Session!KeepServer
<1> QED BY <1>1, AnswerLeaves

LEMMA CheckpointOKKeeps ==
  ASSUME SessionInv, NEW t \in SessionTabs, NEW a, Session!CheckpointOK(t, a), Late
  PROVE  SessionInv'
<1>1. PICK f : f = Session!Answer(t, a)
  OBVIOUS
<1>2. /\ IsDoc(f) /\ f.at = doc[t].at /\ f.open = doc[t].open /\ f.shown = doc[t].shown
      /\ f.next = doc[t].next /\ f.asked = doc[t].asked \ {a}
  BY <1>1, AnswerIs
<1>3. /\ a \in doc[t].asked /\ a.kind = "gate" /\ a.page = "subscribe"
      /\ UNCHANGED <<token, legacy, login, owner>>
  BY DEF Session!CheckpointOK, Session!KeepStorage, Session!KeepServer
<1>4. CASE Session!MemberOf(a) \in subscribed
  <2>1. PICK e : e = [f EXCEPT !.next = "member"]
    OBVIOUS
  <2>2. doc' = [doc EXCEPT ![t] = e]
    BY <1>1, <1>4, <2>1 DEF Session!CheckpointOK
  <2>3. /\ IsDoc(e) /\ e.at = doc[t].at /\ e.open = doc[t].open /\ e.shown = doc[t].shown
        /\ e.next = "member" /\ e.asked = doc[t].asked \ {a}
    BY <1>2, <2>1 DEF IsDoc
  <2> QED BY <1>3, <2>2, <2>3, AnswerMoves
<1>5. CASE Session!MemberOf(a) \notin subscribed /\ a.mounted
  <2>1. doc' = [doc EXCEPT ![t] = Session!Opened(Session!Answer(t, a), owner[a.tok])]
    BY <1>5 DEF Session!CheckpointOK, Session!MemberOf
  <2>2. a.tok # 0
    BY <1>3, TabKnown DEF TabFits, DocFits, AskFits
  <2> QED BY <1>3, <1>5, <2>1, <2>2, AnswerOpens
<1>6. CASE Session!MemberOf(a) \notin subscribed /\ ~a.mounted
  <2>1. doc' = [doc EXCEPT ![t] = f]
    BY <1>1, <1>6 DEF Session!CheckpointOK
  <2> QED BY <1>2, <1>3, <2>1, AnswerMoves
<1> QED BY <1>4, <1>5, <1>6

\* The dashboard's gate: the login form is shown unless the answer is the admin's.
LEMMA DashboardSettles ==
  ASSUME SessionInv, NEW t \in SessionTabs, NEW a \in doc[t].asked,
         UNCHANGED <<token, legacy, login, owner>>, Late,
         \/ doc' = [doc EXCEPT ![t] = Session!Answer(t, a)]
         \/ doc' = [doc EXCEPT ![t] = [Session!Answer(t, a) EXCEPT !.gate = "form"]]
  PROVE  SessionInv'
<1>1. PICK f, e : f = Session!Answer(t, a) /\ e = [f EXCEPT !.gate = "form"]
  OBVIOUS
<1>2. /\ IsDoc(f) /\ f.at = doc[t].at /\ f.open = doc[t].open /\ f.shown = doc[t].shown
      /\ f.next = doc[t].next /\ f.asked = doc[t].asked \ {a}
  BY <1>1, AnswerIs
<1>3. /\ IsDoc(e) /\ e.at = doc[t].at /\ e.open = doc[t].open /\ e.shown = doc[t].shown
      /\ e.next = doc[t].next /\ e.asked = doc[t].asked \ {a}
  BY <1>1, <1>2 DEF IsDoc
<1>4. CASE doc' = [doc EXCEPT ![t] = f]
  BY <1>2, <1>4, AnswerMoves
<1>5. CASE doc' = [doc EXCEPT ![t] = e]
  BY <1>3, <1>5, AnswerMoves
<1> QED BY <1>1, <1>4, <1>5

LEMMA DashboardAnswersKeeps ==
  ASSUME SessionInv, NEW t \in SessionTabs, NEW a, Session!DashboardAnswers(t, a), Late
  PROVE  SessionInv'
<1>1. /\ a \in doc[t].asked /\ a.kind = "gate" /\ a.page = "admin"
      /\ UNCHANGED <<token, legacy, login, owner>>
  BY DEF Session!DashboardAnswers, Session!KeepStorage, Session!KeepServer
<1>2. CASE a.mounted /\ a.tok # 0 /\ owner[a.tok] = Session!Admin
  <2>1. doc' = [doc EXCEPT ![t] = Session!Opened(Session!Answer(t, a), owner[a.tok])]
    BY <1>2 DEF Session!DashboardAnswers, Session!MemberOf
  <2> QED BY <1>1, <1>2, <2>1, AnswerOpens
<1>3. CASE ~(a.mounted /\ a.tok # 0 /\ owner[a.tok] = Session!Admin)
  <2>1. \/ doc' = [doc EXCEPT ![t] = Session!Answer(t, a)]
        \/ doc' = [doc EXCEPT ![t] = [Session!Answer(t, a) EXCEPT !.gate = "form"]]
    BY <1>3 DEF Session!DashboardAnswers, Session!MemberOf
  <2> QED BY <1>1, <2>1, DashboardSettles
<1> QED BY <1>2, <1>3

LEMMA DashboardFailsKeeps ==
  ASSUME SessionInv, NEW t \in SessionTabs, NEW a, Session!DashboardFails(t, a), Late
  PROVE  SessionInv'
<1>1. /\ a \in doc[t].asked /\ UNCHANGED <<token, legacy, login, owner>>
  BY DEF Session!DashboardFails, Session!KeepStorage, Session!KeepServer
<1>2. \/ doc' = [doc EXCEPT ![t] = Session!Answer(t, a)]
      \/ doc' = [doc EXCEPT ![t] = [Session!Answer(t, a) EXCEPT !.gate = "form"]]
  BY DEF Session!DashboardFails
<1> QED BY <1>1, <1>2, DashboardSettles

-----------------------------------------------------------------------------
(* Logins on their way to the server and back.                              *)
LEMMA FreshFits ==
  ASSUME NEW c, NEW own, NEW t, NEW in, NEW s,
         s = "password" \/ (s = "connect" /\ c # "form")
  PROVE  LoginFits(c, Session!Fresh(t, in, s), own)
<1>1. PICK l : l = Session!Fresh(t, in, s)
  OBVIOUS
<1>2. IsLogin(l) /\ l.step = s
  BY <1>1 DEF Session!Fresh, IsLogin
<1> QED BY <1>1, <1>2 DEF LoginFits

LEMMA CardStarts ==
  ASSUME SessionInv, NEW t \in SessionTabs, NEW c \in Session!Cards, NEW l, LoginFits(c, l, owner),
         Session!ClearStoredToken(t), login' = [login EXCEPT ![t][c] = l],
         doc' = doc, owner' = owner, Late
  PROVE  SessionInv'
<1>1. PICK d, old, ls, own : /\ d = doc[t] /\ old = login[t] /\ own = owner
                             /\ ls = [login[t] EXCEPT ![c] = l]
  OBVIOUS
<1>2. TabFits(d, token[t], old, own)
  BY <1>1, TabKnown
<1>3. TabFits(d, 0, ls, own) /\ DocFits(d, own)
  BY <1>1, <1>2 DEF TabFits
<1>4. doc' = [doc EXCEPT ![t] = d] /\ login' = [login EXCEPT ![t] = ls]
  BY <1>1 DEF SessionInv, TabsInv
<1> QED BY <1>1, <1>3, <1>4, TokenCleared

LEMMA StartCardKeeps ==
  ASSUME SessionInv, NEW t \in SessionTabs, NEW c, NEW in, Session!StartCard(t, c, in), Late
  PROVE  SessionInv'
<1>1. PICK l, own : l = Session!Fresh(t, in, "connect") /\ own = owner
  OBVIOUS
<1>2. /\ c \in {"member", "merchant"} /\ login' = [login EXCEPT ![t][c] = l]
      /\ Session!ClearStoredToken(t) /\ doc' = doc /\ owner' = owner
  BY <1>1 DEF Session!StartCard, Session!Starts, Session!KeepServer
<1>3. c \in Session!Cards /\ c # "form"
  BY <1>2 DEF Session!Cards
<1>4. LoginFits(c, l, own)
  BY <1>1, <1>3, FreshFits
<1> QED BY <1>1, <1>2, <1>3, <1>4, CardStarts

LEMMA StartBarKeeps ==
  ASSUME SessionInv, NEW t \in SessionTabs, Session!StartBar(t), Late
  PROVE  SessionInv'
<1>1. PICK in : login' = [login EXCEPT ![t]["bar"] = Session!Fresh(t, in, "connect")]
  BY DEF Session!StartBar, Session!Starts
<1>2. Session!ClearStoredToken(t) /\ doc' = doc /\ owner' = owner /\ "bar" \in Session!Cards
  BY DEF Session!StartBar, Session!KeepServer, Session!Cards
<1>3. PICK l, own : l = Session!Fresh(t, in, "connect") /\ own = owner
  OBVIOUS
<1>4. LoginFits("bar", l, own)
  BY <1>3, FreshFits
<1> QED BY <1>1, <1>2, <1>3, <1>4, CardStarts

LEMMA StartAdminKeeps ==
  ASSUME SessionInv, NEW t \in SessionTabs, Session!StartAdmin(t), Late
  PROVE  SessionInv'
<1>1. PICK in : login' = [login EXCEPT ![t]["admin"] = Session!Fresh(t, in, "password")]
  BY DEF Session!StartAdmin, Session!Starts
<1>2. Session!ClearStoredToken(t) /\ doc' = doc /\ owner' = owner /\ "admin" \in Session!Cards
  BY DEF Session!StartAdmin, Session!KeepServer, Session!Cards
<1>3. PICK l, own : l = Session!Fresh(t, in, "password") /\ own = owner
  OBVIOUS
<1>4. LoginFits("admin", l, own)
  BY <1>3, FreshFits
<1> QED BY <1>1, <1>2, <1>3, <1>4, CardStarts

LEMMA StartFormKeeps ==
  ASSUME SessionInv, NEW t \in SessionTabs, Session!StartForm(t), Late
  PROVE  SessionInv'
<1>1. PICK in : login' = [login EXCEPT ![t]["form"] = Session!Fresh(t, in, "password")]
  BY DEF Session!StartForm, Session!Starts
<1>2. UNCHANGED <<token, legacy, doc, owner>> /\ "form" \in Session!Cards
  BY DEF Session!StartForm, Session!KeepStorage, Session!KeepServer, Session!Cards
<1>3. PICK l, own : l = Session!Fresh(t, in, "password") /\ own = owner
  OBVIOUS
<1>4. LoginFits("form", l, own)
  BY <1>3, FreshFits
<1> QED BY <1>1, <1>2, <1>3, <1>4, LoginMoves

\* The login under way, by its fields.
LEMMA LoginKnown ==
  ASSUME SessionInv, NEW t \in SessionTabs, NEW c \in Session!Cards
  PROVE  /\ LoginFits(c, login[t][c], owner)
         /\ login[t][c].step # "idle" =>
              /\ IsLogin(login[t][c]) /\ login[t][c] # Session!Idle
              /\ c = "form" => login[t][c].step \in {"password", "issue", "granted"}
<1>1. LoginFits(c, login[t][c], owner)
  BY TabKnown DEF TabFits
<1>2. PICK l, own : l = login[t][c] /\ own = owner
  OBVIOUS
<1>3. l.step # "idle" => IsLogin(l) /\ l # Session!Idle
  BY <1>1, <1>2, UnderWayFits
<1> QED BY <1>1, <1>2, <1>3 DEF LoginFits

\* A login that another thing happens to: only its step, wallet, account and
\* challenge change.
LEMMA LoginSteps ==
  ASSUME SessionInv, NEW t \in SessionTabs, NEW c \in Session!Cards, NEW m,
         login' = [login EXCEPT ![t][c] = m], IsLogin(m),
         m.step \in {"challenge", "sign", "read", "delete", "find", "link", "issue", "failed"},
         m.step \in {"link", "issue"} => m.account \in Session!Accounts,
         c = "form" => m.step = "issue" /\ m.account = Session!Admin,
         UNCHANGED <<token, legacy, doc, owner>>, Late
  PROVE  SessionInv'
<1>1. LoginFits(c, m, owner)
  BY DEF LoginFits
<1> QED BY <1>1, LoginMoves

LEMMA LoginEnds ==
  ASSUME SessionInv, NEW t \in SessionTabs, NEW c \in Session!Cards, Session!Ends(t, c),
         UNCHANGED <<token, legacy, doc, owner>>, Late
  PROVE  SessionInv'
<1>1. PICK l, own : l = Session!Idle /\ own = owner
  OBVIOUS
<1>2. LoginFits(c, l, own) /\ login' = [login EXCEPT ![t][c] = l]
  BY <1>1, IdleFits DEF Session!Ends
<1> QED BY <1>1, <1>2, LoginMoves

LEMMA ConnectKeeps ==
  ASSUME SessionInv, NEW t \in SessionTabs, NEW c \in Session!Cards, NEW w, Session!Connect(t, c, w), Late
  PROVE  SessionInv'
<1>1. PICK l, m : l = login[t][c] /\ m = [l EXCEPT !.step = "challenge", !.wallet = w]
  OBVIOUS
<1>2. l.step = "connect" /\ IsLogin(l) /\ c # "form"
  BY <1>1, LoginKnown DEF Session!Connect, Session!At
<1>3. IsLogin(m) /\ m.step = "challenge"
  BY <1>1, <1>2 DEF IsLogin
<1>4. login' = [login EXCEPT ![t][c] = m]
  BY <1>1 DEF Session!Connect, SessionInv, TabsInv, TabFits
<1>5. UNCHANGED <<token, legacy, doc, owner>>
  BY DEF Session!Connect, Session!KeepStorage, Session!KeepServer
<1> QED BY <1>2, <1>3, <1>4, <1>5, LoginSteps

LEMMA RefuseKeeps ==
  ASSUME SessionInv, NEW t \in SessionTabs, NEW c \in Session!Cards, Session!Refuse(t, c), Late
  PROVE  SessionInv'
<1>1. Session!Ends(t, c) /\ UNCHANGED <<token, legacy, doc, owner>>
  BY DEF Session!Refuse, Session!KeepStorage, Session!KeepServer
<1> QED BY <1>1, LoginEnds

LEMMA LoginFailsKeeps ==
  ASSUME SessionInv, NEW t \in SessionTabs, NEW c \in Session!Cards, Session!LoginFails(t, c), Late
  PROVE  SessionInv'
<1>1. Session!Ends(t, c) /\ UNCHANGED <<token, legacy, doc, owner>>
  BY DEF Session!LoginFails, Session!KeepStorage, Session!KeepServer
<1> QED BY <1>1, LoginEnds

LEMMA LoseAnswerKeeps ==
  ASSUME SessionInv, NEW t \in SessionTabs, NEW c \in Session!Cards, Session!LoseAnswer(t, c), Late
  PROVE  SessionInv'
<1>1. PICK l, own : l = login[t][c] /\ own = owner
  OBVIOUS
<1>2. UNCHANGED <<token, legacy, doc, owner>>
  BY DEF Session!LoseAnswer, Session!KeepStorage, Session!KeepServer
<1>3. CASE l.step \in Session!Served
  <2>1. PICK m : m = [l EXCEPT !.live = FALSE]
    OBVIOUS
  <2>2. login' = [login EXCEPT ![t][c] = m]
    BY <1>1, <1>3, <2>1 DEF Session!LoseAnswer, SessionInv, TabsInv, TabFits
  <2>3. l.step # "idle" /\ LoginFits(c, l, own)
    BY <1>1, <1>3, LoginKnown DEF Session!Served
  <2>4. LoginFits(c, m, own)
    BY <2>1, <2>3, AbandonedFits
  <2> QED BY <1>1, <1>2, <2>2, <2>4, LoginMoves
<1>4. CASE l.step \notin Session!Served
  <2>1. Session!Ends(t, c)
    BY <1>1, <1>4 DEF Session!LoseAnswer, Session!Ends, SessionInv, TabsInv, TabFits
  <2> QED BY <1>2, <2>1, LoginEnds
<1> QED BY <1>3, <1>4

\* A step that changes nothing of a login but where it is, and maybe its challenge.
LEMMA LoginStepKeeps ==
  ASSUME SessionInv, NEW t \in SessionTabs, NEW c \in Session!Cards, NEW s,
         login[t][c].step \notin {"idle", "password", "issue", "granted"},
         s \in {"sign", "read", "delete", "find", "failed", "issue"},
         s = "issue" => login[t][c].step = "link",
         \/ login' = [login EXCEPT ![t][c].step = s]
         \/ \E n : login' = [login EXCEPT ![t][c].step = s, ![t][c].nonce = n],
         UNCHANGED <<token, legacy, doc, owner>>, Late
  PROVE  SessionInv'
<1>1. PICK l, own : l = login[t][c] /\ own = owner
  OBVIOUS
<1>2. IsLogin(l) /\ c # "form" /\ LoginFits(c, l, own) /\ l # Session!Idle
  BY <1>1, LoginKnown
<1>3. s = "issue" => l.account \in Session!Accounts
  BY <1>1, <1>2 DEF LoginFits
<1>4. PICK n : \/ login' = [login EXCEPT ![t][c].step = s]
               \/ login' = [login EXCEPT ![t][c].step = s, ![t][c].nonce = n]
  OBVIOUS
<1>5. PICK m : /\ m = [l EXCEPT !.step = s] \/ m = [l EXCEPT !.step = s, !.nonce = n]
               /\ login' = [login EXCEPT ![t][c] = m]
  <2>1. PICK x, y : x = [l EXCEPT !.step = s] /\ y = [l EXCEPT !.step = s, !.nonce = n]
    OBVIOUS
  <2>2. \/ login' = [login EXCEPT ![t][c] = x]
        \/ login' = [login EXCEPT ![t][c] = y]
    BY <1>1, <1>4, <2>1 DEF SessionInv, TabsInv, TabFits
  <2> QED BY <2>1, <2>2
<1>6. IsLogin(m) /\ m.step = s /\ m.account = l.account
  BY <1>2, <1>5 DEF IsLogin
<1> QED BY <1>2, <1>3, <1>5, <1>6, LoginSteps

LEMMA StartWalletAuthKeeps ==
  ASSUME SessionInv, NEW t \in SessionTabs, NEW c \in Session!Cards, Session!StartWalletAuth(t, c), Late
  PROVE  SessionInv'
<1>1. /\ login[t][c].step = "challenge"
      /\ login' = [login EXCEPT ![t][c].step = "sign", ![t][c].nonce = nonce + 1]
      /\ UNCHANGED <<token, legacy, doc, owner>>
  BY DEF Session!StartWalletAuth, Session!At, Session!KeepStorage
<1> QED BY <1>1, LoginStepKeeps

LEMMA SignatureKeeps ==
  ASSUME SessionInv, NEW t \in SessionTabs, NEW c \in Session!Cards, Session!Sign(t, c), Late
  PROVE  SessionInv'
<1>1. /\ login[t][c].step = "sign" /\ login' = [login EXCEPT ![t][c].step = "read"]
      /\ UNCHANGED <<token, legacy, doc, owner>>
  BY DEF Session!Sign, Session!At, Session!Step, Session!KeepStorage, Session!KeepServer
<1> QED BY <1>1, LoginStepKeeps

LEMMA ReadChallengeKeeps ==
  ASSUME SessionInv, NEW t \in SessionTabs, NEW c \in Session!Cards, Session!ReadChallenge(t, c), Late
  PROVE  SessionInv'
<1>1. PICK s : s = IF challenge[login[t][c].wallet] = login[t][c].nonce THEN "delete" ELSE "failed"
  OBVIOUS
<1>2. /\ login[t][c].step = "read" /\ login' = [login EXCEPT ![t][c].step = s]
      /\ UNCHANGED <<token, legacy, doc, owner>>
  BY <1>1 DEF Session!ReadChallenge, Session!At, Session!Step, Session!KeepStorage, Session!KeepServer
<1> QED BY <1>1, <1>2, LoginStepKeeps

LEMMA ExpiredChallengeKeeps ==
  ASSUME SessionInv, NEW t \in SessionTabs, NEW c \in Session!Cards, Session!ExpiredChallenge(t, c), Late
  PROVE  SessionInv'
<1>1. /\ login[t][c].step = "read" /\ login' = [login EXCEPT ![t][c].step = "failed"]
      /\ UNCHANGED <<token, legacy, doc, owner>>
  BY DEF Session!ExpiredChallenge, Session!At, Session!Step, Session!KeepStorage
<1> QED BY <1>1, LoginStepKeeps

LEMMA DeleteChallengeKeeps ==
  ASSUME SessionInv, NEW t \in SessionTabs, NEW c \in Session!Cards, Session!DeleteChallenge(t, c), Late
  PROVE  SessionInv'
<1>1. /\ login[t][c].step = "delete" /\ login' = [login EXCEPT ![t][c].step = "find"]
      /\ UNCHANGED <<token, legacy, doc, owner>>
  BY DEF Session!DeleteChallenge, Session!At, Session!Step, Session!KeepStorage
<1> QED BY <1>1, LoginStepKeeps

LEMMA LinkWalletKeeps ==
  ASSUME SessionInv, NEW t \in SessionTabs, NEW c \in Session!Cards, Session!LinkWallet(t, c), Late
  PROVE  SessionInv'
<1>1. PICK s : /\ s \in {"issue", "failed"}
               /\ login[t][c].step = "link" /\ login' = [login EXCEPT ![t][c].step = s]
               /\ UNCHANGED <<token, legacy, doc, owner>>
  BY DEF Session!LinkWallet, Session!At, Session!Step, Session!KeepStorage
<1> QED BY <1>1, LoginStepKeeps

\* An account that has the wallet, or one that is registered now.
LEMMA FindMemberKeeps ==
  ASSUME SessionInv, NEW t \in SessionTabs, NEW c \in Session!Cards, Session!FindMember(t, c), Late
  PROVE  SessionInv'
<1>1. PICK l : l = login[t][c]
  OBVIOUS
<1>2. l.step = "find" /\ IsLogin(l) /\ c # "form"
  BY <1>1, LoginKnown DEF Session!FindMember, Session!At
<1>3. UNCHANGED <<token, legacy, doc, owner>>
  BY DEF Session!FindMember, Session!KeepStorage
<1>4. ASSUME NEW s \in {"issue", "link"}, NEW n \in 1..MaxMembers,
             login' = [login EXCEPT ![t][c].step = s, ![t][c].account = n]
      PROVE  SessionInv'
  <2>1. PICK m : m = [l EXCEPT !.step = s, !.account = n]
    OBVIOUS
  <2>2. login' = [login EXCEPT ![t][c] = m]
    BY <1>1, <1>4, <2>1 DEF SessionInv, TabsInv, TabFits
  <2>3. IsLogin(m) /\ m.step = s /\ m.account = n
    BY <1>2, <2>1 DEF IsLogin
  <2>4. n \in Session!Accounts
    BY SessionAssumption DEF Session!ConstantsOK, Session!Accounts
  <2> QED BY <1>2, <1>3, <2>2, <2>3, <2>4, LoginSteps
<1>5. CASE \E n \in Session!WithWallet(l.wallet) :
             login' = [login EXCEPT ![t][c].step = "issue", ![t][c].account = n]
  <2>1. Session!WithWallet(l.wallet) \subseteq 1..MaxMembers
    BY DEF Session!WithWallet, Session!Created
  <2> QED BY <1>4, <1>5, <2>1
<1>6. CASE Session!Step(t, c, "failed")
  <2>1. login' = [login EXCEPT ![t][c].step = "failed"]
    BY <1>6 DEF Session!Step
  <2> QED BY <1>1, <1>2, <1>3, <2>1, LoginStepKeeps
<1>7. CASE LET m == Cardinality(Session!Created) + 1 IN
             /\ m <= MaxMembers
             /\ login' = [login EXCEPT ![t][c].step = "link", ![t][c].account = m]
  <2>1. IsFiniteSet(1..MaxMembers)
    BY SessionAssumption, FS_Interval DEF Session!ConstantsOK
  <2>2. Session!Created \subseteq 1..MaxMembers
    BY DEF Session!Created
  <2>3. Cardinality(Session!Created) \in Nat
    BY <2>1, <2>2, FS_Subset, FS_CardinalityType
  <2>4. Cardinality(Session!Created) + 1 \in 1..MaxMembers
    BY <1>7, <2>3, SessionAssumption DEF Session!ConstantsOK
  <2> QED BY <1>4, <1>7, <2>4
<1>8. \/ \E n \in Session!WithWallet(l.wallet) :
            login' = [login EXCEPT ![t][c].step = "issue", ![t][c].account = n]
      \/ Session!Step(t, c, "failed")
      \/ LET m == Cardinality(Session!Created) + 1 IN
            /\ m <= MaxMembers
            /\ login' = [login EXCEPT ![t][c].step = "link", ![t][c].account = m]
  <2>1. PICK k : k = Cardinality(Session!Created) + 1
    OBVIOUS
  <2>2. Session!Cardinality(Session!Created) = Cardinality(Session!Created)
    BY DEF Session!Cardinality, Cardinality
  <2>3. \/ \E n \in Session!WithWallet(l.wallet) :
             login' = [login EXCEPT ![t][c].step = "issue", ![t][c].account = n]
        \/ Session!Step(t, c, "failed")
        \/ /\ k <= MaxMembers
           /\ login' = [login EXCEPT ![t][c].step = "link", ![t][c].account = k]
    BY <1>1, <2>1, <2>2 DEF Session!FindMember
  <2> QED BY <2>1, <2>3
<1> QED BY <1>5, <1>6, <1>7, <1>8

LEMMA PasswordLoginKeeps ==
  ASSUME SessionInv, NEW t \in SessionTabs, NEW c \in Session!Cards, Session!PasswordLogin(t, c), Late
  PROVE  SessionInv'
<1>1. PICK l, m : l = login[t][c] /\ m = [l EXCEPT !.step = "issue", !.account = Session!Admin]
  OBVIOUS
<1>2. l.step = "password" /\ IsLogin(l)
  BY <1>1, LoginKnown DEF Session!PasswordLogin, Session!At
<1>3. IsLogin(m) /\ m.step = "issue" /\ m.account = Session!Admin
  BY <1>1, <1>2 DEF IsLogin
<1>4. login' = [login EXCEPT ![t][c] = m]
  BY <1>1 DEF Session!PasswordLogin, SessionInv, TabsInv, TabFits
<1>5. UNCHANGED <<token, legacy, doc, owner>>
  BY DEF Session!PasswordLogin, Session!KeepStorage, Session!KeepServer
<1>6. Session!Admin \in Session!Accounts
  BY SessionAssumption DEF Session!ConstantsOK, Session!Admin, Session!Accounts
<1> QED BY <1>3, <1>4, <1>5, <1>6, LoginSteps

-----------------------------------------------------------------------------
(* A session is issued: its number is new, so that what was stored, asked   *)
(* or granted before keeps its owner.                                       *)
Extends(own, own2) == IssuedIn(own) \subseteq IssuedIn(own2) /\ \A n \in IssuedIn(own) : own2[n] = own[n]

LEMMA DocKeepsFitting ==
  ASSUME NEW own, NEW own2, Extends(own, own2), NEW d, NEW n, DocFits(d, own), n \in IssuedIn(own) \cup {0}
  PROVE  /\ DocFits(d, own2)
         /\ ShownFits(d, n, own) => ShownFits(d, n, own2)
<1>1. DocFits(d, own2)
  BY DEF DocFits, AskFits, Extends
<1>2. ASSUME ShownFits(d, n, own), d.next = "none", n # 0
      PROVE  /\ d.open => own2[n] = d.shown
             /\ \A a \in d.asked : a.kind = "gate" /\ a.mounted /\ a.tok # 0 => GateFits(a, n, own2)
  <2>1. own2[n] = own[n]
    BY <1>2 DEF Extends
  <2>2. ASSUME NEW a \in d.asked, a.kind = "gate", a.mounted, a.tok # 0
        PROVE  GateFits(a, n, own2)
    <3>1. GateFits(a, n, own)
      BY <1>2, <2>2 DEF ShownFits
    <3>2. own2[a.tok] = own[a.tok]
      BY <2>2 DEF DocFits, AskFits, Extends
    <3> QED BY <2>1, <3>1, <3>2 DEF GateFits
  <2>3. d.open => own2[n] = d.shown
    BY <1>2, <2>1 DEF ShownFits
  <2> QED BY <2>2, <2>3
<1> QED BY <1>1, <1>2 DEF ShownFits

LEMMA LoginKeepsFitting ==
  ASSUME NEW own, NEW own2, Extends(own, own2), NEW c, NEW l, LoginFits(c, l, own)
  PROVE  LoginFits(c, l, own2)
BY DEF LoginFits, Extends

LEMMA NextIsNew ==
  ASSUME SessionInv, NEW n, n = Cardinality(Session!Issued) + 1, n <= MaxTokens
  PROVE  /\ n \in Session!Tokens \ IssuedIn(owner)
         /\ \E k \in 0..MaxTokens : IssuedIn(owner) \cup {n} = 1..k
<1>1. PICK k \in 0..MaxTokens : IssuedIn(owner) = 1..k
  BY DEF SessionInv, ServerInv
<1>2. k \in Nat /\ MaxTokens \in Nat
  BY SessionAssumption DEF Session!ConstantsOK
<1>3. Session!Issued = 1..k
  BY <1>1 DEF Session!Issued, IssuedIn
<1>4. Cardinality(1..k) = k
  BY <1>2, FS_Interval
<1>5. n = k + 1
  BY <1>3, <1>4
<1>6. n \in Session!Tokens \ IssuedIn(owner)
  BY <1>1, <1>2, <1>5 DEF Session!Tokens
<1>7. IssuedIn(owner) \cup {n} = 1..(k + 1) /\ k + 1 \in 0..MaxTokens
  BY <1>1, <1>2, <1>5
<1> QED BY <1>6, <1>7

LEMMA CreateSessionKeeps ==
  ASSUME SessionInv, NEW t \in SessionTabs, NEW c \in Session!Cards, Session!CreateSession(t, c), Late
  PROVE  SessionInv'
<1>1. PICK n, l, own : n = Cardinality(Session!Issued) + 1 /\ l = login[t][c] /\ own = owner
  OBVIOUS
<1>2. PICK own2 : own2 = [own EXCEPT ![n] = l.account]
  OBVIOUS
<1>3. PICK m : m = [l EXCEPT !.step = "granted", !.tok = n]
  OBVIOUS
<1>4. /\ l.step = "issue" /\ n <= MaxTokens /\ owner' = own2
      /\ login' = [login EXCEPT ![t][c].step = "granted", ![t][c].tok = n]
      /\ UNCHANGED <<token, legacy, doc>>
  <2>1. Session!Cardinality(Session!Issued) = Cardinality(Session!Issued)
    BY DEF Session!Cardinality, Cardinality
  <2> QED BY <1>1, <1>2, <2>1 DEF Session!CreateSession, Session!At, Session!KeepStorage
<1>5. /\ n \in Session!Tokens \ IssuedIn(own)
      /\ \E k \in 0..MaxTokens : IssuedIn(own) \cup {n} = 1..k
  BY <1>1, <1>4, NextIsNew
<1>6. LoginFits(c, l, own) /\ IsLogin(l) /\ l # Session!Idle /\ own \in [Session!Tokens -> Session!Accounts \cup {Session!Nobody}]
  BY <1>1, <1>4, LoginKnown DEF SessionInv, ServerInv
<1>7. l.account \in Session!Accounts /\ (c = "form" => l.account = Session!Admin)
  BY <1>4, <1>6 DEF LoginFits
<1>8. Session!Nobody \notin Session!Accounts
  BY SessionAssumption DEF Session!ConstantsOK, Session!Nobody, Session!Accounts
<1>9. /\ own2 \in [Session!Tokens -> Session!Accounts \cup {Session!Nobody}]
      /\ own2[n] = l.account /\ \A i \in Session!Tokens \ {n} : own2[i] = own[i]
  BY <1>2, <1>5, <1>6, <1>7
<1>10. IssuedIn(own2) = IssuedIn(own) \cup {n} /\ Extends(own, own2)
  BY <1>5, <1>7, <1>8, <1>9 DEF IssuedIn, Extends
<1>11. ServerInv'
  BY <1>4, <1>5, <1>9, <1>10 DEF ServerInv
<1>12. LoginFits(c, m, own2)
  <2>1. IsLogin(m) /\ m.step = "granted" /\ m.tok = n
    BY <1>3, <1>6 DEF IsLogin
  <2> QED BY <2>1, <1>7, <1>9, <1>10 DEF LoginFits
<1>13. login' = [login EXCEPT ![t][c] = m]
  BY <1>1, <1>3, <1>4 DEF SessionInv, TabsInv, TabFits
<1>14. TabsInv'
  <2>1. ASSUME NEW u \in SessionTabs
        PROVE  /\ TabFits(doc[u], token[u], login'[u], own2)
               /\ u \notin late' => ShownFits(doc[u], token[u], own2)
    <3>1. PICK d, i, ls : d = doc[u] /\ i = token[u] /\ ls = login[u]
      OBVIOUS
    <3>2. /\ TabFits(d, i, ls, own)
          /\ u \notin late' => ShownFits(d, i, own)
      BY <1>1, <3>1, TabKnown, LateStays
    <3>3. /\ DocFits(d, own2)
          /\ ShownFits(d, i, own) => ShownFits(d, i, own2)
      BY <1>10, <3>2, DocKeepsFitting DEF TabFits
    <3>4. PICK ls2 : ls2 = login'[u]
      OBVIOUS
    <3>5. /\ ls2 = [b \in Session!Cards |-> ls2[b]]
          /\ \A b \in Session!Cards : ls2[b] = ls[b] \/ (b = c /\ ls2[b] = m)
      <4>1. ls = [b \in Session!Cards |-> ls[b]]
        BY <3>2 DEF TabFits
      <4>2. u = t => ls2 = [ls EXCEPT ![c] = m]
        BY <1>13, <3>1, <3>4 DEF SessionInv, TabsInv
      <4>3. u # t => ls2 = ls
        BY <1>13, <3>1, <3>4 DEF SessionInv, TabsInv
      <4>4. CASE u = t
        BY <4>1, <4>2, <4>4
      <4>5. CASE u # t
        BY <4>1, <4>3, <4>5
      <4> QED BY <4>4, <4>5
    <3>6. ASSUME NEW b \in Session!Cards
          PROVE  LoginFits(b, ls2[b], own2)
      <4>1. CASE ls2[b] = ls[b]
        <5>1. PICK x : x = ls[b]
          OBVIOUS
        <5>2. LoginFits(b, x, own)
          BY <3>2, <5>1 DEF TabFits
        <5>3. LoginFits(b, x, own2)
          BY <1>10, <5>2, LoginKeepsFitting
        <5> QED BY <4>1, <5>1, <5>3
      <4>2. CASE b = c /\ ls2[b] = m
        BY <1>12, <4>2
      <4> QED BY <3>5, <4>1, <4>2
    <3>7. i \in IssuedIn(own2) \cup {0}
      BY <1>10, <3>2 DEF TabFits
    <3>8. TabFits(d, i, ls2, own2)
      BY <3>3, <3>5, <3>6, <3>7 DEF TabFits
    <3> QED BY <3>1, <3>2, <3>3, <3>4, <3>8
  <2>2. login' = [u \in SessionTabs |-> login'[u]]
    BY <1>13 DEF SessionInv, TabsInv
  <2> QED BY <1>4, <2>1, <2>2 DEF TabsInv, SessionInv
<1>15. LegacyInv'
  <2>1. IssuedIn(own) \subseteq IssuedIn(own2)
    BY <1>10
  <2> QED BY <1>1, <1>4, <2>1 DEF LegacyInv, SessionInv
<1> QED BY <1>11, <1>14, <1>15 DEF SessionInv

-----------------------------------------------------------------------------
(* The session is stored.                                                   *)
LEMMA TokenStored ==
  ASSUME SessionInv, NEW t \in SessionTabs, NEW c \in Session!Cards, NEW d, NEW n,
         login[t][c].step = "granted", n = login[t][c].tok,
         Session!SetStoredToken(t, n), Session!Ends(t, c), doc' = [doc EXCEPT ![t] = d],
         owner' = owner, Late, DocFits(d, owner),
         t \notin late' => ShownFits(d, n, owner)
  PROVE  SessionInv'
<1>1. PICK old, l, own : old = login[t] /\ l = login[t][c] /\ own = owner
  OBVIOUS
<1>2. PICK ls : ls = [old EXCEPT ![c] = Session!Idle]
  OBVIOUS
<1>3. TabFits(doc[t], token[t], old, own) /\ LoginFits(c, l, own) /\ l # Session!Idle
  BY <1>1, TabKnown, LoginKnown
<1>4. n \in IssuedIn(own)
  BY <1>1, <1>3 DEF LoginFits
<1>5. /\ ls = [b \in Session!Cards |-> ls[b]]
      /\ \A b \in Session!Cards : ls[b] = old[b] \/ ls[b] = Session!Idle
  BY <1>2, <1>3 DEF TabFits
<1>6. \A b \in Session!Cards : LoginFits(b, ls[b], own)
  BY <1>3, <1>5, IdleFits DEF TabFits
<1>7. TabFits(d, n, ls, own)
  BY <1>1, <1>4, <1>5, <1>6 DEF TabFits
<1>8. token' = [token EXCEPT ![t] = n] /\ legacy' = 0 /\ login' = [login EXCEPT ![t] = ls]
  BY <1>1, <1>2 DEF Session!SetStoredToken, Session!Ends, SessionInv, TabsInv
<1>9. TabMoves(t, d, n, ls)
  BY <1>8 DEF TabMoves, SessionInv, TabsInv
<1> QED BY <1>1, <1>7, <1>8, <1>9, OneTab

\* By a card or the bar: the document is told to go elsewhere.
LEMMA LoggedInKeeps ==
  ASSUME SessionInv, NEW t \in SessionTabs, NEW c \in Session!Cards, Session!LoggedIn(t, c), Late
  PROVE  SessionInv'
<1>1. PICK d, n, own : d = doc[t] /\ n = login[t][c].tok /\ own = owner
  OBVIOUS
<1>2. PICK to : to = CASE c = "admin" -> "admin" [] c = "merchant" -> "merchant"
                       [] OTHER -> Session!HomeOf(login[t][c].account)
  OBVIOUS
<1>3. to # "none"
  BY <1>2 DEF Session!HomeOf
<1>4. /\ login[t][c].step = "granted" /\ Session!SetStoredToken(t, n) /\ Session!Ends(t, c) /\ owner' = owner
      /\ doc' = [doc EXCEPT ![t].next = to, ![t].known = IF c = "bar" THEN login[t][c].account ELSE @]
  BY <1>1, <1>2 DEF Session!LoggedIn, Session!At, Session!KeepServer
<1>5. PICK x, e : /\ x = IF c = "bar" THEN login[t][c].account ELSE d.known
                  /\ e = [d EXCEPT !.next = to, !.known = x]
  OBVIOUS
<1>6. DocFits(d, own)
  BY <1>1, TabKnown DEF TabFits
<1>7. /\ IsDoc(e) /\ e.at = d.at /\ e.open = d.open /\ e.shown = d.shown /\ e.next = to
      /\ e.asked = d.asked
  BY <1>5, <1>6 DEF DocFits, IsDoc
<1>8. doc' = [doc EXCEPT ![t] = e]
  BY <1>1, <1>4, <1>5, <1>6 DEF SessionInv, TabsInv, DocFits, IsDoc
<1>9. DocFits(e, own) /\ ShownFits(e, n, own)
  BY <1>3, <1>6, <1>7 DEF DocFits, ShownFits
<1> QED BY <1>1, <1>4, <1>8, <1>9, TokenStored

\* By the admin's form: the page stays, and what it shows is the admin's; or it
\* was left meanwhile, and the tab is late.
LEMMA FormLoggedInKeeps ==
  ASSUME SessionInv, NEW t \in SessionTabs, Session!FormLoggedIn(t), Late
  PROVE  SessionInv'
<1>1. PICK d, n, own, l : d = doc[t] /\ l = login[t]["form"] /\ n = l.tok /\ own = owner
  OBVIOUS
<1>2. "form" \in Session!Cards
  BY DEF Session!Cards
<1>3. /\ l.step = "granted" /\ Session!SetStoredToken(t, n) /\ Session!Ends(t, "form") /\ owner' = owner
      /\ doc' = IF d.at = "admin" THEN [doc EXCEPT ![t].gate = "due"] ELSE doc
  BY <1>1 DEF Session!FormLoggedIn, Session!At, Session!KeepServer
<1>4. LoginFits("form", l, own) /\ l # Session!Idle
  BY <1>1, <1>2, <1>3, LoginKnown
<1>5. own[n] = Session!Admin
  BY <1>1, <1>3, <1>4 DEF LoginFits
<1>6. DocFits(d, own)
  BY <1>1, TabKnown DEF TabFits
<1>7. CASE d.at = "admin"
  <2>1. PICK e : e = [d EXCEPT !.gate = "due"]
    OBVIOUS
  <2>2. /\ IsDoc(e) /\ e.at = d.at /\ e.open = d.open /\ e.shown = d.shown /\ e.next = d.next
        /\ e.asked = d.asked
    BY <1>6, <2>1 DEF DocFits, IsDoc
  <2>3. doc' = [doc EXCEPT ![t] = e]
    BY <1>1, <1>3, <1>7, <2>1 DEF SessionInv, TabsInv
  <2>4. DocFits(e, own)
    BY <1>6, <2>2 DEF DocFits
  <2>5. ASSUME NEW a \in e.asked, a.kind = "gate", a.mounted
        PROVE  GateFits(a, n, own)
    <3>1. a.page = "admin"
      BY <1>6, <1>7, <2>2, <2>5 DEF DocFits, AskFits
    <3> QED BY <1>5, <3>1 DEF GateFits
  <2>6. e.open => e.shown = Session!Admin
    BY <1>6, <1>7, <2>2 DEF DocFits
  <2>7. ShownFits(e, n, own)
    BY <1>5, <2>5, <2>6 DEF ShownFits
  <2> QED BY <1>1, <1>2, <1>3, <2>3, <2>4, <2>7, TokenStored
<1>8. CASE d.at # "admin"
  <2>1. doc' = [doc EXCEPT ![t] = d]
    BY <1>1, <1>3, <1>8 DEF SessionInv, TabsInv
  <2>2. token' = [token EXCEPT ![t] = n]
    BY <1>3 DEF Session!SetStoredToken
  <2>3. token'[t] = n
    BY <2>2 DEF SessionInv, TabsInv
  <2>4. login'[t]["form"] = Session!Idle
    BY <1>2, <1>3, TabKnown DEF Session!Ends, SessionInv, TabsInv, TabFits
  <2>5. ASSUME t \notin late'
        PROVE  ShownFits(d, n, own)
    <3>1. ~StoresLate(t) /\ t \notin late
      BY <2>5 DEF Late
    <3>2. token[t] = n
      BY <1>1, <1>4, <1>8, <2>3, <2>4, <3>1 DEF StoresLate
    <3> QED BY <1>1, <3>1, <3>2, TabKnown
  <2> QED BY <1>1, <1>2, <1>3, <1>6, <2>1, <2>5, TokenStored
<1> QED BY <1>7, <1>8

-----------------------------------------------------------------------------
(* The rest leaves the sessions and the pages alone.                        *)
LEMMA TabsRest ==
  ASSUME SessionInv, UNCHANGED <<token, legacy, doc, login, owner>>, late \subseteq late'
  PROVE  SessionInv'
<1>1. ServerInv' /\ LegacyInv'
  BY DEF SessionInv, ServerInv, LegacyInv
<1>2. TabsInv'
  BY DEF SessionInv, TabsInv
<1> QED BY <1>1, <1>2 DEF SessionInv

LEMMA ChangesKeep ==
  ASSUME SessionInv, NEW t \in SessionTabs, Session!Changes(t), Late
  PROVE  SessionInv'
<1>1. UNCHANGED <<token, legacy, doc, login, owner>>
  BY DEF Session!Changes, Session!ChangeWallet, Session!UnlinkWallet, Session!SubscriptionChanges,
         Session!KeepStorage
<1> QED BY <1>1, LateStays, TabsRest

LEMMA BrowsesKeep ==
  ASSUME SessionInv, NEW t \in SessionTabs, Session!Browses(t), Late
  PROVE  SessionInv'
BY VisitKeeps, FollowKeeps, LogoutKeeps DEF Session!Browses

LEMMA SignsInKeeps ==
  ASSUME SessionInv, NEW t \in SessionTabs, Session!SignsIn(t), Late
  PROVE  SessionInv'
BY StartCardKeeps, StartBarKeeps, StartAdminKeeps, StartFormKeeps, RefuseKeeps, SignatureKeeps, ConnectKeeps
   DEF Session!SignsIn

LEMMA ServesKeep ==
  ASSUME SessionInv, NEW t \in SessionTabs, NEW c \in Session!Cards, Session!Serve(t, c), Late
  PROVE  SessionInv'
BY StartWalletAuthKeeps, ReadChallengeKeeps, ExpiredChallengeKeeps, DeleteChallengeKeeps, FindMemberKeeps,
   LinkWalletKeeps, CreateSessionKeeps, PasswordLoginKeeps DEF Session!Serve

LEMMA WorksKeep ==
  ASSUME SessionInv, NEW t \in SessionTabs, Session!Works(t), Late
  PROVE  SessionInv'
<1>1. CASE Session!Unload(t)
  BY <1>1, VisitKeeps DEF Session!Unload
<1>2. CASE Session!Mounts(t)
  BY <1>2, StatusStartsKeeps, GateStartsKeeps DEF Session!Mounts
<1>3. ASSUME NEW a \in doc[t].asked, Session!AnswerOK(t, a)
      PROVE  SessionInv'
  BY <1>3, StatusOKKeeps, GateOKKeeps, CheckpointOKKeeps, DashboardAnswersKeeps DEF Session!AnswerOK
<1>4. ASSUME NEW c \in Session!Cards, Session!Serve(t, c) \/ Session!Returns(t, c)
      PROVE  SessionInv'
  BY <1>4, ServesKeep, LoggedInKeeps, LoginFailsKeeps, FormLoggedInKeeps DEF Session!Returns
<1> QED BY <1>1, <1>2, <1>3, <1>4 DEF Session!Works

LEMMA BreaksKeep ==
  ASSUME SessionInv, NEW t \in SessionTabs, Session!Breaks(t), Late
  PROVE  SessionInv'
BY StatusFailsKeeps, GateFailsKeeps, DashboardFailsKeeps, LoseAnswerKeeps
   DEF Session!Breaks, Session!AnswerFails

LEMMA SessionGoesOn == SessionInv /\ [Session!Next /\ Late]_<<Session!vars, late>> => SessionInv'
<1> SUFFICES ASSUME SessionInv, [Session!Next /\ Late]_<<Session!vars, late>>
             PROVE  SessionInv'
  OBVIOUS
<1>1. CASE UNCHANGED <<Session!vars, late>>
  BY <1>1, TabsRest DEF Session!vars
<1>2. CASE Session!Next /\ Late
  BY <1>2, BrowsesKeep, ChangesKeep, SignsInKeeps, WorksKeep, BreaksKeep DEF Session!Next
<1> QED BY <1>1, <1>2

LEMMA SessionBegins == Session!Init => SessionInv
<1> SUFFICES ASSUME Session!Init PROVE SessionInv
  OBVIOUS
<1>1. PICK d, n, own : d = Session!Document("home") /\ n = 0 /\ own = owner
  OBVIOUS
<1>2. PICK ls : ls = [c \in Session!Cards |-> Session!Idle]
  OBVIOUS
<1>3. DocFits(d, own) /\ ShownFits(d, n, own) /\ ~d.open /\ d.asked = {}
  BY <1>1, FreshDocFits
<1>4. TabFits(d, n, ls, own)
  BY <1>1, <1>2, <1>3, IdleFits DEF TabFits
<1>5. \A t \in SessionTabs : doc[t] = d /\ token[t] = n /\ login[t] = ls
  BY <1>1, <1>2 DEF Session!Init
<1>6. TabsInv
  <2>1. /\ doc = [t \in SessionTabs |-> doc[t]] /\ token = [t \in SessionTabs |-> token[t]]
        /\ login = [t \in SessionTabs |-> login[t]]
    BY DEF Session!Init
  <2> QED BY <1>1, <1>3, <1>4, <1>5, <2>1 DEF TabsInv
<1>7. MaxTokens \in Nat \ {0} /\ MaxMembers \in Nat \ {0}
  BY SessionAssumption DEF Session!ConstantsOK
<1>8. legacy \in {0, 1} /\ owner = [i \in Session!Tokens |-> IF i = legacy THEN Session!Admin ELSE Session!Nobody]
  BY DEF Session!Init
<1>9. Session!Admin \in Session!Accounts /\ Session!Admin # Session!Nobody
  BY <1>7 DEF Session!Admin, Session!Accounts, Session!Nobody
<1>10. IssuedIn(owner) = 1..legacy
  BY <1>7, <1>8, <1>9 DEF IssuedIn, Session!Tokens
<1>11. ServerInv
  BY <1>7, <1>8, <1>9, <1>10 DEF ServerInv
<1>12. LegacyInv
  BY <1>1, <1>3, <1>5, <1>8, <1>10 DEF LegacyInv, Untouched
<1> QED BY <1>6, <1>11, <1>12 DEF SessionInv

LEMMA SessionInvIsEnough == SessionInv => ShownIsOwner
BY DEF SessionInv, TabsInv, ShownFits, ShownIsOwner

(* What a page shows is shown to the account of its tab's session, for any  *)
(* number of tabs, accounts and sessions and however logins, logouts,       *)
(* failures and answers overlap; the admin's form that stores its session   *)
(* after its page was left is the exception (session-gate.tsx,              *)
(* login-panel.tsx, app-nav.tsx).                                           *)
THEOREM ShownIsAlwaysOwner == SessionRuns => []ShownIsOwner
<1>1. Session!Init => SessionInv
  BY SessionBegins
<1>2. SessionInv /\ [Session!Next /\ Late]_<<Session!vars, late>> => SessionInv'
  BY SessionGoesOn
<1>3. SessionInv => ShownIsOwner
  BY SessionInvIsEnough
<1> QED BY <1>1, <1>2, <1>3, PTL DEF SessionRuns

(* The run of TLC is one of them.                                           *)
LEMMA SessionSpecRuns == SessionSpec => SessionRuns
<1>1. SessionInit => Session!Init /\ late = {}
  BY DEF SessionInit
<1>2. [SessionNext]_<<Session!vars, events, logins, late>> => [Session!Next /\ Late]_<<Session!vars, late>>
  BY DEF SessionNext, Session!Next
<1> QED BY <1>1, <1>2, PTL DEF SessionSpec, SessionRuns
=============================================================================

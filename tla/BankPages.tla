----------------------------- MODULE BankPages ------------------------------
(* The mobile banking demo: one browser tab over the routes of BankApi.       *)
(* Leaving a page inside the application unmounts it: setState is dropped, but *)
(* what its callbacks do to localStorage and to the router still happens.     *)
(* Opening a URL loads the application afresh and forgets all callbacks.      *)
EXTENDS BankApi

CONSTANTS Scenes  \* what a behaviour starts with and how far it may go

Tables == {"users", "accounts", "transactions", "beneficiaries", "tickets", "cards", "logs",
           "loans", "payments", "settings"}

\* A database as the schema and earlier requests leave it: ids are unique and not
\* those of requests to come, and nobody has registered without getting an account.
Sound(d) ==
  /\ DOMAIN d = Tables
  /\ IsFiniteSet(d.users) /\ IsFiniteSet(d.accounts) /\ IsFiniteSet(d.transactions)
  /\ \A u \in d.users :
       /\ DOMAIN u = {"owner", "email", "phone"}
       /\ u.owner \notin Nat
       /\ \E a \in d.accounts : a.owner = u.owner
       /\ \A v \in d.users : u.email = v.email => u.owner = v.owner
  /\ \A a \in d.accounts :
       /\ DOMAIN a = {"id", "owner", "balance"}
       /\ a.id \notin Nat /\ a.id # Undefined /\ a.balance \in Int
       /\ \A b \in d.accounts : a.id = b.id => a = b
  /\ \A t \in d.transactions :
       DOMAIN t = {"id", "from", "to", "amount"} /\ t.id \notin Nat /\ t.amount \in Int
  /\ \A c \in d.cards : "account" \in DOMAIN c
  /\ \A p \in d.payments : "loan" \in DOMAIN p
  /\ \A r \in d.beneficiaries \cup d.tickets \cup d.logs \cup d.loans \cup d.settings :
       "owner" \in DOMAIN r
  /\ \A r \in d.beneficiaries \cup d.tickets : r.id \notin Nat

\* No callback is no callback of any kind.
ASSUME CallbacksAssumption == None \notin {"answer", "load", "left"}

\* Amounts are numbers.
ASSUME ScenesAssumption ==
  \A s \in Scenes :
    /\ Sound(s.db) /\ s.faults \in Nat /\ s.amounts \subseteq Int
    /\ \A r \in s.direct : r.route = "POST/transfer" => r.body.amount \in Int

VARIABLES
  scene,          \* the scene of this behaviour
  tab             \* the tab: localStorage's token, the page, its timers

vars == <<apiVars, scene, tab>>

-----------------------------------------------------------------------------
(* Pages.                                                                    *)

\* navItems of the side bar.
NavItems == {"dashboard", "accounts", "transactions", "cards", "beneficiaries", "loans", "profile"}
AuthPages == {"login", "register"}
Dashboards == NavItems \cup {"support", "transfer"}
Pages == {"landing"} \cup AuthPages \cup Dashboards

\* What the effect of a page fetches when it is mounted.
Fetches(name) ==
  CASE name = "dashboard" -> <<"GET/stats", "GET/accounts">>
    [] name = "accounts" -> <<"GET/accounts">>
    [] name = "transactions" -> <<"GET/transactions">>
    [] name = "cards" -> <<"GET/cards">>
    [] name = "beneficiaries" -> <<"GET/beneficiaries">>
    [] name = "loans" -> <<"GET/loans">>
    [] name = "profile" -> <<"GET/profile", "GET/security-logs", "GET/settings">>
    [] name = "support" -> <<"GET/support">>
    [] name = "transfer" -> <<"GET/accounts", "GET/beneficiaries">>
    [] OTHER -> <<>>

ListWrites == {"POST/beneficiaries", "DELETE/beneficiaries", "POST/support"}

\* The requests whose effects tear what a page reads.
Rivals(name) == IF name = "dashboard" THEN {"POST/transfer"} ELSE ListWrites

\* The state of a page that has just been mounted. `data` is the one record or
\* list the page cannot do without, `list` what it lists, `more` a second list.
\* Ghosts: `overlap`, a rival is under way meanwhile; `opened`, how many requests
\* had been sent and what could still fail when the page was opened.
Mounted(name) ==
  [name |-> name, loading |-> name \in Dashboards \ {"transfer"}, data |-> None,
   list |-> {}, more |-> {}, settings |-> {}, open |-> FALSE, error |-> FALSE,
   success |-> FALSE,
   overlap |-> \E i \in DOMAIN calls : Pending(i) /\ calls[i].route \in Rivals(name),
   opened |-> [calls |-> Len(calls), faults |-> faults]]

\* What a page shows: nothing yet, nothing at all, an error in place of the whole
\* application, or answer rows and things to click.
Spinner == [kind |-> "spinner", rows |-> {}, offers |-> {}]
Blank == [kind |-> "blank", rows |-> {}, offers |-> {}]
Crashed == [kind |-> "crashed", rows |-> {}, offers |-> {}]
Shows(rows, offers) == [kind |-> "page", rows |-> rows, offers |-> offers]

\* Both bars link to pages; the bottom bar to the first five of them.
SideNav == NavItems
BottomNav == NavItems \ {"loans", "profile"}
Layout == SideNav \cup BottomNav

LandingView == Shows({}, {"login", "register"})

\* The form's button is disabled while a request is under way.
LoginView(p) == Shows({}, {"register"} \cup (IF p.loading THEN {} ELSE {"sign-in"}))
RegisterView(p) == Shows({}, {"login"} \cup (IF p.loading THEN {} ELSE {"sign-up"}))

OrZero(v) == IF v = Undefined \/ v = None THEN 0 ELSE v

\* What the cards of the dashboard say: a balance or a sum, 0 without one.
AccountCard(x) == [row |-> x.row, star |-> x.star, balance |-> OrZero(Field(x, "balance"))]
StatCard(sums, f) == OrZero(sums[f])

DashboardView(p) ==
  IF p.loading THEN Spinner
  ELSE IF p.data = None THEN Blank
  ELSE Shows({AccountCard(a) : a \in p.list} \cup p.more, {"transfer", "accounts", "transactions"})

AccountsView(p) == IF p.loading THEN Spinner ELSE Shows({AccountCard(a) : a \in p.list}, {})

\* The list behind the search and type filters, which the effect recomputes.
TransactionsView(p) == IF p.loading THEN Spinner ELSE Shows(p.list, {})

\* The last digits are cut from a number that SELECT * rows do not have under
\* its plain name.
CardsView(p) ==
  IF p.loading THEN Spinner
  ELSE IF \E x \in p.list : Field(x, "number") = Undefined THEN Crashed
  ELSE Shows(p.list, {})

\* Everything that would fail on missing columns is behind status = 'Active'.
LoansView(p) ==
  LET active == {x \in p.list : Field(x, "active") = TRUE} IN
  IF p.loading THEN Spinner
  ELSE Shows(p.list, IF active = {} THEN {} ELSE {"make-payment"})

BeneficiariesView(p) ==
  IF p.loading THEN Spinner
  ELSE Shows(p.list, {"open"} \cup (IF p.open THEN {"add"} ELSE {})
                              \cup (IF p.list = {} THEN {} ELSE {"delete"}))

SupportView(p) ==
  IF p.loading THEN Spinner
  ELSE Shows(p.list, {"open"} \cup (IF p.open THEN {"submit"} ELSE {}))

\* The security tab asks what device_info includes, once for every log.
ProfileView(p) ==
  IF p.loading THEN Spinner
  ELSE IF p.data = None THEN Blank
  ELSE IF \E x \in p.more : Field(x, "device") = Undefined THEN Crashed
  ELSE Shows({p.data} \cup p.more, {"logout", "setting"} \cup IF p.open THEN {"save", "cancel"} ELSE {"edit"})

TransferView(p) ==
  IF p.success THEN Shows({}, {"transactions"})
  ELSE Shows(p.list \cup p.more, {"fill-in"} \cup IF p.loading THEN {} ELSE {"send"})

View(p) ==
  CASE p.name = "landing" -> LandingView
    [] p.name = "login" -> LoginView(p)
    [] p.name = "register" -> RegisterView(p)
    [] p.name = "dashboard" -> DashboardView(p)
    [] p.name = "accounts" -> AccountsView(p)
    [] p.name = "transactions" -> TransactionsView(p)
    [] p.name = "cards" -> CardsView(p)
    [] p.name = "loans" -> LoansView(p)
    [] p.name = "beneficiaries" -> BeneficiariesView(p)
    [] p.name = "support" -> SupportView(p)
    [] p.name = "profile" -> ProfileView(p)
    [] p.name = "transfer" -> TransferView(p)

Offers(what) == what \in View(tab.page).offers

\* Links of the page and, around the pages of the dashboard, of the layout.
Links ==
  LET view == View(tab.page) IN
  (view.offers \cap Pages) \cup
    (IF tab.page.name \in Dashboards /\ view.kind # "crashed" THEN Layout ELSE {})

-----------------------------------------------------------------------------
(* Sending requests and going from page to page.                             *)

Budget(n) == Len(calls) + n <= scene.calls

Auth(c) == c.route \in {"POST/register", "POST/login"}

\* The callbacks of a page that is left; those of the two forms still sign in.
Unmount(c) ==
  [c EXCEPT !.then = IF Auth(c) /\ @ # None THEN "left" ELSE None]

\* authFetch reads the token when the request is made.
AuthFetch(route, body) == Request(route, tab.token, body, "answer", tab.page.list)

Send(request) == calls' = Append(calls, request)

MountBeforeToken(name, t, cs) ==
  /\ tab' = [t EXCEPT !.page = Mounted(name), !.crossed = FALSE]
  /\ calls' = [i \in DOMAIN cs |-> Unmount(cs[i])]
              \o [k \in DOMAIN Fetches(name) |->
                    Request(Fetches(name)[k], tab.token, None, "load", {})]
\* Page `name` takes the place of the present one in tab t.
Mount(name, t, cs) ==
  /\ tab' = [t EXCEPT !.page = Mounted(name), !.crossed = FALSE]
  /\ calls' = [i \in DOMAIN cs |-> Unmount(cs[i])]
              \o [k \in DOMAIN Fetches(name) |->
                    Request(Fetches(name)[k], t.token, None, "load", {})]

\* router.push: nothing is mounted again when the path stays the same.
Push(name, t, cs) ==
  IF t.page.name = name THEN tab' = t /\ calls' = cs ELSE Mount(name, t, cs)

Follow(name) ==
  /\ name \in Links \cap scene.pages
  /\ Budget(Len(Fetches(name)))
  /\ Push(name, tab, calls)
  /\ name # tab.page.name
  /\ UNCHANGED <<db, faults, scene>>

\* A URL is typed or reloaded: timers and callbacks are gone with the old document.
Open(name) ==
  /\ name \in scene.urls
  /\ Budget(Len(Fetches(name)))
  /\ Mount(name, [tab EXCEPT !.timers = 0], [i \in DOMAIN calls |-> [calls[i] EXCEPT !.then = None]])
  /\ UNCHANGED <<db, faults, scene>>

-----------------------------------------------------------------------------
(* What the user does on a page.                                             *)

Stays == UNCHANGED <<db, faults, scene>>

SubmitLogin ==
  /\ Offers("sign-in") /\ tab.page.name = "login" /\ Budget(1)
  /\ \E email \in scene.emails :
       Send(Request("POST/login", None, [email |-> email], "answer", {}))
  /\ tab' = [tab EXCEPT !.page.loading = TRUE, !.page.error = FALSE]
  /\ Stays

\* Passwords that differ are an error of the form; otherwise it is sent.
SubmitRegister ==
  /\ Offers("sign-up") /\ tab.page.name = "register"
  /\ \/ /\ tab' = [tab EXCEPT !.page.error = TRUE]
        /\ UNCHANGED calls
     \/ /\ Budget(1)
        /\ \E email \in scene.emails, phone \in scene.phones :
             Send(Request("POST/register", None, [email |-> email, phone |-> phone], "answer", {}))
        /\ tab' = [tab EXCEPT !.page.loading = TRUE, !.page.error = FALSE]
  /\ Stays

\* The dialog of beneficiaries and tickets, and the edit mode of the profile.
Toggle ==
  /\ \/ Offers("open")
     \/ Offers("edit")
     \/ Offers("cancel")
  /\ tab' = [tab EXCEPT !.page.open = ~@]
  /\ UNCHANGED calls
  /\ Stays

\* Ghost: a write that starts before the answer to another one has been applied.
Busy == \E i \in DOMAIN calls : calls[i].then = "answer"

AddBeneficiary ==
  /\ Offers("add") /\ Budget(1)
  /\ Send(AuthFetch("POST/beneficiaries", [complete |-> TRUE]))
  /\ tab' = [tab EXCEPT !.page.overlap = @ \/ Busy]
  /\ Stays

RemoveBeneficiary ==
  /\ Offers("delete") /\ Budget(1)
  /\ \E x \in tab.page.list : Send(AuthFetch("DELETE/beneficiaries", [id |-> Field(x, "id")]))
  /\ tab' = [tab EXCEPT !.page.overlap = @ \/ Busy]
  /\ Stays

CreateTicket ==
  /\ Offers("submit") /\ Budget(1)
  /\ Send(AuthFetch("POST/support", [complete |-> TRUE]))
  /\ tab' = [tab EXCEPT !.page.overlap = @ \/ Busy]
  /\ Stays

SaveProfile ==
  /\ Offers("save") /\ Budget(1)
  /\ \E email \in scene.emails, phone \in scene.phones :
       Send(AuthFetch("PUT/profile", [email |-> email, phone |-> phone]))
  /\ UNCHANGED tab
  /\ Stays

\* Whether a switch is on: a SELECT * row is no setting of that name.
GetSetting(settings, name) ==
  \E s \in settings : Field(s, "name") = name /\ Field(s, "value") = TRUE

ChangeSetting ==
  /\ Offers("setting") /\ Budget(1)
  /\ Send([AuthFetch("PUT/settings", [complete |-> TRUE, name |-> "alerts",
                                       value |-> ~GetSetting(tab.page.settings, "alerts")])
             EXCEPT !.seen = tab.page.settings])
  /\ UNCHANGED tab
  /\ Stays

Logout ==
  /\ Offers("logout")
  /\ Push("login", [tab EXCEPT !.token = None], calls)
  /\ Stays

\* The account is one of the list or none; the number is typed, or taken from a
\* beneficiary, whose SELECT * row has none.
SubmitTransfer ==
  /\ Offers("send") /\ Budget(1)
  /\ \E from \in {x.row.id : x \in tab.page.list} \cup {None},
        to \in scene.numbers \cup {Field(x, "number") : x \in tab.page.more},
        amount \in scene.amounts :
       Send(AuthFetch("POST/transfer", [from |-> from, to |-> to, amount |-> amount]))
  /\ tab' = [tab EXCEPT !.page.loading = TRUE, !.page.error = FALSE]
  /\ Stays

\* Any other client of the routes, with the token of one of the users.
OtherClient ==
  /\ Budget(1)
  /\ \E r \in scene.direct : Send(Request(r.route, r.user, r.body, None, {}))
  /\ UNCHANGED tab
  /\ Stays

-----------------------------------------------------------------------------
(* What the answers do.                                                      *)

Forget(i) == [calls EXCEPT ![i].at = "done", ![i].then = None, ![i].seen = {},
                           ![i].answer = NoAnswer]

Waiting == {i \in DOMAIN calls : calls[i].then = "load"}
Got(route) == calls[CHOOSE i \in Waiting : calls[i].route = route].answer
Ok(route) == Got(route).status = 200
RowsIf(route, old) == IF Ok(route) THEN Got(route).rows ELSE old

\* The dashboard needs both answers; the other pages keep what they have when an
\* answer is not a success.
DashboardLoaded(p) ==
  IF Ok("GET/stats") /\ Ok("GET/accounts")
  THEN [p EXCEPT !.data = Got("GET/stats").sums, !.list = Got("GET/accounts").rows,
                 !.more = Got("GET/stats").rows]
  ELSE p

AccountsLoaded(p) == [p EXCEPT !.list = RowsIf("GET/accounts", @)]
TransactionsLoaded(p) == [p EXCEPT !.list = RowsIf("GET/transactions", @)]
CardsLoaded(p) == [p EXCEPT !.list = RowsIf("GET/cards", @)]
LoansLoaded(p) == [p EXCEPT !.list = RowsIf("GET/loans", @)]
BeneficiariesLoaded(p) == [p EXCEPT !.list = RowsIf("GET/beneficiaries", @)]
SupportLoaded(p) == [p EXCEPT !.list = RowsIf("GET/support", @)]
TransferLoaded(p) == [p EXCEPT !.list = RowsIf("GET/accounts", @),
                               !.more = RowsIf("GET/beneficiaries", @)]
ProfileLoaded(p) ==
  [p EXCEPT !.data = IF Ok("GET/profile") THEN CHOOSE x \in Got("GET/profile").rows : TRUE ELSE @,
            !.more = RowsIf("GET/security-logs", @),
            !.settings = RowsIf("GET/settings", @)]

Loaded(p) ==
  CASE p.name = "dashboard" -> DashboardLoaded(p)
    [] p.name = "accounts" -> AccountsLoaded(p)
    [] p.name = "transactions" -> TransactionsLoaded(p)
    [] p.name = "cards" -> CardsLoaded(p)
    [] p.name = "loans" -> LoansLoaded(p)
    [] p.name = "beneficiaries" -> BeneficiariesLoaded(p)
    [] p.name = "support" -> SupportLoaded(p)
    [] p.name = "profile" -> ProfileLoaded(p)
    [] p.name = "transfer" -> TransferLoaded(p)

LoadingDoneWithRows(p) == IF p.list = {} THEN p ELSE [p EXCEPT !.loading = FALSE]
\* The finally of the effect; the transfer page has none.
LoadingDone(p) == IF p.name = "transfer" THEN p ELSE [p EXCEPT !.loading = FALSE]

\* Promise.all: all answers are in, or the first failed connection ends the wait.
LoadAnswered ==
  /\ Waiting # {}
  /\ \/ /\ \A i \in Waiting : calls[i].at = "answered" /\ calls[i].answer # Unreachable
        /\ tab' = [tab EXCEPT !.page = LoadingDone(Loaded(@))]
        /\ calls' = [i \in DOMAIN calls |-> IF i \in Waiting THEN Forget(i)[i] ELSE calls[i]]
     \/ /\ \E i \in Waiting : calls[i].answer = Unreachable
        /\ tab' = [tab EXCEPT !.page = LoadingDone(@)]
        /\ calls' = [i \in DOMAIN calls |->
                       IF i \in Waiting THEN [calls[i] EXCEPT !.then = None] ELSE calls[i]]
  /\ Stays

Answered(i, route) == calls[i].at = "answered" /\ calls[i].then # None /\ calls[i].route = route
Succeeded(i) == calls[i].answer.status = 200

\* handleLogin and handleRegister: the token is stored and the dashboard opened
\* even when the form is no longer there.
SignedIn(i) ==
  LET user == CHOOSE x \in calls[i].answer.rows : TRUE IN
  /\ Answered(i, "POST/login") \/ Answered(i, "POST/register")
  /\ IF Succeeded(i)
     THEN Push("dashboard", [tab EXCEPT !.token = Field(user, "owner"), !.crossed = TRUE], Forget(i))
     ELSE /\ tab' = IF calls[i].then = "answer"
                    THEN [tab EXCEPT !.page.loading = FALSE, !.page.error = TRUE]
                    ELSE tab
          /\ calls' = Forget(i)
  /\ Stays

\* Answers to what a page has sent: nothing happens unless it is a success, and
\* the new list is made from the one captured when the request was sent.
BeneficiaryAdded(i) ==
  /\ Answered(i, "POST/beneficiaries")
  /\ tab' = IF Succeeded(i)
            THEN [tab EXCEPT !.page.list = calls[i].seen \cup calls[i].answer.rows, !.page.open = FALSE]
            ELSE tab
  /\ calls' = Forget(i)
  /\ Stays

BeneficiaryDeleted(i) ==
  /\ Answered(i, "DELETE/beneficiaries")
  /\ tab' = IF Succeeded(i)
            THEN [tab EXCEPT !.page.list = {x \in calls[i].seen : Field(x, "id") # calls[i].body.id}]
            ELSE tab
  /\ calls' = Forget(i)
  /\ Stays

TicketCreatedAlone(i) ==
  /\ Answered(i, "POST/support")
  /\ tab' = IF Succeeded(i)
            THEN [tab EXCEPT !.page.list = calls[i].answer.rows, !.page.open = FALSE]
            ELSE tab
  /\ calls' = Forget(i)
  /\ Stays
TicketCreated(i) ==
  /\ Answered(i, "POST/support")
  /\ tab' = IF Succeeded(i)
            THEN [tab EXCEPT !.page.list = calls[i].answer.rows \cup calls[i].seen, !.page.open = FALSE]
            ELSE tab
  /\ calls' = Forget(i)
  /\ Stays


ProfileSaved(i) ==
  /\ Answered(i, "PUT/profile")
  /\ tab' = IF Succeeded(i)
            THEN [tab EXCEPT !.page.data = CHOOSE x \in calls[i].answer.rows : TRUE, !.page.open = FALSE]
            ELSE tab
  /\ calls' = Forget(i)
  /\ Stays

\* The answer is not looked at; only a failed connection leaves the list alone.
SettingChanged(i) ==
  LET changed(s) == IF Field(s, "name") = calls[i].body.name
                    THEN [s EXCEPT !.row.value = calls[i].body.value] ELSE s
  IN
  /\ Answered(i, "PUT/settings")
  /\ tab' = IF calls[i].answer # Unreachable
            THEN [tab EXCEPT !.page.settings = {changed(s) : s \in calls[i].seen}]
            ELSE tab
  /\ calls' = Forget(i)
  /\ Stays

\* A success starts the timer that opens the list of transactions.
TransferAnswered(i) ==
  /\ Answered(i, "POST/transfer")
  /\ tab' = IF Succeeded(i)
            THEN [tab EXCEPT !.page.loading = FALSE, !.page.success = TRUE, !.timers = @ + 1]
            ELSE [tab EXCEPT !.page.loading = FALSE, !.page.error = TRUE]
  /\ calls' = Forget(i)
  /\ Stays

\* The timer is not cleared when the page is left.
TimerFires ==
  /\ tab.timers > 0
  /\ Push("transactions", [tab EXCEPT !.timers = @ - 1], calls)
  /\ Stays

\* A request or its answer is lost between the tab and the routes.
ConnectionFails(i) ==
  /\ calls[i].then # None
  /\ calls[i].at \in {"sent", "answered"} /\ calls[i].answer # Unreachable
  /\ AnswerWith(i, Unreachable)
  /\ Fault
  /\ UNCHANGED <<db, tab, scene>>

-----------------------------------------------------------------------------

Init ==
  /\ scene \in Scenes
  /\ db = scene.db
  /\ calls = <<>>
  /\ faults = scene.faults
  /\ tab = [token |-> scene.token, page |-> Mounted("landing"), timers |-> 0, crossed |-> FALSE]

Serve == \E i \in DOMAIN calls : Handle(i) /\ UNCHANGED <<scene, tab>>

Callback ==
  \/ LoadAnswered
  \/ TimerFires
  \/ \E i \in DOMAIN calls :
       \/ SignedIn(i)
       \/ BeneficiaryAdded(i) \/ BeneficiaryDeleted(i) \/ TicketCreated(i)
       \/ ProfileSaved(i) \/ SettingChanged(i) \/ TransferAnswered(i)

User ==
  \/ \E name \in Pages : Follow(name) \/ Open(name)
  \/ SubmitLogin \/ SubmitRegister \/ Toggle
  \/ AddBeneficiary \/ RemoveBeneficiary \/ CreateTicket
  \/ SaveProfile \/ ChangeSetting \/ Logout \/ SubmitTransfer

Next ==
  \/ Serve
  \/ Callback
  \/ User
  \/ OtherClient
  \/ \E i \in DOMAIN calls : ConnectionFails(i)

Fairness == WF_vars(Serve) /\ WF_vars(Callback)

Spec == Init /\ [][Next]_vars /\ Fairness

-----------------------------------------------------------------------------
(* Properties.                                                               *)

\* What a transfer under way has done to account id so far.
InFlight(c, id) ==
  IF c.route # "POST/transfer" THEN 0
  ELSE (IF c.at \in {"add", "record"} /\ id = c.body.from THEN -c.body.amount ELSE 0)
       + (IF c.at = "record" /\ id = c.body.to THEN c.body.amount ELSE 0)

Opening(id) == SumBy({a \in scene.db.accounts : a.id = id}, "balance")
Received(id) == SumBy({t \in db.transactions \ scene.db.transactions : t.to = id}, "amount")
Paid(id) == SumBy({t \in db.transactions \ scene.db.transactions : t.from = id}, "amount")

\* transfer/route.ts: the history explains the balances. As long as no statement
\* failed, every balance is the opening balance and the recorded transfers, plus
\* what transfers under way have moved already, however requests interleave.
LedgerBalanced ==
  faults = scene.faults =>
    \A a \in db.accounts :
      a.balance = Opening(a.id) + Received(a.id) - Paid(a.id)
                  + MapThenSumSet(LAMBDA i : InFlight(calls[i], a.id), DOMAIN calls)

Money(accounts) == SumBy(accounts, "balance")

\* transfer/route.ts:85-97: one failing statement never creates money. Once all
\* transfers are through, the total is what it was, or less by the amount of one
\* transfer that was not answered with a success and is not in the history.
OneFailureCreatesNoMoney ==
  (faults = scene.faults - 1 /\ \A i \in DOMAIN calls : ~Pending(i)) =>
     \/ Money(db.accounts) = Money(scene.db.accounts)
     \/ \E i \in DOMAIN calls :
          /\ calls[i].route = "POST/transfer" /\ calls[i].answer.status # 200
          /\ \A t \in db.transactions : t.id # i
          /\ Money(db.accounts) = Money(scene.db.accounts) - calls[i].body.amount

\* transfer/route.ts:29: "Verify sender's account and balance". No account that
\* began with money of its own is drawn below zero.
NoOverdraft == \A a \in db.accounts : a.balance >= 0

\* register/route.ts:46-62: without a failure, a user who has no account is one
\* whose registration is between its two statements; whoever is told of a success
\* has an account, and of two registrations with one address one is refused, for the
\* first eight users. (PUT profile frees an address, or takes one that is in use:
\* UPDATE does not check. From nine users on the index may miss an address.)
RegistrationsComplete ==
  /\ \A u \in db.users :
       (faults = scene.faults /\ AccountsOf(u.owner) = {}) =>
          u.owner \in DOMAIN calls /\ calls[u.owner].at = "insert-account"
  /\ \A i \in DOMAIN calls :
       (calls[i].route = "POST/register" /\ calls[i].answer.status = 200) => AccountsOf(i) # {}
  /\ tab.token # None /\ tab.token # scene.token => AccountsOf(tab.token) # {}
  /\ (/\ \A i \in DOMAIN calls : calls[i].route # "PUT/profile"
      /\ Cardinality(db.users) <= ProllyTreeOrder) =>
       \A u, v \in db.users : u.email = v.email => u.owner = v.owner

\* Every route selects by the user of the token: no answer holds a row of anybody
\* else, whatever is requested and however accounts come and go meanwhile.
OwnRowsOnly ==
  \A i \in DOMAIN calls : calls[i].at = "answered" /\ ~Auth(calls[i]) =>
    \A x \in calls[i].answer.rows : Concerns(x.row, calls[i].user)

\* A page shows rows of whom the token names. The dashboard is the exception when
\* a form left behind signs somebody else in under it.
ShownOwnData ==
  tab.token # None /\ ~tab.crossed =>
    \A x \in View(tab.page).rows : Concerns(x.row, tab.token)

Stored(name) ==
  {r \in IF name = "support" THEN db.tickets ELSE db.beneficiaries : r.owner = tab.token}

\* beneficiaries/page.tsx and support/page.tsx: the list on the page is the list
\* in the database, for a user who waits for each answer while nothing fails and
\* nobody else writes under the same name. (Two writes under way at once each start
\* from the list as it was before both.)
ListInStep ==
  /\ tab.page.name \in {"beneficiaries", "support"}
  /\ \A r \in scene.direct : r.route \in ListWrites => r.user # tab.token
  /\ ~tab.page.loading /\ ~tab.page.overlap /\ ~Busy
  /\ faults = scene.faults /\ tab.token # None
  => {x.row.id : x \in tab.page.list} = {r.id : r \in Stored(tab.page.name)}

\* dashboard/page.tsx and stats/route.ts: two requests of several statements read
\* the total above and the accounts below. They agree unless a transfer was under
\* way or a statement failed since this dashboard was opened: what ran or failed
\* before is in both figures, and registrations meanwhile are in neither.
TotalsAgree ==
  LET p == tab.page IN
  /\ p.name = "dashboard" /\ View(p).kind = "page"
  /\ ~p.overlap /\ faults = p.opened.faults
  /\ \A i \in DOMAIN calls : i > p.opened.calls => calls[i].route # "POST/transfer"
  => StatCard(p.data, "total") = MapThenSumSet(LAMBDA x : AccountCard(x).balance, p.list)

Quiet ==
  /\ ~tab.page.loading /\ tab.timers = 0
  /\ \A i \in DOMAIN calls : ~Pending(i) /\ calls[i].then = None

\* Every request is answered, every answer is taken, and no page spins for ever:
\* not after an error, a lost connection, a page left or a timer.
EverythingSettles == <>[]Quiet
=============================================================================

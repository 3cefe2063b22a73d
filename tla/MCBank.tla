------------------------------- MODULE MCBank -------------------------------
(* Scenes for TLC: each lets one part of the demo interleave freely.         *)
EXTENDS BankPages

CONSTANTS u1, u2, a1, a2, More

\* u1 and u2 have accounts; u1 also has one row of everything else.
Data ==
  [users |-> {[owner |-> u, email |-> u, phone |-> u] : u \in {u1, u2}},
   accounts |-> {[id |-> a1, owner |-> u1, balance |-> 2], [id |-> a2, owner |-> u2, balance |-> 1]},
   transactions |-> {[id |-> -1, from |-> a1, to |-> a2, amount |-> 1]},
   beneficiaries |-> {[id |-> -1, owner |-> u1]}, tickets |-> {[id |-> -1, owner |-> u1]},
   cards |-> {[id |-> -1, account |-> a1]}, logs |-> {[id |-> -1, owner |-> u1]},
   loans |-> {[id |-> -1, owner |-> u1, amount |-> 2, active |-> TRUE]},
   payments |-> {[id |-> -1, loan |-> -1, amount |-> 1]},
   settings |-> {[id |-> -1, owner |-> u1, name |-> "alerts", value |-> TRUE]}]
Bare == [Data EXCEPT !.cards = {}, !.logs = {}, !.beneficiaries = {}, !.tickets = {}]

Nothing ==
  [db |-> Data, token |-> None, calls |-> 0, faults |-> 0, pages |-> {}, urls |-> {},
   emails |-> {}, phones |-> {}, numbers |-> {}, amounts |-> {}, direct |-> {}]

Transfers(users, amounts) ==
  {[route |-> "POST/transfer", user |-> u, body |-> [from |-> a, to |-> b, amount |-> n]] :
     u \in users, a \in {a1, a2}, b \in {a1, a2}, n \in amounts}

\* Transfers of two clients, one of which may fail at any statement, or both.
Money1 == [Nothing EXCEPT !.calls = 2, !.faults = 2, !.direct = Transfers({u1, u2}, {1, 3})]
Money2 == [Nothing EXCEPT !.calls = 3, !.direct = Transfers({u1, u2}, {1})]

\* Two registrations, by form or by another client, and the way to the dashboard.
SignUp ==
  [Nothing EXCEPT !.db = Bare, !.calls = 3, !.faults = 1, !.pages = AuthPages \cup {"dashboard"},
     !.emails = {"new"}, !.phones = {"p"},
     !.direct = {[route |-> "POST/register", user |-> None, body |-> [email |-> "new", phone |-> ""]]}]

\* Registrations of one address by the eighth and the ninth user.
With(users) ==
  [Bare EXCEPT !.users = @ \cup {[owner |-> u, email |-> u, phone |-> u] : u \in users},
               !.accounts = @ \cup {[id |-> u, owner |-> u, balance |-> 0] : u \in users}]
Crowds ==
  {[SignUp EXCEPT !.db = With(users), !.calls = 2, !.pages = {},
      !.direct = @ \cup {[route |-> "POST/register", user |-> None, body |-> [email |-> "new", phone |-> "q"]]}] :
     users \in {More, More \ {CHOOSE m \in More : TRUE}}}

\* The transfer page, the dashboard and the timer between them.
Pay ==
  [Nothing EXCEPT !.token = u1, !.calls = 6, !.pages = {"transfer", "dashboard", "transactions"},
     !.urls = {"transfer"}, !.numbers = {a2, "none"}, !.amounts = {1}]

\* A transfer of the tab with a failure anywhere, its own connection included, and
\* the dashboard afterwards or meanwhile.
PayFails ==
  [Nothing EXCEPT !.token = u1, !.calls = 5, !.faults = 1, !.urls = {"transfer", "dashboard"}, !.numbers = {a2}, !.amounts = {1}]

\* Two users on their way to one address.
Rename ==
  [Nothing EXCEPT !.calls = 3, !.faults = 1,
     !.direct = {[route |-> "PUT/profile", user |-> u1, body |-> [email |-> "new", phone |-> "p"]],
                 [route |-> "POST/register", user |-> None, body |-> [email |-> "new", phone |-> "q"]]}]

\* Lists that are added to and taken from, left and come back to.
Lists ==
  [Nothing EXCEPT !.token = u1, !.calls = 5, !.pages = {"beneficiaries", "support"},
     !.urls = {"beneficiaries", "support"}]

\* The same while somebody else adds to the same table.
Beside ==
  [Lists EXCEPT !.calls = 4,
     !.direct = {[route |-> "POST/beneficiaries", user |-> u2, body |-> [complete |-> TRUE]]}]

\* Profile and settings, logging out and in.
Person ==
  [Nothing EXCEPT !.db = Bare, !.token = u1, !.calls = 4, !.faults = 1, !.pages = {"profile", "login"},
     !.urls = {"profile"}, !.emails = {u2}, !.phones = {u2}]

\* Somebody else registers in the browser of u1.
Switch ==
  [Nothing EXCEPT !.db = Bare, !.token = u1, !.calls = 3, !.urls = {"dashboard", "register"},
     !.emails = {"new"}, !.phones = {"p"}]

\* The pages that only show something; users with and without accounts.
Look ==
  [Nothing EXCEPT !.calls = 3, !.faults = 1, !.pages = NavItems, !.urls = NavItems]
Looking == {[Look EXCEPT !.token = u] : u \in {u1, "gone", None}}

\* One request of any kind by any client, complete or not.
Any ==
  [Nothing EXCEPT !.calls = 2, !.faults = 1,
     !.direct = [route : {"GET/accounts", "GET/cards", "GET/transactions", "GET/stats", "GET/loans",
                          "GET/payments", "GET/beneficiaries", "DELETE/beneficiaries", "GET/support",
                          "GET/settings", "GET/security-logs", "GET/profile"},
                 user : {u1, u2, "gone", None}, body : {[id |-> -1]}]
             \cup [route : {"POST/beneficiaries", "POST/support", "PUT/settings"},
                   user : {u1, u2}, body : {[complete |-> c, id |-> -1] : c \in BOOLEAN}]
             \cup [route : {"POST/login", "POST/register"},
                   user : {None}, body : {[email |-> None, phone |-> ""]}]]

JustOverdraft == {[Nothing EXCEPT !.calls = 1, !.direct = Transfers({u1, u2}, {1, 3})]}
AllScenes == {Money1, Money2, SignUp, Pay, PayFails, Rename, Lists, Beside, Person, Switch, Any} \cup Crowds \cup Looking
=============================================================================

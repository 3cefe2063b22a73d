------------------------------ MODULE BankApi -------------------------------
(* The HTTP routes of the mobile banking demo. A handler awaits one SQL       *)
(* statement after another, each a step of its own, so that the handlers of   *)
(* several requests interleave between statements. The database runs a single *)
(* statement atomically (WwfsServer). A statement may be refused, or be       *)
(* applied while its answer is lost; `faults` bounds how often that happens.  *)
EXTENDS Integers, FiniteSets, Sequences, FiniteSetsExt

CONSTANTS
  None,           \* no value: null, an empty form field, no token
  Undefined       \* what JavaScript reads from a property that is not there

\* Neither is a number.
ASSUME ValuesAssumption == None \notin Int /\ Undefined \notin Int /\ None # Undefined

VARIABLES
  db,             \* the tables, each a set of rows
  calls,          \* every request sent, in the order sent
  faults          \* statements and connections that may still fail

apiVars == <<db, calls, faults>>

-----------------------------------------------------------------------------
(* Rows, answers and requests.                                               *)

\* The keys of SELECT * answers carry the table's name: code that reads a
\* plain column name finds nothing in such a row.
Star(rows) == {[row |-> r, star |-> TRUE] : r \in rows}
Plain(rows) == {[row |-> r, star |-> FALSE] : r \in rows}
Field(x, f) == IF x.star THEN Undefined ELSE x.row[f]

\* JavaScript's <: false when a side is undefined.
Below(x, y) == x # Undefined /\ x < y

AccountsOf(u) == {a \in db.accounts : a.owner = u}
AccountIds(u) == {a.id : a \in AccountsOf(u)}
Touches(t, ids) == t.from \in ids \/ t.to \in ids

\* Whether row r, of any table, is about user u.
Concerns(r, u) ==
  \/ "owner" \in DOMAIN r /\ r.owner = u
  \/ "account" \in DOMAIN r /\ r.account \in AccountIds(u)
  \/ "from" \in DOMAIN r /\ Touches(r, AccountIds(u))
  \/ "loan" \in DOMAIN r /\ \E l \in db.loans : l.id = r.loan /\ l.owner = u

NoAnswer == [status |-> 0, rows |-> {}, sums |-> None]
Unreachable == [NoAnswer EXCEPT !.status = -1]     \* fetch itself rejects

\* `user` is whom the token names, None without one; `then` says what waits for
\* the answer, `seen` is the page state its callback has captured.
Request(route, user, body, then, seen) ==
  [route |-> route, user |-> user, body |-> body, at |-> "sent",
   loc |-> None, answer |-> NoAnswer, then |-> then, seen |-> seen]

-----------------------------------------------------------------------------
(* What every handler is made of.                                            *)

Fault == faults > 0 /\ faults' = faults - 1
NoFault == UNCHANGED faults

At(i, route, step) == calls[i].route = route /\ calls[i].at = step

AnswerWith(i, answer) ==
  calls' = [calls EXCEPT ![i].at = "answered", ![i].answer = answer, ![i].loc = None]
Respond(i, status) == AnswerWith(i, [NoAnswer EXCEPT !.status = status])
RespondRows(i, rows) == AnswerWith(i, [NoAnswer EXCEPT !.status = 200, !.rows = rows])

GoOn(i, step, loc) == calls' = [calls EXCEPT ![i].at = step, ![i].loc = loc]

\* executeQuery returns the rows or throws.
ExecuteQuery(found, thrown) ==
  /\ UNCHANGED db
  /\ \/ found /\ NoFault
     \/ thrown /\ Fault

\* executeWriteQuery: applied; refused (`clash` when a UNIQUE column already has
\* the value); or applied without the caller learning of it.
ExecuteWriteQuery(written, clash, done, thrown) ==
  \/ ~clash /\ db' = written /\ done /\ NoFault
  \/ clash /\ UNCHANGED db /\ thrown /\ NoFault
  \/ UNCHANGED db /\ thrown /\ Fault
  \/ ~clash /\ db' = written /\ thrown /\ Fault

\* getUserIdFromRequest finds no user in the Authorization header.
GetUserIdFromRequest(i) == calls[i].user

Unauthorized(i) ==
  /\ calls[i].at = "sent"
  /\ calls[i].route \notin {"POST/register", "POST/login"}
  /\ GetUserIdFromRequest(i) = None
  /\ Respond(i, 401)
  /\ UNCHANGED <<db, faults>>

Authorized(i, route) == At(i, route, "sent") /\ GetUserIdFromRequest(i) # None

\* A handler that sends back what its one statement finds.
AnswersRows(i, rows) == ExecuteQuery(RespondRows(i, rows), Respond(i, 500))

\* A request is refused before any statement runs.
Refuse(i, status) == Respond(i, status) /\ UNCHANGED <<db, faults>>

-----------------------------------------------------------------------------
(* Registration and login.                                                   *)

UsersClashOnPhone(body) == \E u \in db.users : u.phone = body.phone
\* UNIQUE columns of users that an INSERT checks; the empty phone number of all
\* who give none is a value like any other.
UsersClash(body) == \E u \in db.users : u.email = body.email \/ u.phone = body.phone

\* The check asks the index. A tree of this order splits its root at its eighth
\* key and loses what the promoted key led to (ProllyNodes).
ProllyTreeOrder == 8

\* What the check may find: all there is, or nothing once the index has split.
ClashesFound(body) ==
  {UsersClash(body)} \cup {c \in {FALSE} : Cardinality(db.users) >= ProllyTreeOrder}

PostRegister(i) ==
  LET body == calls[i].body
      user == [owner |-> i, email |-> body.email, phone |-> body.phone]
      account == [id |-> i, owner |-> i, balance |-> 0]
  IN
  \/ /\ At(i, "POST/register", "sent")
     /\ IF body.email = None
        THEN Refuse(i, 400)
        ELSE ExecuteQuery(IF \E u \in db.users : u.email = body.email
                          THEN Respond(i, 409)
                          ELSE GoOn(i, "insert-user", None),
                          Respond(i, 500))
  \/ /\ At(i, "POST/register", "insert-user")
     /\ \E clash \in ClashesFound(body) :
          ExecuteWriteQuery([db EXCEPT !.users = @ \cup {user}],
                            clash,
                            GoOn(i, "insert-account", None),
                            Respond(i, 500))
  \/ /\ At(i, "POST/register", "insert-account")
     /\ ExecuteWriteQuery([db EXCEPT !.accounts = @ \cup {account}], FALSE,
                          RespondRows(i, Plain({user})),
                          Respond(i, 500))

\* The password hash is read from a SELECT * row: bcrypt throws on undefined.
PostLogin(i) ==
  LET found == {u \in db.users : u.email = calls[i].body.email} IN
  /\ At(i, "POST/login", "sent")
  /\ IF calls[i].body.email = None
     THEN Refuse(i, 400)
     ELSE ExecuteQuery(
            IF found = {}
            THEN Respond(i, 401)
            ELSE \E user \in Star(found) :
                   IF Field(user, "email") = Undefined
                   THEN Respond(i, 500)
                   ELSE RespondRows(i, {user}) \/ Respond(i, 401),
            Respond(i, 500))

-----------------------------------------------------------------------------
(* Reading.                                                                  *)

GetAccountsStar(i) ==
  /\ Authorized(i, "GET/accounts")
  /\ AnswersRows(i, Star(AccountsOf(calls[i].user)))
GetAccounts(i) ==
  /\ Authorized(i, "GET/accounts")
  /\ AnswersRows(i, Plain(AccountsOf(calls[i].user)))

\* The user's accounts, then the cards of those accounts.
GetCards(i) ==
  \/ /\ Authorized(i, "GET/cards")
     /\ ExecuteQuery(IF AccountIds(calls[i].user) = {}
                     THEN RespondRows(i, {})
                     ELSE GoOn(i, "cards", AccountIds(calls[i].user)),
                     Respond(i, 500))
  \/ /\ At(i, "GET/cards", "cards")
     /\ AnswersRows(i, Star({c \in db.cards : c.account \in calls[i].loc}))

\* The user's accounts, then every transaction; the filter reads plain column
\* names from SELECT * rows.
GetTransactions(i) ==
  LET mine(x) == Field(x, "from") \in calls[i].loc \/ Field(x, "to") \in calls[i].loc IN
  \/ /\ Authorized(i, "GET/transactions")
     /\ ExecuteQuery(IF AccountIds(calls[i].user) = {}
                     THEN RespondRows(i, {})
                     ELSE GoOn(i, "transactions", AccountIds(calls[i].user)),
                     Respond(i, 500))
  \/ /\ At(i, "GET/transactions", "transactions")
     /\ AnswersRows(i, {x \in Star(db.transactions) : mine(x)})

SumBy(rows, f) == MapThenSumSet(LAMBDA r : r[f], rows)

NoStats == [total |-> 0, spent |-> 0]

\* The accounts, then the totals in parallel, then the latest transactions.
\* When one of those fails the statistics are zeros and the answer a success.
GetStats(i) ==
  LET loc == calls[i].loc
      zeros == AnswerWith(i, [NoAnswer EXCEPT !.status = 200, !.sums = NoStats])
      learn(f, n) == GoOn(i, IF loc.sums.total = None /\ loc.sums.spent = None
                             THEN "sums" ELSE "recent", [loc EXCEPT !.sums[f] = n])
  IN
  \/ /\ Authorized(i, "GET/stats")
     /\ ExecuteQuery(IF AccountIds(calls[i].user) = {}
                     THEN zeros
                     ELSE GoOn(i, "sums", [ids |-> AccountIds(calls[i].user),
                                           sums |-> [total |-> None, spent |-> None]]),
                     Respond(i, 500))
  \/ /\ At(i, "GET/stats", "sums") /\ loc.sums.total = None
     /\ ExecuteQuery(learn("total", SumBy({a \in db.accounts : a.id \in loc.ids}, "balance")), zeros)
  \/ /\ At(i, "GET/stats", "sums") /\ loc.sums.spent = None
     /\ ExecuteQuery(learn("spent", SumBy({t \in db.transactions : t.from \in loc.ids}, "amount")), zeros)
  \/ /\ At(i, "GET/stats", "recent")
     /\ ExecuteQuery(AnswerWith(i, [status |-> 200, sums |-> loc.sums,
                       rows |-> Plain({t \in db.transactions : Touches(t, loc.ids)})]), zeros)

\* A loan with what is left to pay, computed from columns that SELECT * rows do
\* not have under their plain names: nothing is left of undefined.
LoanAnswer(x, payments) ==
  LET paid == SumBy({p.row : p \in {q \in payments : Field(q, "loan") = Field(x, "id")}}, "amount")
  IN  IF Field(x, "amount") = Undefined THEN 0
      ELSE IF Field(x, "amount") > paid THEN Field(x, "amount") - paid ELSE 0

GetLoans(i) ==
  \/ /\ Authorized(i, "GET/loans")
     /\ LET found == Star({l \in db.loans : l.owner = calls[i].user}) IN
        ExecuteQuery(IF found = {} THEN RespondRows(i, {}) ELSE GoOn(i, "payments", found),
                     Respond(i, 500))
  \/ /\ At(i, "GET/loans", "payments")
     /\ LET ids == {Field(x, "id") : x \in calls[i].loc}
            payments == Plain({p \in db.payments : p.loan \in ids})
        IN  AnswersRows(i, {[row |-> x.row, star |-> x.star, remaining |-> LoanAnswer(x, payments)] :
                              x \in calls[i].loc})

GetLoanPaymentsOfAny(i) ==
  /\ Authorized(i, "GET/payments")
  /\ AnswersRows(i, Star({p \in db.payments : p.loan = calls[i].body.id}))

\* The loan must be the user's; then its payments.
GetLoanPayments(i) ==
  LET loanId == calls[i].body.id IN
  \/ /\ Authorized(i, "GET/payments")
     /\ ExecuteQuery(IF \E l \in db.loans : l.id = loanId /\ l.owner = calls[i].user
                     THEN GoOn(i, "payments", None)
                     ELSE Respond(i, 404),
                     Respond(i, 500))
  \/ /\ At(i, "GET/payments", "payments")
     /\ AnswersRows(i, Star({p \in db.payments : p.loan = loanId}))

GetBeneficiaries(i) ==
  /\ Authorized(i, "GET/beneficiaries")
  /\ AnswersRows(i, Star({b \in db.beneficiaries : b.owner = calls[i].user}))

GetTickets(i) ==
  /\ Authorized(i, "GET/support")
  /\ AnswersRows(i, Star({t \in db.tickets : t.owner = calls[i].user}))

GetSettings(i) ==
  /\ Authorized(i, "GET/settings")
  /\ AnswersRows(i, Star({s \in db.settings : s.owner = calls[i].user}))

GetSecurityLogs(i) ==
  /\ Authorized(i, "GET/security-logs")
  /\ AnswersRows(i, Star({l \in db.logs : l.owner = calls[i].user}))

GetProfile(i) ==
  LET found == {u \in db.users : u.owner = calls[i].user} IN
  /\ Authorized(i, "GET/profile")
  /\ ExecuteQuery(IF found = {} THEN Respond(i, 404) ELSE RespondRows(i, Plain(found)),
                  Respond(i, 500))

-----------------------------------------------------------------------------
(* Writing.                                                                  *)

\* A row with the given fields, owned by the caller and named by the request.
NewRow(i) == [id |-> i, owner |-> calls[i].user]

PostBeneficiary(i) ==
  /\ Authorized(i, "POST/beneficiaries")
  /\ IF calls[i].body.complete
     THEN ExecuteWriteQuery([db EXCEPT !.beneficiaries = @ \cup {NewRow(i)}], FALSE,
                            RespondRows(i, Plain({NewRow(i)})), Respond(i, 500))
     ELSE Refuse(i, 400)

\* Whose row it is is read first, and checked again by the statement itself.
DeleteBeneficiary(i) ==
  LET id == calls[i].body.id
      mine == {b \in db.beneficiaries : b.id = id /\ b.owner = calls[i].user}
  IN
  \/ /\ Authorized(i, "DELETE/beneficiaries")
     /\ IF id = Undefined
        THEN Refuse(i, 400)
        ELSE ExecuteQuery(IF mine = {} THEN Respond(i, 404) ELSE GoOn(i, "delete", None),
                          Respond(i, 500))
  \/ /\ At(i, "DELETE/beneficiaries", "delete")
     /\ ExecuteWriteQuery([db EXCEPT !.beneficiaries = @ \ mine], FALSE,
                          RespondRows(i, {}), Respond(i, 500))

PostTicket(i) ==
  /\ Authorized(i, "POST/support")
  /\ IF calls[i].body.complete
     THEN ExecuteWriteQuery([db EXCEPT !.tickets = @ \cup {NewRow(i)}], FALSE,
                            RespondRows(i, Plain({NewRow(i)})), Respond(i, 500))
     ELSE Refuse(i, 400)

\* UPDATE does not check UNIQUE columns. The answer repeats the request.
PutProfile(i) ==
  LET saved(u) == [u EXCEPT !.email = calls[i].body.email, !.phone = calls[i].body.phone]
      mine == {u \in db.users : u.owner = calls[i].user}
      echo == [owner |-> calls[i].user, email |-> calls[i].body.email, phone |-> calls[i].body.phone]
  IN
  /\ Authorized(i, "PUT/profile")
  /\ ExecuteWriteQuery([db EXCEPT !.users = (@ \ mine) \cup {saved(u) : u \in mine}], FALSE,
                       RespondRows(i, Plain({echo})), Respond(i, 500))

\* BEGIN, DELETE, INSERT and COMMIT in one string: the server refuses it or runs
\* the BEGIN and no more, so that nothing is stored either way.
PutSettings(i) ==
  /\ Authorized(i, "PUT/settings")
  /\ UNCHANGED <<db, faults>>
  /\ \/ Respond(i, IF calls[i].body.complete THEN 200 ELSE 400)
     \/ calls[i].body.complete /\ Respond(i, 500)

-----------------------------------------------------------------------------
(* Transfers.                                                                *)

MovedToZero(id, amount) ==
  [db EXCEPT !.accounts = {IF a.id = id /\ a.balance + amount >= 0
                           THEN [a EXCEPT !.balance = @ + amount] ELSE a : a \in @}]
Moved(id, amount) ==
  [db EXCEPT !.accounts = {IF a.id = id THEN [a EXCEPT !.balance = @ + amount] ELSE a : a \in @}]

UndoDeductOnly(i) ==
  /\ At(i, "POST/transfer", "undo-deduct")
  /\ ExecuteWriteQuery(Moved(calls[i].body.from, calls[i].body.amount), FALSE,
                       Respond(i, 500), Respond(i, 500))
\* After a failed statement: add the amount and deduct it again, whether or not
\* the deduction and the addition had been reached. A second failure ends it.
UndoTransfer(i) ==
  \/ /\ At(i, "POST/transfer", "undo-deduct")
     /\ ExecuteWriteQuery(Moved(calls[i].body.from, calls[i].body.amount), FALSE,
                          GoOn(i, "undo-add", None), Respond(i, 500))
  \/ /\ At(i, "POST/transfer", "undo-add")
     /\ ExecuteWriteQuery(Moved(calls[i].body.to, -calls[i].body.amount), FALSE,
                          Respond(i, 500), Respond(i, 500))

\* The sender is read with SELECT *, so that its balance is undefined and never
\* below the amount. Then deduct, add, and record, or undo.
PostTransfer(i) ==
  LET body == calls[i].body
      amount == body.amount
      sender == Star({a \in AccountsOf(calls[i].user) : a.id = body.from})
      record == [id |-> i, from |-> body.from, to |-> body.to, amount |-> amount]
      step(s, written, next) ==
        /\ At(i, "POST/transfer", s)
        /\ ExecuteWriteQuery(written, FALSE, next, GoOn(i, "undo-deduct", None))
  IN
  \/ /\ Authorized(i, "POST/transfer")
     /\ IF body.from = None \/ body.to = Undefined \/ amount <= 0
        THEN Refuse(i, 400)
        ELSE ExecuteQuery(
               IF sender = {} THEN Respond(i, 403)
               ELSE IF \E x \in sender : Below(Field(x, "balance"), amount) THEN Respond(i, 400)
               ELSE GoOn(i, "receiver", None),
               Respond(i, 500))
  \/ /\ At(i, "POST/transfer", "receiver")
     /\ ExecuteQuery(IF \A a \in db.accounts : a.id # body.to THEN Respond(i, 404)
                     ELSE IF body.from = body.to THEN Respond(i, 400)
                     ELSE GoOn(i, "deduct", None),
                     Respond(i, 500))
  \/ step("deduct", Moved(body.from, -amount), GoOn(i, "add", None))
  \/ step("add", Moved(body.to, amount), GoOn(i, "record", None))
  \/ step("record", [db EXCEPT !.transactions = @ \cup {record}], RespondRows(i, Plain({record})))
  \/ UndoTransfer(i)

-----------------------------------------------------------------------------

Handle(i) ==
  \/ Unauthorized(i)
  \/ PostRegister(i) \/ PostLogin(i)
  \/ GetAccounts(i) \/ GetCards(i) \/ GetTransactions(i) \/ GetStats(i)
  \/ GetLoans(i) \/ GetLoanPayments(i)
  \/ GetBeneficiaries(i) \/ PostBeneficiary(i) \/ DeleteBeneficiary(i)
  \/ GetTickets(i) \/ PostTicket(i)
  \/ GetProfile(i) \/ PutProfile(i) \/ GetSettings(i) \/ PutSettings(i)
  \/ GetSecurityLogs(i)
  \/ PostTransfer(i)

Pending(i) == calls[i].at \notin {"answered", "done"}
=============================================================================

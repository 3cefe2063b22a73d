----------------------------- MODULE BankProofs -----------------------------
(***************************************************************************)
(* The banking demo for any number of requests, any users and any scenes.  *)
(* The routes: whose rows an answer has, registration, and money. The      *)
(* pages: whose rows they show, that a list shows what reading it would    *)
(* give, and that the figures of the dashboard agree with each other.      *)
(***************************************************************************)
EXTENDS BankPages, DataInduction

CallFields == {"route", "user", "body", "at", "loc", "answer", "then", "seen"}
AnswerFields == {"status", "rows", "sums"}

CallsOK ==
  /\ Len(calls) \in Nat /\ calls = [i \in 1..Len(calls) |-> calls[i]]
  /\ \A i \in DOMAIN calls : DOMAIN calls[i] = CallFields /\ DOMAIN calls[i].answer = AnswerFields

\* What no step changes of a request.
SameRequest(j) ==
  calls'[j].route = calls[j].route /\ calls'[j].user = calls[j].user /\ calls'[j].body = calls[j].body

\* Handler i is now at step `at` and nothing else happened to any request.
Reaches(i, at) ==
  /\ Len(calls') = Len(calls)
  /\ \A j \in DOMAIN calls : SameRequest(j) /\ (j # i => calls'[j] = calls[j])
  /\ calls'[i].then = calls[i].then /\ calls'[i].seen = calls[i].seen
  /\ calls'[i].at = at

LEMMA AnswerEffect ==
    ASSUME CallsOK, NEW i \in DOMAIN calls, NEW a, DOMAIN a = AnswerFields, AnswerWith(i, a)
    PROVE  CallsOK' /\ Reaches(i, "answered") /\ calls'[i].answer = a /\ calls'[i].loc = None
  <1> DEFINE c == [calls[i] EXCEPT !.at = "answered", !.answer = a, !.loc = None]
  <1>1. DOMAIN calls = 1..Len(calls) /\ DOMAIN calls[i] = CallFields
    BY DEF CallsOK
  <1>2. calls' = [calls EXCEPT ![i] = c]
    BY <1>1 DEF AnswerWith, CallFields
  <1>3. /\ c.route = calls[i].route /\ c.user = calls[i].user /\ c.body = calls[i].body
        /\ c.at = "answered" /\ c.loc = None /\ c.answer = a
        /\ c.then = calls[i].then /\ c.seen = calls[i].seen /\ DOMAIN c = CallFields
    BY <1>1 DEF CallFields
  <1> HIDE DEF c
  <1>4. calls' = [j \in 1..Len(calls) |-> IF j = i THEN c ELSE calls[j]]
    BY <1>1, <1>2
  <1>5. Len(calls') = Len(calls)
    BY <1>4 DEF CallsOK
  <1>6. CallsOK'
    BY <1>1, <1>3, <1>4, <1>5 DEF CallsOK
  <1> QED
    BY <1>1, <1>3, <1>4, <1>5, <1>6 DEF Reaches, SameRequest

LEMMA GoOnEffect ==
    ASSUME CallsOK, NEW i \in DOMAIN calls, NEW at, NEW loc, GoOn(i, at, loc)
    PROVE  CallsOK' /\ Reaches(i, at) /\ calls'[i].answer = calls[i].answer /\ calls'[i].loc = loc
  <1> DEFINE c == [calls[i] EXCEPT !.at = at, !.loc = loc]
  <1>1. DOMAIN calls = 1..Len(calls) /\ DOMAIN calls[i] = CallFields
    BY DEF CallsOK
  <1>2. calls' = [calls EXCEPT ![i] = c]
    BY <1>1 DEF GoOn, CallFields
  <1>3. /\ c.route = calls[i].route /\ c.user = calls[i].user /\ c.body = calls[i].body
        /\ c.at = at /\ c.loc = loc /\ c.answer = calls[i].answer
        /\ c.then = calls[i].then /\ c.seen = calls[i].seen /\ DOMAIN c = CallFields
    BY <1>1 DEF CallFields
  <1> HIDE DEF c
  <1>4. calls' = [j \in 1..Len(calls) |-> IF j = i THEN c ELSE calls[j]]
    BY <1>1, <1>2
  <1>5. Len(calls') = Len(calls)
    BY <1>4 DEF CallsOK
  <1>6. CallsOK'
    BY <1>1, <1>3, <1>4, <1>5 DEF CallsOK
  <1> QED
    BY <1>1, <1>3, <1>4, <1>5, <1>6 DEF Reaches, SameRequest

\* The ways in which a handler ends a step.
Answers(i, status, rows) ==
  /\ CallsOK' /\ Reaches(i, "answered") /\ calls'[i].loc = None
  /\ calls'[i].answer.status = status /\ calls'[i].answer.rows = rows

Continues(i, at, loc) ==
  CallsOK' /\ Reaches(i, at) /\ calls'[i].loc = loc /\ calls'[i].answer = calls[i].answer

LEMMA StepEnds ==
    ASSUME CallsOK, NEW i \in DOMAIN calls
    PROVE  /\ \A a : DOMAIN a = AnswerFields /\ AnswerWith(i, a) => Answers(i, a.status, a.rows)
           /\ \A status : Respond(i, status) => Answers(i, status, {})
           /\ \A rows : RespondRows(i, rows) => Answers(i, 200, rows)
           /\ \A at, loc : GoOn(i, at, loc) => Continues(i, at, loc)
  <1>1. ASSUME NEW a, DOMAIN a = AnswerFields, AnswerWith(i, a) PROVE Answers(i, a.status, a.rows)
    BY <1>1, AnswerEffect DEF Answers
  <1>2. ASSUME NEW status, Respond(i, status) PROVE Answers(i, status, {})
    <2> DEFINE a == [NoAnswer EXCEPT !.status = status]
    <2>1. DOMAIN a = AnswerFields /\ a.status = status /\ a.rows = {}
      BY DEF NoAnswer, AnswerFields
    <2>2. AnswerWith(i, a)
      BY <1>2 DEF Respond
    <2> HIDE DEF a
    <2>3. Answers(i, a.status, a.rows)
      BY <1>1, <2>1, <2>2
    <2> QED
      BY <2>1, <2>3
  <1>3. ASSUME NEW rows, RespondRows(i, rows) PROVE Answers(i, 200, rows)
    <2> DEFINE a == [NoAnswer EXCEPT !.status = 200, !.rows = rows]
    <2>1. DOMAIN a = AnswerFields /\ a.status = 200 /\ a.rows = rows
      BY DEF NoAnswer, AnswerFields
    <2>2. AnswerWith(i, a)
      BY <1>3 DEF RespondRows
    <2> HIDE DEF a
    <2>3. Answers(i, a.status, a.rows)
      BY <1>1, <2>1, <2>2
    <2> QED
      BY <2>1, <2>3
  <1>4. ASSUME NEW at, NEW loc, GoOn(i, at, loc) PROVE Continues(i, at, loc)
    BY <1>4, GoOnEffect DEF Continues
  <1> QED
    BY <1>1, <1>2, <1>3, <1>4

\* A write of a transfer: `next` when it succeeds, `failed` when it is refused or its
\* answer is lost, whether or not it was applied.
Write(written, next, failed) ==
  \/ db' = written /\ faults' = faults /\ next
  \/ db' \in {db, written} /\ faults > 0 /\ faults' = faults - 1 /\ failed

Refused(i) == \E status : status \in {400, 403, 404, 500} /\ Answers(i, status, {})

TransferStep(i) ==
  LET from == calls[i].body.from
      to == calls[i].body.to
      amount == calls[i].body.amount
      record == [id |-> i, from |-> from, to |-> to, amount |-> amount]
      undo == Continues(i, "undo-deduct", None)
  IN
  \/ /\ calls[i].at = "sent" /\ db' = db
     /\ \/ Refused(i) /\ (faults' = faults \/ faults' = faults - 1)
        \/ from \in AccountIds(calls[i].user) /\ Continues(i, "receiver", None) /\ faults' = faults
  \/ /\ calls[i].at = "receiver" /\ db' = db
     /\ \/ Refused(i) /\ (faults' = faults \/ faults' = faults - 1)
        \/ (\E a \in db.accounts : a.id = to) /\ Continues(i, "deduct", None) /\ faults' = faults
  \/ calls[i].at = "deduct" /\ Write(Moved(from, -amount), Continues(i, "add", None), undo)
  \/ calls[i].at = "add" /\ Write(Moved(to, amount), Continues(i, "record", None), undo)
  \/ /\ calls[i].at = "record"
     /\ Write([db EXCEPT !.transactions = @ \cup {record}], Answers(i, 200, Plain({record})), undo)
  \/ /\ calls[i].at = "undo-deduct"
     /\ Write(Moved(from, amount), Continues(i, "undo-add", None), Refused(i))
  \/ calls[i].at = "undo-add" /\ Write(Moved(to, -amount), Refused(i), Refused(i))

LEMMA TransferSteps ==
    ASSUME CallsOK, NEW i \in DOMAIN calls, PostTransfer(i)
    PROVE  TransferStep(i) /\ calls[i].route = "POST/transfer"
  <1> DEFINE from == calls[i].body.from
             to == calls[i].body.to
             amount == calls[i].body.amount
             record == [id |-> i, from |-> from, to |-> to, amount |-> amount]
             sender == Star({a \in AccountsOf(calls[i].user) : a.id = from})
             failed == GoOn(i, "undo-deduct", None)
  <1>1. /\ \A status : Respond(i, status) => Answers(i, status, {})
        /\ \A rows : RespondRows(i, rows) => Answers(i, 200, rows)
        /\ \A at, loc : GoOn(i, at, loc) => Continues(i, at, loc)
    BY StepEnds
  <1>2. \A status : status \in {400, 403, 404, 500} /\ Respond(i, status) => Refused(i)
    BY <1>1 DEF Refused
  <1>3. sender # {} => from \in AccountIds(calls[i].user)
    BY DEF Star, AccountIds
  <1> USE DEF At, Authorized, Refuse, ExecuteQuery, ExecuteWriteQuery, Fault, NoFault
  <1> HIDE DEF sender
  <1>0. calls[i].route = "POST/transfer"
    BY DEF PostTransfer, UndoTransfer
  <1>4. CASE calls[i].at = "sent"
    <2>1. /\ db' = db
          /\ \/ /\ Respond(i, 400) \/ Respond(i, 403) \/ Respond(i, 500)
                /\ faults' = faults \/ faults' = faults - 1
             \/ sender # {} /\ GoOn(i, "receiver", None) /\ faults' = faults
      BY <1>4 DEF PostTransfer, UndoTransfer, sender
    <2>2. Respond(i, 400) \/ Respond(i, 403) \/ Respond(i, 500) => Refused(i)
      BY <1>2
    <2>3. GoOn(i, "receiver", None) => Continues(i, "receiver", None)
      BY <1>1
    <2> QED
      BY <1>0, <1>3, <1>4, <2>1, <2>2, <2>3, Zenon DEF TransferStep
  <1>5. CASE calls[i].at = "receiver"
    <2>1. /\ db' = db
          /\ \/ /\ Respond(i, 400) \/ Respond(i, 404) \/ Respond(i, 500)
                /\ faults' = faults \/ faults' = faults - 1
             \/ (\E a \in db.accounts : a.id = to) /\ GoOn(i, "deduct", None) /\ faults' = faults
      BY <1>5 DEF PostTransfer, UndoTransfer
    <2>2. Respond(i, 400) \/ Respond(i, 404) \/ Respond(i, 500) => Refused(i)
      BY <1>2
    <2>3. GoOn(i, "deduct", None) => Continues(i, "deduct", None)
      BY <1>1
    <2> QED
      BY <1>0, <1>5, <2>1, <2>2, <2>3, Zenon DEF TransferStep
  <1>6. CASE calls[i].at = "deduct"
    BY <1>1, <1>2, <1>6 DEF PostTransfer, UndoTransfer, TransferStep, Write
  <1>7. CASE calls[i].at = "add"
    BY <1>1, <1>2, <1>7 DEF PostTransfer, UndoTransfer, TransferStep, Write
  <1>8. CASE calls[i].at = "record"
    BY <1>1, <1>2, <1>8 DEF PostTransfer, UndoTransfer, TransferStep, Write
  <1>9. CASE calls[i].at = "undo-deduct"
    BY <1>1, <1>2, <1>9 DEF PostTransfer, UndoTransfer, TransferStep, Write
  <1>10. CASE calls[i].at = "undo-add"
    BY <1>1, <1>2, <1>10 DEF PostTransfer, UndoTransfer, TransferStep, Write
  <1> QED
    BY <1>4, <1>5, <1>6, <1>7, <1>8, <1>9, <1>10 DEF PostTransfer, UndoTransfer

\* Handler i advances its own request and no other.
Advances(i) == CallsOK' /\ Reaches(i, calls'[i].at)

Moves(i) == Advances(i) /\ Pending(i) /\ (faults' = faults \/ faults' = faults - 1)

LEMMA HandlerMoves ==
    ASSUME CallsOK, NEW i \in DOMAIN calls, Handle(i)
    PROVE  Moves(i)
  <1>1. /\ \A a : DOMAIN a = AnswerFields /\ AnswerWith(i, a) => Advances(i)
        /\ \A status : Respond(i, status) => Advances(i)
        /\ \A rows : RespondRows(i, rows) => Advances(i)
        /\ \A at, loc : GoOn(i, at, loc) => Advances(i)
    <2>1. /\ \A status, rows : Answers(i, status, rows) => Advances(i)
          /\ \A at, loc : Continues(i, at, loc) => Advances(i)
      BY DEF Answers, Continues, Reaches, Advances
    <2> QED
      BY <2>1, StepEnds
  <1>2. CASE Unauthorized(i)
    BY <1>1, <1>2 DEF Unauthorized, Moves, Pending
  <1> USE <1>1 DEF Moves, Pending, Refuse, ExecuteQuery, ExecuteWriteQuery, AnswersRows, Fault, NoFault, Authorized, At
  <1>3. CASE PostRegister(i)
    BY <1>3 DEF PostRegister
  <1>4. CASE PostLogin(i)
    BY <1>4, ZenonT(60) DEF PostLogin
  <1>5. CASE GetAccounts(i)
    BY <1>5 DEF GetAccounts
  <1>6. CASE GetCards(i)
    BY <1>6 DEF GetCards
  <1>7. CASE GetTransactions(i)
    BY <1>7 DEF GetTransactions
  <1>8. CASE GetStats(i)
    BY <1>8, ZenonT(60) DEF GetStats, NoAnswer, AnswerFields
  <1>9. CASE GetLoans(i)
    BY <1>9 DEF GetLoans
  <1>10. CASE GetLoanPayments(i)
    BY <1>10 DEF GetLoanPayments
  <1>11. CASE GetBeneficiaries(i)
    BY <1>11 DEF GetBeneficiaries
  <1>12. CASE PostBeneficiary(i)
    BY <1>12 DEF PostBeneficiary
  <1>13. CASE DeleteBeneficiary(i)
    BY <1>13 DEF DeleteBeneficiary
  <1>14. CASE GetTickets(i)
    BY <1>14 DEF GetTickets
  <1>15. CASE PostTicket(i)
    BY <1>15 DEF PostTicket
  <1>16. CASE GetProfile(i)
    BY <1>16 DEF GetProfile
  <1>17. CASE PutProfile(i)
    BY <1>17, ZenonT(60) DEF PutProfile
  <1>18. CASE GetSettings(i)
    BY <1>18 DEF GetSettings
  <1>19. CASE PutSettings(i)
    BY <1>19 DEF PutSettings
  <1>20. CASE GetSecurityLogs(i)
    BY <1>20 DEF GetSecurityLogs
  <1>21. CASE PostTransfer(i)
    <2>1. /\ \A status, rows : Answers(i, status, rows) => Advances(i)
          /\ \A at, loc : Continues(i, at, loc) => Advances(i)
          /\ Refused(i) => Advances(i)
      BY DEF Answers, Continues, Reaches, Advances, Refused
    <2>2. TransferStep(i)
      BY <1>21, TransferSteps
    <2> QED
      BY <2>1, <2>2 DEF TransferStep, Write
  <1> QED
    BY <1>2, <1>3, <1>4, <1>5, <1>6, <1>7, <1>8, <1>9, <1>10, <1>11, <1>12, <1>13, <1>14, <1>15, <1>16, <1>17, <1>18, <1>19, <1>20, <1>21 DEF Handle

-----------------------------------------------------------------------------
(* What the tab does to requests.                                            *)

CallList(cs) ==
  /\ Len(cs) \in Nat /\ cs = [i \in 1..Len(cs) |-> cs[i]]
  /\ \A i \in DOMAIN cs : DOMAIN cs[i] = CallFields /\ DOMAIN cs[i].answer = AnswerFields

LEMMA ConcatFunctions ==
    ASSUME NEW m \in Nat, NEW n \in Nat, NEW f, NEW g,
           f = [i \in 1..m |-> f[i]], g = [i \in 1..n |-> g[i]]
    PROVE  /\ Len(f) = m /\ Len(f \o g) = m + n /\ f \o g = [i \in 1..(m + n) |-> (f \o g)[i]]
           /\ \A i \in 1..m : (f \o g)[i] = f[i]
           /\ \A i \in 1..n : (f \o g)[m + i] = g[i]
  <1> DEFINE S == {f[i] : i \in 1..m} \cup {g[i] : i \in 1..n}
  <1>1. f \in [1..m -> S] /\ g \in [1..n -> S]
    OBVIOUS
  <1> HIDE DEF S
  <1>2. f \in Seq(S) /\ g \in Seq(S) /\ Len(f) = m /\ Len(g) = n
    BY <1>1
  <1>3. f \o g \in Seq(S) /\ Len(f \o g) = m + n
    BY <1>2
  <1>4. \A i \in 1..(m + n) : (f \o g)[i] = IF i <= m THEN f[i] ELSE g[i - m]
    BY <1>2
  <1>5. \A i \in 1..m : (f \o g)[i] = f[i]
    BY <1>4
  <1>6. \A i \in 1..n : (f \o g)[m + i] = g[i]
    BY <1>4
  <1>7. f \o g = [i \in 1..(m + n) |-> (f \o g)[i]]
    BY <1>3
  <1> QED
    BY <1>2, <1>3, <1>5, <1>6, <1>7

LEMMA RequestFields ==
    ASSUME NEW route, NEW user, NEW body, NEW then, NEW seen
    PROVE  /\ DOMAIN Request(route, user, body, then, seen) = CallFields
           /\ DOMAIN Request(route, user, body, then, seen).answer = AnswerFields
  BY DEF Request, CallFields, NoAnswer, AnswerFields

LEMMA SendEffect ==
    ASSUME CallsOK, NEW r, DOMAIN r = CallFields, DOMAIN r.answer = AnswerFields, Send(r)
    PROVE  /\ CallsOK' /\ Len(calls') = Len(calls) + 1 /\ calls'[Len(calls) + 1] = r
           /\ \A j \in DOMAIN calls : calls'[j] = calls[j]
  <1> DEFINE S == {calls[i] : i \in DOMAIN calls} \cup {r}
  <1>1. calls \in [1..Len(calls) -> S] /\ r \in S /\ Len(calls) \in Nat
    BY DEF CallsOK
  <1> HIDE DEF S
  <1>2. calls \in Seq(S)
    BY <1>1
  <1>3. /\ calls' \in Seq(S) /\ Len(calls') = Len(calls) + 1 /\ calls'[Len(calls) + 1] = r
        /\ \A j \in 1..Len(calls) : calls'[j] = calls[j]
    BY <1>1, <1>2 DEF Send
  <1>4. DOMAIN calls = 1..Len(calls) /\ DOMAIN calls' = 1..(Len(calls) + 1)
    BY <1>2, <1>3
  <1>5. \A j \in DOMAIN calls' : DOMAIN calls'[j] = CallFields /\ DOMAIN calls'[j].answer = AnswerFields
    BY <1>1, <1>3, <1>4 DEF CallsOK
  <1> QED
    BY <1>1, <1>3, <1>4, <1>5 DEF CallsOK

LEMMA FetchesLength ==
    ASSUME NEW name
    PROVE  Len(Fetches(name)) \in 0..3 /\ DOMAIN Fetches(name) = 1..Len(Fetches(name))
  <1>1. \/ Fetches(name) = <<>>
        \/ \E x : Fetches(name) = <<x>>
        \/ \E x, y : Fetches(name) = <<x, y>>
        \/ \E x, y, z : Fetches(name) = <<x, y, z>>
    BY Zenon DEF Fetches
  <1>2. CASE Fetches(name) = <<>>
    BY <1>2
  <1>3. CASE \E x : Fetches(name) = <<x>>
    BY <1>3
  <1>4. CASE \E x, y : Fetches(name) = <<x, y>>
    BY <1>4
  <1>5. CASE \E x, y, z : Fetches(name) = <<x, y, z>>
    BY <1>5
  <1> QED
    BY <1>1, <1>2, <1>3, <1>4, <1>5

\* A page is mounted: its requests come after those there are, whose callbacks go.
LEMMA MountEffect ==
    ASSUME NEW name, NEW t, NEW cs, CallList(cs), Mount(name, t, cs)
    PROVE  /\ CallsOK' /\ Len(calls') = Len(cs) + Len(Fetches(name))
           /\ \A j \in DOMAIN cs : calls'[j] = Unmount(cs[j])
           /\ \A k \in 1..Len(Fetches(name)) :
                calls'[Len(cs) + k] = Request(Fetches(name)[k], t.token, None, "load", {})
  <1> DEFINE n == Len(Fetches(name))
             m == Len(cs)
             f == [j \in DOMAIN cs |-> Unmount(cs[j])]
             g == [k \in DOMAIN Fetches(name) |-> Request(Fetches(name)[k], t.token, None, "load", {})]
  <1>1. m \in Nat /\ n \in Nat /\ DOMAIN cs = 1..m /\ DOMAIN Fetches(name) = 1..n
    BY FetchesLength DEF CallList
  <1>2. f = [j \in 1..m |-> f[j]] /\ g = [k \in 1..n |-> g[k]]
    BY <1>1
  <1>3. calls' = f \o g
    BY DEF Mount
  <1>4. \A j \in 1..m : f[j] = Unmount(cs[j]) /\ DOMAIN f[j] = CallFields /\ DOMAIN f[j].answer = AnswerFields
    BY <1>1 DEF CallList, Unmount, CallFields
  <1>5. \A k \in 1..n : /\ g[k] = Request(Fetches(name)[k], t.token, None, "load", {})
                        /\ DOMAIN g[k] = CallFields /\ DOMAIN g[k].answer = AnswerFields
    BY <1>1, RequestFields
  <1> HIDE DEF f, g, m, n
  <1>6. /\ Len(calls') = m + n /\ calls' = [i \in 1..(m + n) |-> calls'[i]]
        /\ \A i \in 1..m : calls'[i] = f[i]
        /\ \A i \in 1..n : calls'[m + i] = g[i]
    BY <1>1, <1>2, <1>3, ConcatFunctions, SMTT(60)
  <1>7. ASSUME NEW i \in DOMAIN calls'
        PROVE  DOMAIN calls'[i] = CallFields /\ DOMAIN calls'[i].answer = AnswerFields
    <2>1. CASE i <= m
      BY <1>1, <1>4, <1>6, <2>1
    <2>2. CASE i > m
      <3>1. i - m \in 1..n /\ m + (i - m) = i
        BY <1>1, <1>6, <2>2
      <3>2. calls'[i] = g[i - m]
        BY <1>6, <3>1
      <3> QED
        BY <1>5, <3>1, <3>2
    <2> QED
      BY <1>1, <1>6, <2>1, <2>2
  <1>8. CallsOK'
    BY <1>1, <1>6, <1>7 DEF CallsOK
  <1> QED
    BY <1>1, <1>4, <1>5, <1>6, <1>8 DEF m, n

LEMMA ForgetEffect ==
    ASSUME CallsOK, NEW i \in DOMAIN calls
    PROVE  /\ CallList(Forget(i)) /\ Len(Forget(i)) = Len(calls) /\ DOMAIN Forget(i) = DOMAIN calls
           /\ \A j \in DOMAIN calls : j # i => Forget(i)[j] = calls[j]
           /\ LET c == Forget(i)[i] IN
                /\ c.route = calls[i].route /\ c.user = calls[i].user /\ c.body = calls[i].body
                /\ c.at = "done" /\ c.then = None /\ c.seen = {} /\ c.answer = NoAnswer /\ c.loc = calls[i].loc
                /\ DOMAIN c = CallFields
  <1> DEFINE c == [calls[i] EXCEPT !.at = "done", !.then = None, !.seen = {}, !.answer = NoAnswer]
  <1>1. DOMAIN calls = 1..Len(calls) /\ DOMAIN calls[i] = CallFields /\ Len(calls) \in Nat
    BY DEF CallsOK
  <1>2. Forget(i) = [calls EXCEPT ![i] = c]
    BY <1>1 DEF Forget, CallFields
  <1>3. /\ c.route = calls[i].route /\ c.user = calls[i].user /\ c.body = calls[i].body
        /\ c.at = "done" /\ c.then = None /\ c.seen = {} /\ c.answer = NoAnswer /\ c.loc = calls[i].loc
        /\ DOMAIN c = CallFields
    BY <1>1 DEF CallFields
  <1>4. DOMAIN NoAnswer = AnswerFields
    BY DEF NoAnswer, AnswerFields
  <1> HIDE DEF c
  <1> DEFINE g == Forget(i)
  <1>5. g = [j \in 1..Len(calls) |-> IF j = i THEN c ELSE calls[j]]
    BY <1>1, <1>2
  <1>6. Len(g) = Len(calls)
    BY <1>1, <1>5
  <1>7. CallList(g)
    <2> HIDE DEF g
    <2> QED
      BY <1>1, <1>3, <1>4, <1>5, <1>6 DEF CallList, CallsOK
  <1> QED
    BY <1>1, <1>3, <1>5, <1>6, <1>7

\* Request d is what a page makes of request c: the answer may have been taken.
Leaves(c, d) ==
  /\ d.route = c.route /\ d.user = c.user /\ d.body = c.body /\ d.loc = c.loc
  /\ \/ d.at = c.at /\ d.answer = c.answer
     \/ c.at = "answered" /\ d.at = "done" /\ d.answer = NoAnswer

Fresh(c) ==
  /\ c.at = "sent" /\ c.loc = None /\ c.answer = NoAnswer
  /\ c.route = "POST/transfer" => c.body.amount \in Int

\* Requests stay, at most their answers are taken; new ones are at their beginning.
Sends ==
  /\ CallsOK' /\ Len(calls) <= Len(calls')
  /\ \A j \in DOMAIN calls : Leaves(calls[j], calls'[j])
  /\ \A j \in DOMAIN calls' : j > Len(calls) => Fresh(calls'[j])

PageStep == Sends /\ db' = db /\ faults' = faults /\ scene' = scene

LEMMA UnmountLeaves ==
    ASSUME NEW c, NEW d, Leaves(c, d), DOMAIN d = CallFields
    PROVE  Leaves(c, Unmount(d))
  BY DEF Leaves, Unmount, CallFields

\* What pages fetch when they are mounted.
Fetched == {"GET/stats", "GET/accounts", "GET/transactions", "GET/cards", "GET/beneficiaries",
            "GET/loans", "GET/profile", "GET/security-logs", "GET/settings", "GET/support"}

LEMMA FetchesAreReads ==
    ASSUME NEW name, NEW k \in DOMAIN Fetches(name)
    PROVE  /\ Fetches(name)[k] \in Fetched /\ name \in Dashboards
           /\ Fetches(name)[k] # "POST/transfer" /\ Fetches(name)[k] \notin {"POST/register", "POST/login"}
  <1>1. \/ Fetches(name) = <<>>
        \/ \E x \in Fetched : Fetches(name) = <<x>>
        \/ \E x, y \in Fetched : Fetches(name) = <<x, y>>
        \/ \E x, y, z \in Fetched : Fetches(name) = <<x, y, z>>
    BY DEF Fetches, Fetched
  <1>2. Fetches(name)[k] \in Fetched
    BY <1>1
  <1>3. name \notin Dashboards => Fetches(name) = <<>>
    BY DEF Fetches, Dashboards, NavItems
  <1> QED
    BY <1>2, <1>3 DEF Fetched

LEMMA FreshRequest ==
    ASSUME NEW route, NEW user, NEW body, NEW then, NEW seen,
           route = "POST/transfer" => body.amount \in Int
    PROVE  /\ Fresh(Request(route, user, body, then, seen))
           /\ DOMAIN Request(route, user, body, then, seen) = CallFields
           /\ DOMAIN Request(route, user, body, then, seen).answer = AnswerFields
  BY RequestFields DEF Fresh, Request

LEMMA MountSends ==
    ASSUME CallsOK, NEW name, NEW t, NEW cs, CallList(cs), Len(cs) = Len(calls),
           \A j \in DOMAIN calls : Leaves(calls[j], cs[j]), Mount(name, t, cs)
    PROVE  Sends
  <1>1. DOMAIN calls = 1..Len(calls) /\ DOMAIN cs = DOMAIN calls /\ Len(calls) \in Nat
    BY DEF CallsOK, CallList
  <1>2. /\ CallsOK' /\ Len(calls') = Len(calls) + Len(Fetches(name))
        /\ \A j \in DOMAIN cs : calls'[j] = Unmount(cs[j])
        /\ \A k \in 1..Len(Fetches(name)) :
             calls'[Len(calls) + k] = Request(Fetches(name)[k], t.token, None, "load", {})
    BY MountEffect
  <1>3. \A j \in DOMAIN calls : Leaves(calls[j], calls'[j])
    BY <1>1, <1>2, UnmountLeaves DEF CallList
  <1>4. ASSUME NEW j \in DOMAIN calls', j > Len(calls) PROVE Fresh(calls'[j])
    <2>1. DOMAIN calls' = 1..Len(calls') /\ Len(Fetches(name)) \in Nat
      BY <1>2, FetchesLength DEF CallsOK
    <2>2. j - Len(calls) \in 1..Len(Fetches(name)) /\ Len(calls) + (j - Len(calls)) = j
      BY <1>1, <1>2, <1>4, <2>1
    <2>3. calls'[j] = Request(Fetches(name)[j - Len(calls)], t.token, None, "load", {})
      BY <1>2, <2>2
    <2>4. Fetches(name)[j - Len(calls)] # "POST/transfer"
      BY <2>2, FetchesAreReads, FetchesLength
    <2> QED
      BY <2>3, <2>4, FreshRequest
  <1>5. Len(calls) <= Len(calls')
    BY <1>1, <1>2, FetchesLength
  <1> QED
    BY <1>2, <1>3, <1>4, <1>5 DEF Sends

LEMMA PushSends ==
    ASSUME CallsOK, NEW name, NEW t, NEW cs, CallList(cs), Len(cs) = Len(calls),
           \A j \in DOMAIN calls : Leaves(calls[j], cs[j]), Push(name, t, cs)
    PROVE  Sends
  <1>1. CASE Mount(name, t, cs)
    BY <1>1, MountSends
  <1>2. CASE calls' = cs
    <2>1. CallsOK'
      BY <1>2 DEF CallsOK, CallList
    <2>2. DOMAIN calls' = 1..Len(calls) /\ Len(calls) \in Nat
      BY <1>2 DEF CallsOK, CallList
    <2> QED
      BY <1>2, <2>1, <2>2 DEF Sends
  <1> QED
    BY <1>1, <1>2 DEF Push

LEMMA SendSends ==
    ASSUME CallsOK, NEW r, DOMAIN r = CallFields, DOMAIN r.answer = AnswerFields, Fresh(r), Send(r)
    PROVE  Sends
  <1>1. /\ CallsOK' /\ Len(calls') = Len(calls) + 1 /\ calls'[Len(calls) + 1] = r
        /\ \A j \in DOMAIN calls : calls'[j] = calls[j]
    BY SendEffect
  <1>2. Len(calls) \in Nat /\ DOMAIN calls = 1..Len(calls) /\ DOMAIN calls' = 1..(Len(calls) + 1)
    BY <1>1 DEF CallsOK
  <1> QED
    BY <1>1, <1>2 DEF Sends, Leaves

LEMMA SameSends == ASSUME CallsOK, calls' = calls PROVE Sends
  BY DEF CallsOK, Sends, Leaves

LEMMA ForgetLeaves ==
    ASSUME CallsOK, NEW i \in DOMAIN calls, calls[i].at = "answered"
    PROVE  /\ CallList(Forget(i)) /\ Len(Forget(i)) = Len(calls)
           /\ \A j \in DOMAIN calls : Leaves(calls[j], Forget(i)[j])
  BY ForgetEffect DEF Leaves

LEMMA ForgetSends ==
    ASSUME CallsOK, NEW i \in DOMAIN calls, calls[i].at = "answered", calls' = Forget(i)
    PROVE  Sends
  <1>1. /\ CallList(Forget(i)) /\ Len(Forget(i)) = Len(calls)
        /\ \A j \in DOMAIN calls : Leaves(calls[j], Forget(i)[j])
    BY ForgetLeaves
  <1>2. CallsOK'
    BY <1>1 DEF CallsOK, CallList
  <1>3. DOMAIN calls' = 1..Len(calls) /\ Len(calls) \in Nat
    BY <1>1 DEF CallList, CallsOK
  <1> QED
    BY <1>1, <1>2, <1>3 DEF Sends

LEMMA LoadAnsweredSends ==
    ASSUME CallsOK, LoadAnswered
    PROVE  PageStep
  <1> DEFINE D == DOMAIN calls
  <1>1. D = 1..Len(calls) /\ Len(calls) \in Nat
    BY DEF CallsOK
  <1>2. Waiting \subseteq D
    BY DEF Waiting
  <1>3. /\ calls' = [i \in D |-> calls'[i]]
        /\ \A i \in D : /\ Leaves(calls[i], calls'[i])
                        /\ DOMAIN calls'[i] = CallFields /\ DOMAIN calls'[i].answer = AnswerFields
    <2>1. CASE /\ \A i \in Waiting : calls[i].at = "answered"
               /\ calls' = [i \in D |-> IF i \in Waiting THEN Forget(i)[i] ELSE calls[i]]
      <3>1. ASSUME NEW i \in D
            PROVE  /\ Leaves(calls[i], calls'[i])
                   /\ DOMAIN calls'[i] = CallFields /\ DOMAIN calls'[i].answer = AnswerFields
        <4>1. CASE i \in Waiting
          BY <2>1, <4>1, ForgetLeaves DEF CallList
        <4>2. CASE i \notin Waiting
          BY <2>1, <4>2 DEF Leaves, CallsOK
        <4> QED
          BY <4>1, <4>2
      <3> QED
        BY <2>1, <3>1
    <2>2. CASE calls' = [i \in D |-> IF i \in Waiting THEN [calls[i] EXCEPT !.then = None] ELSE calls[i]]
      BY <2>2 DEF Leaves, CallsOK, CallFields
    <2> QED
      BY <2>1, <2>2 DEF LoadAnswered
  <1> HIDE DEF D
  <1>4. Len(calls') = Len(calls)
    BY <1>1, <1>3
  <1>5. CallsOK'
    BY <1>1, <1>3, <1>4 DEF CallsOK
  <1> QED
    BY <1>1, <1>3, <1>4, <1>5 DEF LoadAnswered, Stays, PageStep, Sends, D

LEMMA CallbackSends ==
    ASSUME CallsOK, Callback
    PROVE  PageStep
  <1>1. CASE LoadAnswered
    BY <1>1, LoadAnsweredSends
  <1>2. CASE TimerFires
    <2>1. CallList(calls) /\ \A j \in DOMAIN calls : Leaves(calls[j], calls[j])
      BY DEF CallList, CallsOK, Leaves
    <2>2. PICK t : Push("transactions", t, calls)
      BY <1>2 DEF TimerFires
    <2>3. Sends
      BY <2>1, <2>2, PushSends
    <2> QED
      BY <1>2, <2>3 DEF TimerFires, Stays, PageStep
  <1>3. ASSUME NEW i \in DOMAIN calls, SignedIn(i) PROVE PageStep
    <2>1. calls[i].at = "answered" /\ Stays
      BY <1>3 DEF SignedIn, Answered
    <2>2. CASE calls' = Forget(i)
      BY <2>1, <2>2, ForgetSends DEF PageStep, Stays
    <2>3. CASE \E t : Push("dashboard", t, Forget(i))
      <3>1. PICK t : Push("dashboard", t, Forget(i))
        BY <2>3
      <3>2. Sends
        BY <2>1, <3>1, ForgetLeaves, PushSends
      <3> QED
        BY <2>1, <3>2 DEF PageStep, Stays
    <2> QED
      BY <1>3, <2>2, <2>3 DEF SignedIn
  <1>4. ASSUME NEW i \in DOMAIN calls,
               \/ BeneficiaryAdded(i) \/ BeneficiaryDeleted(i) \/ TicketCreated(i)
               \/ ProfileSaved(i) \/ SettingChanged(i) \/ TransferAnswered(i)
        PROVE PageStep
    <2>1. calls[i].at = "answered" /\ Stays /\ calls' = Forget(i)
      BY <1>4 DEF BeneficiaryAdded, BeneficiaryDeleted, TicketCreated, ProfileSaved, SettingChanged,
                  TransferAnswered, Answered
    <2> QED
      BY <2>1, ForgetSends DEF PageStep, Stays
  <1> QED
    BY <1>1, <1>2, <1>3, <1>4 DEF Callback

LEMMA UserSends ==
    ASSUME CallsOK, scene \in Scenes, User \/ OtherClient
    PROVE  PageStep
  <1>1. ASSUME NEW r, Stays, Send(r), DOMAIN r = CallFields, DOMAIN r.answer = AnswerFields, Fresh(r)
        PROVE  PageStep
    BY <1>1, SendSends DEF PageStep, Stays
  <1>2. ASSUME NEW route, NEW user, NEW body, NEW then, NEW seen, Stays,
               Send(Request(route, user, body, then, seen)), route # "POST/transfer"
        PROVE  PageStep
    BY <1>1, <1>2, FreshRequest
  <1>3. ASSUME NEW name, NEW t, Push(name, t, calls), Stays PROVE PageStep
    <2>1. CallList(calls) /\ \A j \in DOMAIN calls : Leaves(calls[j], calls[j])
      BY DEF CallList, CallsOK, Leaves
    <2> QED
      BY <1>3, <2>1, PushSends DEF PageStep, Stays
  <1>4. ASSUME NEW name, Follow(name) PROVE PageStep
    BY <1>3, <1>4 DEF Follow, Stays
  <1>5. ASSUME NEW name, Open(name) PROVE PageStep
    <2> DEFINE cs == [i \in DOMAIN calls |-> [calls[i] EXCEPT !.then = None]]
    <2>1. CallList(cs) /\ Len(cs) = Len(calls)
      <3>1. DOMAIN calls = 1..Len(calls) /\ Len(calls) \in Nat
        BY DEF CallsOK
      <3>2. Len(cs) = Len(calls)
        BY <3>1
      <3> QED
        BY <3>1, <3>2 DEF CallList, CallsOK, CallFields
    <2>2. \A j \in DOMAIN calls : Leaves(calls[j], cs[j])
      BY DEF Leaves, CallsOK, CallFields
    <2>3. PICK t : Mount(name, t, cs)
      BY <1>5 DEF Open
    <2>4. Sends
      <3> HIDE DEF cs
      <3> QED
        BY <2>1, <2>2, <2>3, MountSends
    <2> QED
      BY <1>5, <2>4 DEF Open, PageStep
  <1>6. CASE SubmitLogin
    BY <1>2, <1>6 DEF SubmitLogin
  <1>7. CASE SubmitRegister
    <2>1. CASE calls' = calls
      BY <1>7, <2>1, SameSends DEF SubmitRegister, Stays, PageStep
    <2> QED
      BY <1>2, <1>7, <2>1 DEF SubmitRegister
  <1>8. CASE Toggle
    BY <1>8, SameSends DEF Toggle, Stays, PageStep
  <1>9. CASE AddBeneficiary \/ RemoveBeneficiary \/ CreateTicket \/ SaveProfile
    BY <1>2, <1>9 DEF AddBeneficiary, RemoveBeneficiary, CreateTicket, SaveProfile, AuthFetch
  <1>10. CASE ChangeSetting
    <2> DEFINE body == [complete |-> TRUE, name |-> "alerts", value |-> ~GetSetting(tab.page.settings, "alerts")]
               q == AuthFetch("PUT/settings", body)
               r == [q EXCEPT !.seen = tab.page.settings]
    <2>1. Fresh(q) /\ DOMAIN q = CallFields /\ DOMAIN q.answer = AnswerFields
      <3>1. q = Request("PUT/settings", tab.token, body, "answer", tab.page.list)
        BY DEF AuthFetch
      <3> HIDE DEF q, body
      <3> QED
        BY <3>1, FreshRequest
    <2>2. Stays /\ Send(r)
      BY <1>10 DEF ChangeSetting
    <2> HIDE DEF q
    <2>3. DOMAIN r = CallFields /\ DOMAIN r.answer = AnswerFields /\ Fresh(r)
      BY <2>1 DEF Fresh, CallFields
    <2> QED
      BY <1>1, <2>2, <2>3
  <1>11. CASE Logout
    BY <1>3, <1>11 DEF Logout
  <1>12. CASE SubmitTransfer
    <2>1. PICK amount \in scene.amounts : \E from, to :
            Send(AuthFetch("POST/transfer", [from |-> from, to |-> to, amount |-> amount]))
      BY <1>12 DEF SubmitTransfer
    <2>2. PICK from, to : Send(AuthFetch("POST/transfer", [from |-> from, to |-> to, amount |-> amount]))
      BY <2>1
    <2> DEFINE body == [from |-> from, to |-> to, amount |-> amount]
               r == Request("POST/transfer", tab.token, body, "answer", tab.page.list)
    <2>3. body.amount \in Int /\ Send(r) /\ Stays
      BY <1>12, <2>1, <2>2, ScenesAssumption DEF AuthFetch, SubmitTransfer
    <2>4. Fresh(r) /\ DOMAIN r = CallFields /\ DOMAIN r.answer = AnswerFields
      <3> HIDE DEF body
      <3> QED
        BY <2>3, FreshRequest
    <2> HIDE DEF r
    <2> QED
      BY <1>1, <2>3, <2>4
  <1>13. CASE OtherClient
    <2>1. PICK r \in scene.direct : Send(Request(r.route, r.user, r.body, None, {}))
      BY <1>13 DEF OtherClient
    <2>2. r.route = "POST/transfer" => r.body.amount \in Int
      BY <2>1, ScenesAssumption
    <2> QED
      BY <1>1, <1>13, <2>1, <2>2, FreshRequest DEF OtherClient
  <1> QED
    BY <1>4, <1>5, <1>6, <1>7, <1>8, <1>9, <1>10, <1>11, <1>12, <1>13 DEF User

LEMMA ConnectionFailsEffect ==
    ASSUME CallsOK, NEW i \in DOMAIN calls, ConnectionFails(i)
    PROVE  /\ Answers(i, -1, {}) /\ calls[i].at \in {"sent", "answered"}
           /\ faults > 0 /\ faults' = faults - 1 /\ db' = db /\ scene' = scene /\ tab' = tab
  <1>1. DOMAIN Unreachable = AnswerFields /\ Unreachable.status = -1 /\ Unreachable.rows = {}
    BY DEF Unreachable, NoAnswer, AnswerFields
  <1>2. Answers(i, Unreachable.status, Unreachable.rows)
    BY <1>1, StepEnds DEF ConnectionFails
  <1> QED
    BY <1>1, <1>2 DEF ConnectionFails, Fault

-----------------------------------------------------------------------------
(* Whose rows an answer holds.                                               *)

IdsIn(d, u) == {a.id : a \in {b \in d.accounts : b.owner = u}}

RowConcerns(d, r, u) ==
  \/ "owner" \in DOMAIN r /\ r.owner = u
  \/ "account" \in DOMAIN r /\ r.account \in IdsIn(d, u)
  \/ "from" \in DOMAIN r /\ (r.from \in IdsIn(d, u) \/ r.to \in IdsIn(d, u))
  \/ "loan" \in DOMAIN r /\ \E l \in d.loans : l.id = r.loan /\ l.owner = u

LEMMA ConcernsIn == \A r, u : Concerns(r, u) <=> RowConcerns(db, r, u)
  BY DEF Concerns, RowConcerns, IdsIn, AccountIds, AccountsOf, Touches

LEMMA IdsInDb == \A u : AccountIds(u) = IdsIn(db, u)
  BY DEF IdsIn, AccountIds, AccountsOf

\* What a handler has read in an earlier step belongs to the user.
LocalsOwn(d, c) ==
  /\ c.at \in {"cards", "transactions"} => c.loc \subseteq IdsIn(d, c.user)
  /\ c.at \in {"sums", "recent"} => "ids" \in DOMAIN c.loc /\ c.loc.ids \subseteq IdsIn(d, c.user)
  /\ c.route = "GET/loans" /\ c.at = "payments" =>
       \A x \in c.loc : "owner" \in DOMAIN x.row /\ x.row.owner = c.user
  /\ c.route = "GET/payments" /\ c.at = "payments" =>
       \E l \in d.loans : l.id = c.body.id /\ l.owner = c.user
  /\ c.route = "POST/transfer" /\ c.at \in {"receiver", "deduct", "add", "record"} =>
       c.body.from \in IdsIn(d, c.user)

RowsOwn(d, c) ==
  c.at = "answered" /\ ~Auth(c) => \A x \in c.answer.rows : RowConcerns(d, x.row, c.user)

TablesOK(d) ==
  /\ DOMAIN d = Tables
  /\ \A u \in d.users : DOMAIN u = {"owner", "email", "phone"}
  /\ \A a \in d.accounts : DOMAIN a = {"id", "owner", "balance"} /\ a.id # Undefined
  /\ \A t \in d.transactions : DOMAIN t = {"id", "from", "to", "amount"}
  /\ \A c \in d.cards : "account" \in DOMAIN c
  /\ \A p \in d.payments : "loan" \in DOMAIN p
  /\ \A r \in d.beneficiaries \cup d.tickets \cup d.logs \cup d.loans \cup d.settings :
       "owner" \in DOMAIN r

\* Accounts keep their ids and owners, and loans never change.
Grows(d, e) == (\A u : IdsIn(d, u) \subseteq IdsIn(e, u)) /\ e.loans = d.loans

LEMMA GrowsOwn ==
    ASSUME NEW d, NEW e, Grows(d, e), NEW c, LocalsOwn(d, c), RowsOwn(d, c)
    PROVE  LocalsOwn(e, c) /\ RowsOwn(e, c)
  <1>1. \A r, u : RowConcerns(d, r, u) => RowConcerns(e, r, u)
    BY DEF Grows, RowConcerns
  <1>2. RowsOwn(e, c)
    BY <1>1 DEF RowsOwn
  <1>3. LocalsOwn(e, c)
    BY DEF LocalsOwn, Grows
  <1> QED
    BY <1>2, <1>3

LEMMA MovedKeeps ==
    ASSUME TablesOK(db), NEW id, NEW amount
    PROVE  TablesOK(Moved(id, amount)) /\ Grows(db, Moved(id, amount))
  <1> DEFINE e == Moved(id, amount)
             move(a) == IF a.id = id THEN [a EXCEPT !.balance = @ + amount] ELSE a
  <1>1. e.accounts = {move(a) : a \in db.accounts}
    BY DEF Moved, TablesOK, Tables
  <1>2. \A a \in db.accounts : /\ move(a).id = a.id /\ move(a).owner = a.owner
                               /\ DOMAIN move(a) = {"id", "owner", "balance"}
    BY DEF TablesOK
  <1>3. DOMAIN e = Tables /\ \A t \in Tables \ {"accounts"} : e[t] = db[t]
    BY DEF Moved, TablesOK, Tables
  <1> HIDE DEF e, move
  <1>4. TablesOK(e)
    BY <1>1, <1>2, <1>3 DEF TablesOK, Tables
  <1>5. \A u : IdsIn(db, u) \subseteq IdsIn(e, u)
    BY <1>1, <1>2 DEF IdsIn
  <1>6. e.loans = db.loans
    BY <1>3 DEF Tables
  <1> QED
    BY <1>4, <1>5, <1>6 DEF Grows, e

\* The reads and the writes that come to nothing.
ReadOnly(i) ==
  \/ Unauthorized(i) \/ PostLogin(i)
  \/ GetAccounts(i) \/ GetCards(i) \/ GetTransactions(i) \/ GetStats(i)
  \/ GetLoans(i) \/ GetLoanPayments(i) \/ GetBeneficiaries(i) \/ GetTickets(i)
  \/ GetProfile(i) \/ GetSettings(i) \/ PutSettings(i) \/ GetSecurityLogs(i)

LEMMA ReadsChangeNothing ==
    ASSUME NEW i, ReadOnly(i)
    PROVE  db' = db
  <1> USE DEF ExecuteQuery, AnswersRows, Refuse
  <1>1. CASE Unauthorized(i)
    BY <1>1 DEF Unauthorized
  <1>2. CASE PostLogin(i)
    BY <1>2 DEF PostLogin
  <1>3. CASE GetAccounts(i) \/ GetBeneficiaries(i) \/ GetTickets(i) \/ GetSettings(i) \/ GetSecurityLogs(i)
    BY <1>3 DEF GetAccounts, GetBeneficiaries, GetTickets, GetSettings, GetSecurityLogs
  <1>4. CASE GetCards(i)
    BY <1>4 DEF GetCards
  <1>5. CASE GetTransactions(i)
    BY <1>5 DEF GetTransactions
  <1>6. CASE GetStats(i)
    BY <1>6 DEF GetStats
  <1>7. CASE GetLoans(i)
    BY <1>7 DEF GetLoans
  <1>8. CASE GetLoanPayments(i)
    BY <1>8 DEF GetLoanPayments
  <1>9. CASE GetProfile(i)
    BY <1>9 DEF GetProfile
  <1>10. CASE PutSettings(i)
    BY <1>10 DEF PutSettings
  <1> QED
    BY <1>1, <1>2, <1>3, <1>4, <1>5, <1>6, <1>7, <1>8, <1>9, <1>10 DEF ReadOnly

LEMMA HandlerTables ==
    ASSUME TablesOK(db), CallsOK, NEW i \in DOMAIN calls, Handle(i)
    PROVE  TablesOK(db') /\ Grows(db, db')
  <1>1. CASE db' = db
    BY <1>1 DEF Grows
  <1>2. ASSUME NEW X, db' = [db EXCEPT !.users = X], \A u \in X : DOMAIN u = {"owner", "email", "phone"}
        PROVE  TablesOK(db') /\ Grows(db, db')
    <2>1. DOMAIN db' = Tables /\ db'.users = X /\ \A s \in Tables \ {"users"} : db'[s] = db[s]
      BY <1>2 DEF TablesOK, Tables
    <2> QED
      BY <1>2, <2>1 DEF TablesOK, Tables, Grows, IdsIn
  <1>3. ASSUME NEW a, db' = [db EXCEPT !.accounts = @ \cup {a}],
               DOMAIN a = {"id", "owner", "balance"}, a.id # Undefined
        PROVE  TablesOK(db') /\ Grows(db, db')
    <2>1. /\ DOMAIN db' = Tables /\ db'.accounts = db.accounts \cup {a}
          /\ \A s \in Tables \ {"accounts"} : db'[s] = db[s]
      BY <1>3 DEF TablesOK, Tables
    <2> QED
      BY <1>3, <2>1 DEF TablesOK, Tables, Grows, IdsIn
  <1>4. ASSUME NEW X, db' = [db EXCEPT !.beneficiaries = X], \A r \in X : "owner" \in DOMAIN r
        PROVE  TablesOK(db') /\ Grows(db, db')
    <2>1. DOMAIN db' = Tables /\ db'.beneficiaries = X /\ \A s \in Tables \ {"beneficiaries"} : db'[s] = db[s]
      BY <1>4 DEF TablesOK, Tables
    <2> QED
      BY <1>4, <2>1 DEF TablesOK, Tables, Grows, IdsIn
  <1>5. ASSUME NEW X, db' = [db EXCEPT !.tickets = X], \A r \in X : "owner" \in DOMAIN r
        PROVE  TablesOK(db') /\ Grows(db, db')
    <2>1. DOMAIN db' = Tables /\ db'.tickets = X /\ \A s \in Tables \ {"tickets"} : db'[s] = db[s]
      BY <1>5 DEF TablesOK, Tables
    <2> QED
      BY <1>5, <2>1 DEF TablesOK, Tables, Grows, IdsIn
  <1>6. ASSUME NEW t, db' = [db EXCEPT !.transactions = @ \cup {t}], DOMAIN t = {"id", "from", "to", "amount"}
        PROVE  TablesOK(db') /\ Grows(db, db')
    <2>1. /\ DOMAIN db' = Tables /\ db'.transactions = db.transactions \cup {t}
          /\ \A s \in Tables \ {"transactions"} : db'[s] = db[s]
      BY <1>6 DEF TablesOK, Tables
    <2> QED
      BY <1>6, <2>1 DEF TablesOK, Tables, Grows, IdsIn
  <1>7. ASSUME NEW id, NEW amount, db' = Moved(id, amount) PROVE TablesOK(db') /\ Grows(db, db')
    BY <1>7, MovedKeeps
  <1>8. CASE ReadOnly(i)
    BY <1>1, <1>8, ReadsChangeNothing
  <1>9. CASE PostRegister(i)
    <2> DEFINE user == [owner |-> i, email |-> calls[i].body.email, phone |-> calls[i].body.phone]
               account == [id |-> i, owner |-> i, balance |-> 0]
    <2>1. \/ db' = db \/ db' = [db EXCEPT !.users = @ \cup {user}]
          \/ db' = [db EXCEPT !.accounts = @ \cup {account}]
      BY <1>9 DEF PostRegister, ExecuteQuery, ExecuteWriteQuery, Refuse
    <2>2. DOMAIN user = {"owner", "email", "phone"} /\ DOMAIN account = {"id", "owner", "balance"}
      OBVIOUS
    <2>3. account.id # Undefined
      BY ValuesAssumption DEF CallsOK
    <2>4. \A u \in db.users \cup {user} : DOMAIN u = {"owner", "email", "phone"}
      BY <2>2 DEF TablesOK
    <2> HIDE DEF user, account
    <2> QED
      BY <1>1, <1>2, <1>3, <2>1, <2>2, <2>3, <2>4
  <1>10. CASE PostBeneficiary(i) \/ DeleteBeneficiary(i)
    <2>1. \/ db' = db \/ db' = [db EXCEPT !.beneficiaries = @ \cup {NewRow(i)}]
          \/ \E mine : db' = [db EXCEPT !.beneficiaries = @ \ mine]
      BY <1>10 DEF PostBeneficiary, DeleteBeneficiary, ExecuteQuery, ExecuteWriteQuery, Refuse
    <2>2. "owner" \in DOMAIN NewRow(i)
      BY DEF NewRow
    <2> QED
      BY <1>1, <1>4, <2>1, <2>2 DEF TablesOK
  <1>11. CASE PostTicket(i)
    <2>1. db' = db \/ db' = [db EXCEPT !.tickets = @ \cup {NewRow(i)}]
      BY <1>11 DEF PostTicket, ExecuteWriteQuery, Refuse
    <2>2. "owner" \in DOMAIN NewRow(i)
      BY DEF NewRow
    <2> QED
      BY <1>1, <1>5, <2>1, <2>2 DEF TablesOK
  <1>12. CASE PutProfile(i)
    <2> DEFINE saved(u) == [u EXCEPT !.email = calls[i].body.email, !.phone = calls[i].body.phone]
               mine == {u \in db.users : u.owner = calls[i].user}
               X == (db.users \ mine) \cup {saved(u) : u \in mine}
    <2>1. db' = db \/ db' = [db EXCEPT !.users = X]
      BY <1>12 DEF PutProfile, ExecuteWriteQuery
    <2>2. \A u \in X : DOMAIN u = {"owner", "email", "phone"}
      BY DEF TablesOK
    <2> HIDE DEF X
    <2> QED
      BY <1>1, <1>2, <2>1, <2>2
  <1>13. CASE PostTransfer(i)
    <2> DEFINE record == [id |-> i, from |-> calls[i].body.from, to |-> calls[i].body.to,
                          amount |-> calls[i].body.amount]
    <2>1. \/ db' = db \/ \E id, amount : db' = Moved(id, amount)
          \/ db' = [db EXCEPT !.transactions = @ \cup {record}]
      <3> DEFINE body == calls[i].body
                 A == Moved(body.from, -body.amount)
                 B == Moved(body.to, body.amount)
                 C == Moved(body.from, body.amount)
                 D == Moved(body.to, -body.amount)
      <3>1. db' \in {db, A, B, C, D, [db EXCEPT !.transactions = @ \cup {record}]}
        BY <1>13, TransferSteps DEF TransferStep, Write
      <3> QED
        BY <3>1
    <2>2. DOMAIN record = {"id", "from", "to", "amount"}
      OBVIOUS
    <2> HIDE DEF record
    <2> QED
      BY <1>1, <1>6, <1>7, <2>1, <2>2
  <1> QED
    BY <1>8, <1>9, <1>10, <1>11, <1>12, <1>13 DEF Handle, ReadOnly

Owns(i) == LocalsOwn(db, calls'[i]) /\ RowsOwn(db, calls'[i])

LEMMA AnswerOwn ==
    ASSUME CallsOK, NEW i \in DOMAIN calls, NEW status, NEW rows, Answers(i, status, rows),
           Auth(calls[i]) \/ \A x \in rows : RowConcerns(db, x.row, calls[i].user)
    PROVE  Owns(i)
  <1>1. /\ calls'[i].at = "answered" /\ calls'[i].answer.rows = rows
        /\ calls'[i].user = calls[i].user /\ calls'[i].route = calls[i].route
    BY DEF Answers, Reaches, SameRequest
  <1> QED
    BY <1>1 DEF Owns, LocalsOwn, RowsOwn, Auth

LEMMA ContinueOwn ==
    ASSUME CallsOK, NEW i \in DOMAIN calls, NEW at, NEW loc, Continues(i, at, loc), at # "answered",
           LocalsOwn(db, [route |-> calls[i].route, user |-> calls[i].user, body |-> calls[i].body,
                          at |-> at, loc |-> loc])
    PROVE  Owns(i)
  <1>1. /\ calls'[i].at = at /\ calls'[i].loc = loc
        /\ calls'[i].user = calls[i].user /\ calls'[i].route = calls[i].route /\ calls'[i].body = calls[i].body
    BY DEF Continues, Reaches, SameRequest
  <1> QED
    BY <1>1 DEF Owns, LocalsOwn, RowsOwn

LEMMA HandlerOwns ==
    ASSUME TablesOK(db), CallsOK, NEW i \in DOMAIN calls, LocalsOwn(db, calls[i]), Handle(i)
    PROVE  Owns(i)
  <1> DEFINE c == calls[i]
             u == c.user
             Mine(rows) == \A x \in rows : RowConcerns(db, x.row, u)
             Rest(at, loc) == LocalsOwn(db, [route |-> c.route, user |-> u, body |-> c.body, at |-> at, loc |-> loc])
  <1>1. ASSUME NEW a, DOMAIN a = AnswerFields, AnswerWith(i, a), Mine(a.rows) PROVE Owns(i)
    BY <1>1, StepEnds, AnswerOwn
  <1>2. ASSUME NEW status, Respond(i, status) PROVE Owns(i)
    <2>1. Answers(i, status, {})
      BY <1>2, StepEnds
    <2> QED
      BY <2>1, AnswerOwn
  <1>3. ASSUME NEW rows, RespondRows(i, rows), Auth(c) \/ Mine(rows) PROVE Owns(i)
    <2>1. Answers(i, 200, rows)
      BY <1>3, StepEnds
    <2> QED
      BY <1>3, <2>1, AnswerOwn
  <1>4. ASSUME NEW at, NEW loc, GoOn(i, at, loc), at # "answered", Rest(at, loc) PROVE Owns(i)
    <2>1. Continues(i, at, loc)
      BY <1>4, StepEnds
    <2> QED
      BY <1>4, <2>1, ContinueOwn
  <1>5. AccountIds(u) = IdsIn(db, u)
    BY IdsInDb
  <1> HIDE DEF Mine, Rest, c, u
  <1>6. CASE Unauthorized(i)
    BY <1>2, <1>6 DEF Unauthorized
  <1>7. ASSUME NEW rows, AnswersRows(i, rows), Mine(rows) PROVE Owns(i)
    BY <1>2, <1>3, <1>7 DEF AnswersRows, ExecuteQuery
  <1>8. ASSUME NEW X, \A r \in X : RowConcerns(db, r, u) PROVE Mine(Star(X)) /\ Mine(Plain(X))
    BY <1>8 DEF Mine, Star, Plain
  <1>9. CASE PostRegister(i)
    <2>1. Auth(c)
      BY <1>9 DEF PostRegister, At, Auth, c
    <2>2. c.route = "POST/register"
      BY <1>9 DEF PostRegister, At, c
    <2>3. Rest("insert-user", None) /\ Rest("insert-account", None)
      BY <2>2 DEF Rest, LocalsOwn
    <2> QED
      BY <1>2, <1>3, <1>4, <1>9, <2>1, <2>3 DEF PostRegister, ExecuteQuery, ExecuteWriteQuery, Refuse
  <1>10. CASE PostLogin(i)
    <2>1. Auth(c)
      BY <1>10 DEF PostLogin, At, Auth, c
    <2> QED
      BY <1>2, <1>3, <1>10, <2>1, ZenonT(60) DEF PostLogin, ExecuteQuery, Refuse
  <1>11. CASE GetAccounts(i)
    <2>1. Mine(Plain(AccountsOf(u)))
      BY <1>8 DEF AccountsOf, RowConcerns, TablesOK
    <2> QED
      BY <1>7, <1>11, <2>1 DEF GetAccounts, u, c
  <1>12. CASE GetCards(i)
    <2>1. CASE c.at = "cards"
      <3> DEFINE X == {x \in db.cards : x.account \in calls[i].loc}
      <3>1. \A x \in X : RowConcerns(db, x, u)
        BY <2>1 DEF RowConcerns, LocalsOwn, TablesOK, u, c
      <3>2. Mine(Star(X))
        BY <1>8, <3>1
      <3> HIDE DEF X
      <3>3. AnswersRows(i, Star(X))
        BY <1>12, <2>1 DEF GetCards, Authorized, At, c, X
      <3> QED
        BY <1>7, <3>2, <3>3
    <2>2. CASE c.at # "cards"
      <3>1. Mine({}) /\ c.route = "GET/cards" /\ Rest("cards", AccountIds(u))
        BY <1>5, <1>12 DEF Mine, Rest, LocalsOwn, GetCards, Authorized, At, c
      <3> QED
        BY <1>2, <1>3, <1>4, <1>12, <2>2, <3>1 DEF GetCards, ExecuteQuery, At, u, c
    <2> QED
      BY <2>1, <2>2
  <1>13. CASE GetTransactions(i)
    <2>1. CASE c.at = "transactions"
      <3> DEFINE mine(x) == Field(x, "from") \in calls[i].loc \/ Field(x, "to") \in calls[i].loc
                 X == {x \in Star(db.transactions) : mine(x)}
      <3>1. Undefined \notin c.loc
        BY <2>1 DEF LocalsOwn, IdsIn, TablesOK, c
      <3>2. \A x \in Star(db.transactions) : Field(x, "from") = Undefined /\ Field(x, "to") = Undefined
        BY DEF Star, Field
      <3>3. X = {}
        BY <3>1, <3>2 DEF c
      <3>4. Mine(X)
        BY <3>3 DEF Mine
      <3> HIDE DEF X
      <3>5. AnswersRows(i, X)
        BY <1>13, <2>1 DEF GetTransactions, Authorized, At, c, X
      <3> QED
        BY <1>7, <3>4, <3>5
    <2>2. CASE c.at # "transactions"
      <3>1. Mine({}) /\ Rest("transactions", AccountIds(u))
        BY <1>5, <1>13 DEF Mine, Rest, LocalsOwn, GetTransactions, Authorized, At, c
      <3> QED
        BY <1>2, <1>3, <1>4, <1>13, <2>2, <3>1 DEF GetTransactions, ExecuteQuery, At, u, c
    <2> QED
      BY <2>1, <2>2
  <1>14. CASE GetStats(i)
    <2> DEFINE zeros == [NoAnswer EXCEPT !.status = 200, !.sums = NoStats]
               first == [ids |-> AccountIds(u), sums |-> [total |-> None, spent |-> None]]
               X == {t \in db.transactions : Touches(t, calls[i].loc.ids)}
               recent == [status |-> 200, sums |-> calls[i].loc.sums, rows |-> Plain(X)]
               spent(f, n) == [calls[i].loc EXCEPT !.sums[f] = n]
    <2>1. DOMAIN zeros = AnswerFields /\ Mine(zeros.rows)
      BY DEF NoAnswer, AnswerFields, Mine
    <2>2. AnswerWith(i, zeros) => Owns(i)
      <3> HIDE DEF zeros
      <3> QED
        BY <1>1, <2>1
    <2>3. GoOn(i, "sums", first) => Owns(i)
      <3>1. Rest("sums", first)
        BY <1>5, <1>14 DEF Rest, LocalsOwn, GetStats, Authorized, At, c
      <3> HIDE DEF first
      <3> QED
        BY <1>4, <3>1
    <2>4. c.at \in {"sums", "recent"} /\ AnswerWith(i, recent) => Owns(i)
      <3>1. SUFFICES ASSUME c.at \in {"sums", "recent"}, AnswerWith(i, recent) PROVE Owns(i)
        OBVIOUS
      <3>2. \A t \in X : RowConcerns(db, t, u)
        BY <3>1 DEF RowConcerns, Touches, LocalsOwn, TablesOK, u, c
      <3>3. Mine(Plain(X))
        BY <1>8, <3>2
      <3>4. DOMAIN recent = AnswerFields /\ recent.rows = Plain(X)
        BY DEF AnswerFields
      <3> HIDE DEF recent, X
      <3> QED
        BY <1>1, <3>1, <3>3, <3>4
    <2>5. ASSUME NEW at \in {"sums", "recent"}, NEW f, NEW n, c.at = "sums", GoOn(i, at, spent(f, n)) PROVE Owns(i)
      <3>1. "ids" \in DOMAIN calls[i].loc
        BY <2>5 DEF LocalsOwn, c
      <3>2. spent(f, n).ids = c.loc.ids /\ "ids" \in DOMAIN spent(f, n)
        BY <3>1 DEF c
      <3>3. Rest(at, spent(f, n))
        BY <1>14, <2>5, <3>2 DEF Rest, LocalsOwn, GetStats, Authorized, At, u, c
      <3> HIDE DEF spent
      <3> QED
        BY <1>4, <2>5, <3>3
    <2> HIDE DEF zeros, first, recent
    <2>6. CASE c.at = "sent"
      BY <1>2, <1>14, <2>2, <2>3, <2>6 DEF GetStats, ExecuteQuery, At, u, c, zeros, first
    <2>7. CASE c.at = "recent"
      BY <1>2, <1>14, <2>2, <2>4, <2>7 DEF GetStats, ExecuteQuery, At, Authorized, c, zeros, recent
    <2>8. CASE c.at = "sums"
      BY <1>2, <1>14, <2>2, <2>5, <2>8 DEF GetStats, ExecuteQuery, At, Authorized, c, zeros
    <2> QED
      BY <1>14, <2>6, <2>7, <2>8 DEF GetStats, At, Authorized, c
  <1>15. CASE GetLoans(i)
    <2> DEFINE found == Star({l \in db.loans : l.owner = u})
               payments == Plain({p \in db.payments : p.loan \in {Field(x, "id") : x \in calls[i].loc}})
               X == {[row |-> x.row, star |-> x.star, remaining |-> LoanAnswer(x, payments)] : x \in calls[i].loc}
    <2>1. c.route = "GET/loans"
      BY <1>15 DEF GetLoans, Authorized, At, c
    <2>2. CASE c.at = "payments"
      <3>1. \A x \in X : \E y \in c.loc : x.row = y.row
        <4> HIDE DEF payments
        <4> QED
          BY DEF c
      <3>2. Mine(X)
        BY <2>1, <2>2, <3>1 DEF Mine, LocalsOwn, RowConcerns, c, u
      <3>3. AnswersRows(i, X)
        BY <1>15, <2>2 DEF GetLoans, Authorized, At, c
      <3> HIDE DEF X
      <3> QED
        BY <1>7, <3>2, <3>3
    <2>3. CASE c.at # "payments"
      <3>1. \A x \in found : "owner" \in DOMAIN x.row /\ x.row.owner = u
        BY DEF Star, TablesOK
      <3> HIDE DEF found
      <3>2. Mine({}) /\ Rest("payments", found)
        BY <2>1, <3>1 DEF Mine, Rest, LocalsOwn
      <3> QED
        BY <1>2, <1>3, <1>4, <1>15, <2>3, <3>2 DEF GetLoans, ExecuteQuery, At, u, c, found
    <2> QED
      BY <2>2, <2>3
  <1>16. CASE GetLoanPayments(i)
    <2> DEFINE X == {p \in db.payments : p.loan = calls[i].body.id}
    <2>1. c.route = "GET/payments"
      BY <1>16 DEF GetLoanPayments, Authorized, At, c
    <2>2. CASE c.at = "payments"
      <3>1. \A p \in X : RowConcerns(db, p, u)
        BY <2>1, <2>2 DEF RowConcerns, LocalsOwn, TablesOK, u, c
      <3>2. Mine(Star(X))
        BY <1>8, <3>1
      <3> HIDE DEF X
      <3>3. AnswersRows(i, Star(X))
        BY <1>16, <2>2 DEF GetLoanPayments, Authorized, At, c, X
      <3> QED
        BY <1>7, <3>2, <3>3
    <2>3. CASE c.at # "payments"
      <3>1. (\E l \in db.loans : l.id = calls[i].body.id /\ l.owner = calls[i].user) => Rest("payments", None)
        BY <2>1 DEF Rest, LocalsOwn, u, c
      <3> QED
        BY <1>2, <1>4, <1>16, <2>3, <3>1 DEF GetLoanPayments, ExecuteQuery, At, c
    <2> QED
      BY <2>2, <2>3
  <1>17. ASSUME NEW X, \A r \in X : "owner" \in DOMAIN r /\ r.owner = u, AnswersRows(i, Star(X)) PROVE Owns(i)
    <2>1. Mine(Star(X))
      BY <1>8, <1>17 DEF RowConcerns
    <2> QED
      BY <1>7, <1>17, <2>1
  <1>18. CASE GetBeneficiaries(i) \/ GetTickets(i) \/ GetSettings(i) \/ GetSecurityLogs(i)
    <2>1. \E t \in {"beneficiaries", "tickets", "settings", "logs"} :
            AnswersRows(i, Star({r \in db[t] : r.owner = calls[i].user}))
      BY <1>18 DEF GetBeneficiaries, GetTickets, GetSettings, GetSecurityLogs
    <2>2. PICK t \in {"beneficiaries", "tickets", "settings", "logs"} :
            AnswersRows(i, Star({r \in db[t] : r.owner = calls[i].user}))
      BY <2>1
    <2>3. \A r \in {x \in db[t] : x.owner = calls[i].user} : "owner" \in DOMAIN r /\ r.owner = u
      BY <2>2 DEF TablesOK, u, c
    <2> QED
      BY <1>17, <2>2, <2>3
  <1>19. CASE GetProfile(i)
    <2> DEFINE X == {v \in db.users : v.owner = calls[i].user}
    <2>1. \A v \in X : RowConcerns(db, v, u)
      BY DEF RowConcerns, TablesOK, u, c
    <2>2. Mine(Plain(X))
      BY <1>8, <2>1
    <2> HIDE DEF X
    <2> QED
      BY <1>2, <1>3, <1>19, <2>2 DEF GetProfile, ExecuteQuery, X
  <1>20. Mine(Plain({NewRow(i)})) /\ Mine({})
    <2>1. "owner" \in DOMAIN NewRow(i) /\ NewRow(i).owner = u
      BY DEF NewRow, u, c
    <2> QED
      BY <1>8, <2>1 DEF RowConcerns, Mine
  <1>21. CASE PostBeneficiary(i)
    BY <1>2, <1>3, <1>20, <1>21 DEF PostBeneficiary, ExecuteWriteQuery, Refuse
  <1>22. CASE PostTicket(i)
    BY <1>2, <1>3, <1>20, <1>22 DEF PostTicket, ExecuteWriteQuery, Refuse
  <1>23. CASE DeleteBeneficiary(i)
    <2>1. Rest("delete", None)
      BY DEF Rest, LocalsOwn
    <2> QED
      BY <1>2, <1>3, <1>4, <1>20, <1>23, <2>1 DEF DeleteBeneficiary, ExecuteQuery, ExecuteWriteQuery, Refuse
  <1>24. CASE PutProfile(i)
    <2> DEFINE echo == [owner |-> calls[i].user, email |-> calls[i].body.email, phone |-> calls[i].body.phone]
    <2>1. RowConcerns(db, echo, u)
      BY DEF RowConcerns, u, c
    <2>2. Mine(Plain({echo}))
      <3> HIDE DEF echo
      <3> QED
        BY <1>8, <2>1
    <2> QED
      BY <1>2, <1>3, <1>24, <2>2 DEF PutProfile, ExecuteWriteQuery
  <1>25. CASE PutSettings(i)
    BY <1>2, <1>25 DEF PutSettings
  <1>26. CASE PostTransfer(i)
    <2> DEFINE record == [id |-> i, from |-> c.body.from, to |-> c.body.to, amount |-> c.body.amount]
    <2>1. TransferStep(i) /\ c.route = "POST/transfer"
      BY <1>26, TransferSteps DEF c
    <2>2. ASSUME NEW at, Continues(i, at, None),
                 at \in {"receiver", "deduct", "add", "record"} => c.body.from \in IdsIn(db, u),
                 at \in {"receiver", "deduct", "add", "record", "undo-deduct", "undo-add"}
          PROVE  Owns(i)
      <3>1. Rest(at, None)
        BY <2>1, <2>2 DEF Rest, LocalsOwn
      <3> QED
        BY <2>2, <3>1, ContinueOwn DEF Rest, u, c
    <2>3. Refused(i) => Owns(i)
      BY AnswerOwn DEF Refused
    <2>4. c.at \in {"receiver", "deduct", "add", "record"} => c.body.from \in IdsIn(db, u)
      BY <2>1 DEF LocalsOwn, u, c
    <2>5. c.at = "record" /\ Answers(i, 200, Plain({record})) => Owns(i)
      <3>1. c.at = "record" => RowConcerns(db, record, u)
        BY <2>4 DEF RowConcerns
      <3>2. c.at = "record" => \A x \in Plain({record}) : RowConcerns(db, x.row, u)
        <4> HIDE DEF record
        <4> QED
          BY <3>1 DEF Plain
      <3> HIDE DEF record
      <3> QED
        BY <3>2, AnswerOwn DEF u, c
    <2> HIDE DEF record
    <2> QED
      BY <1>5, <2>1, <2>2, <2>3, <2>4, <2>5 DEF TransferStep, Write, record, u, c
  <1> QED
    BY <1>6, <1>9, <1>10, <1>11, <1>12, <1>13, <1>14, <1>15, <1>16, <1>18, <1>19, <1>21, <1>22, <1>23, <1>24,
       <1>25, <1>26 DEF Handle

OwnInv ==
  /\ CallsOK /\ scene \in Scenes /\ TablesOK(db)
  /\ \A j \in DOMAIN calls : LocalsOwn(db, calls[j]) /\ RowsOwn(db, calls[j])

LEMMA InitOwn == Init => OwnInv
  <1> SUFFICES ASSUME Init PROVE OwnInv
    OBVIOUS
  <1>1. scene \in Scenes /\ Sound(db) /\ calls = <<>>
    BY ScenesAssumption DEF Init
  <1>2. TablesOK(db)
    BY <1>1 DEF Sound, TablesOK
  <1>3. CallsOK /\ DOMAIN calls = {}
    BY <1>1 DEF CallsOK
  <1> QED
    BY <1>1, <1>2, <1>3 DEF OwnInv

\* The requests of a page that goes on, or of one that takes over.
LEMMA PageOwns ==
    ASSUME OwnInv, PageStep
    PROVE  OwnInv'
  <1>1. CallsOK' /\ db' = db /\ scene' = scene /\ TablesOK(db')
    BY DEF PageStep, Sends, OwnInv
  <1>2. ASSUME NEW j \in DOMAIN calls' PROVE LocalsOwn(db, calls'[j]) /\ RowsOwn(db, calls'[j])
    <2>1. CASE j \in DOMAIN calls
      <3>1. Leaves(calls[j], calls'[j]) /\ LocalsOwn(db, calls[j]) /\ RowsOwn(db, calls[j])
        BY <2>1 DEF PageStep, Sends, OwnInv
      <3> QED
        BY <3>1 DEF Leaves, LocalsOwn, RowsOwn, Auth
    <2>2. CASE j \notin DOMAIN calls
      <3>1. Fresh(calls'[j])
        BY <1>2, <2>2 DEF PageStep, Sends, OwnInv, CallsOK
      <3> QED
        BY <3>1 DEF Fresh, LocalsOwn, RowsOwn
    <2> QED
      BY <2>1, <2>2
  <1> QED
    BY <1>1, <1>2 DEF OwnInv

LEMMA HandlerKeepsOwn ==
    ASSUME OwnInv, NEW i \in DOMAIN calls, Handle(i), scene' = scene
    PROVE  OwnInv'
  <1>1. TablesOK(db') /\ Grows(db, db')
    BY HandlerTables DEF OwnInv
  <1>2. CallsOK' /\ Reaches(i, calls'[i].at) /\ Owns(i)
    BY HandlerMoves, HandlerOwns DEF Moves, Advances, OwnInv
  <1>3. DOMAIN calls' = DOMAIN calls
    BY <1>2 DEF Reaches, CallsOK, OwnInv
  <1>4. ASSUME NEW j \in DOMAIN calls PROVE LocalsOwn(db, calls'[j]) /\ RowsOwn(db, calls'[j])
    BY <1>2 DEF Reaches, Owns, OwnInv
  <1>5. \A j \in DOMAIN calls : LocalsOwn(db', calls'[j]) /\ RowsOwn(db', calls'[j])
    BY <1>1, <1>4, GrowsOwn
  <1> QED
    BY <1>1, <1>2, <1>3, <1>5 DEF OwnInv

LEMMA NextOwn == OwnInv /\ [Next]_vars => OwnInv'
  <1> SUFFICES ASSUME OwnInv, [Next]_vars PROVE OwnInv'
    OBVIOUS
  <1>1. ASSUME NEW i \in DOMAIN calls, Handle(i), UNCHANGED <<scene, tab>> PROVE OwnInv'
    BY <1>1, HandlerKeepsOwn
  <1>2. CASE Callback \/ User \/ OtherClient
    BY <1>2, CallbackSends, UserSends, PageOwns DEF OwnInv
  <1>3. ASSUME NEW i \in DOMAIN calls, ConnectionFails(i) PROVE OwnInv'
    <2>1. Answers(i, -1, {}) /\ db' = db /\ scene' = scene
      BY <1>3, ConnectionFailsEffect DEF OwnInv
    <2>2. Owns(i)
      BY <2>1, AnswerOwn DEF OwnInv
    <2>3. CallsOK' /\ DOMAIN calls' = DOMAIN calls /\ \A j \in DOMAIN calls : j # i => calls'[j] = calls[j]
      BY <2>1 DEF Answers, Reaches, CallsOK, OwnInv
    <2> QED
      BY <2>1, <2>2, <2>3 DEF OwnInv, Owns
  <1>4. CASE UNCHANGED vars
    BY <1>4 DEF vars, apiVars, OwnInv, CallsOK
  <1> QED
    BY <1>1, <1>2, <1>3, <1>4 DEF Next, Serve

\* No answer holds a row of anybody but the user the request names, for any number of
\* requests and users: what a handler has read before stays the user's, because no
\* account changes its owner and no loan changes at all while handlers interleave.
THEOREM RowsAreOwn == Spec => []OwnRowsOnly
  <1>1. OwnInv => OwnRowsOnly
    BY ConcernsIn DEF OwnInv, OwnRowsOnly, RowsOwn
  <1> QED
    BY <1>1, InitOwn, NextOwn, PTL DEF Spec

-----------------------------------------------------------------------------
(* Registration: what its steps do to users and accounts.                    *)

LEMMA HandlerByRoute ==
    ASSUME NEW i, Handle(i)
    PROVE  /\ calls[i].route = "POST/register" \/ calls[i].at = "insert-account" => PostRegister(i)
           /\ calls[i].route = "POST/login" => PostLogin(i)
           /\ calls[i].route # "PUT/profile" => ~PutProfile(i)
  <1> USE DEF At, Authorized
  <1>1. CASE PostRegister(i) \/ PostLogin(i)
    BY <1>1 DEF PostRegister, PostLogin, PutProfile
  <1>2. CASE Unauthorized(i) \/ GetAccounts(i) \/ GetCards(i) \/ GetTransactions(i) \/ GetStats(i)
    BY <1>2 DEF Unauthorized, GetAccounts, GetCards, GetTransactions, GetStats, PutProfile
  <1>3. CASE GetLoans(i) \/ GetLoanPayments(i) \/ GetBeneficiaries(i) \/ PostBeneficiary(i) \/ DeleteBeneficiary(i)
    BY <1>3 DEF GetLoans, GetLoanPayments, GetBeneficiaries, PostBeneficiary, DeleteBeneficiary, PutProfile
  <1>4. CASE GetTickets(i) \/ PostTicket(i) \/ GetProfile(i) \/ PutProfile(i) \/ GetSettings(i) \/ PutSettings(i)
    BY <1>4 DEF GetTickets, PostTicket, GetProfile, PutProfile, GetSettings, PutSettings
  <1>5. CASE GetSecurityLogs(i) \/ PostTransfer(i)
    BY <1>5 DEF GetSecurityLogs, PostTransfer, UndoTransfer, PutProfile
  <1> QED
    BY <1>1, <1>2, <1>3, <1>4, <1>5 DEF Handle

RegisterStep(i) ==
  LET body == calls[i].body
      user == [owner |-> i, email |-> body.email, phone |-> body.phone]
      account == [id |-> i, owner |-> i, balance |-> 0]
  IN
  \/ /\ calls[i].at = "sent" /\ db' = db /\ (faults' = faults \/ faults' = faults - 1)
     /\ \/ Continues(i, "insert-user", None)
        \/ Answers(i, 400, {}) \/ Answers(i, 409, {}) \/ Answers(i, 500, {})
  \/ /\ calls[i].at = "insert-user"
     /\ \/ db' = db /\ Answers(i, 500, {}) /\ (faults' = faults \/ faults' = faults - 1)
        \/ /\ db' = [db EXCEPT !.users = @ \cup {user}]
           /\ Cardinality(db.users) \in 0 .. ProllyTreeOrder - 1 => \A u \in db.users : u.email # body.email
           /\ \/ Continues(i, "insert-account", None) /\ faults' = faults
              \/ Answers(i, 500, {}) /\ faults' = faults - 1
  \/ /\ calls[i].at = "insert-account"
     /\ \/ /\ db' = [db EXCEPT !.accounts = @ \cup {account}]
           /\ faults' = faults /\ Answers(i, 200, Plain({user}))
        \/ /\ db' \in {db, [db EXCEPT !.accounts = @ \cup {account}]}
           /\ faults' = faults - 1 /\ Answers(i, 500, {})

LEMMA RegisterSteps ==
    ASSUME CallsOK, NEW i \in DOMAIN calls, PostRegister(i)
    PROVE  RegisterStep(i) /\ calls[i].route = "POST/register"
  <1> DEFINE user == [owner |-> i, email |-> calls[i].body.email, phone |-> calls[i].body.phone]
             account == [id |-> i, owner |-> i, balance |-> 0]
  <1>1. /\ \A status : Respond(i, status) => Answers(i, status, {})
        /\ \A rows : RespondRows(i, rows) => Answers(i, 200, rows)
        /\ \A at, loc : GoOn(i, at, loc) => Continues(i, at, loc)
    BY StepEnds
  <1>2. /\ Respond(i, 400) => Answers(i, 400, {})
        /\ Respond(i, 409) => Answers(i, 409, {})
        /\ Respond(i, 500) => Answers(i, 500, {})
    BY <1>1
  <1>6. /\ GoOn(i, "insert-user", None) => Continues(i, "insert-user", None)
        /\ GoOn(i, "insert-account", None) => Continues(i, "insert-account", None)
    BY <1>1
  <1>7. RespondRows(i, Plain({user})) => Answers(i, 200, Plain({user}))
    <2> HIDE DEF user
    <2> QED
      BY <1>1
  <1> HIDE <1>1
  <1>0. calls[i].route = "POST/register"
    BY DEF PostRegister, At
  <1> USE DEF At, Refuse, ExecuteQuery, ExecuteWriteQuery, Fault, NoFault
  <1>3. CASE calls[i].at = "sent"
    <2>1. /\ db' = db /\ (faults' = faults \/ faults' = faults - 1)
          /\ \/ GoOn(i, "insert-user", None) \/ Respond(i, 400) \/ Respond(i, 409) \/ Respond(i, 500)
      BY <1>3 DEF PostRegister
    <2> QED
      BY <1>0, <1>2, <1>6, <1>7, <1>3, <2>1, ZenonT(60) DEF RegisterStep
  <1>4. CASE calls[i].at = "insert-user"
    <2> DEFINE C == ClashesFound(calls[i].body)
               applied == \/ GoOn(i, "insert-account", None) /\ faults' = faults
                          \/ Respond(i, 500) /\ faults' = faults - 1
    <2>0. PICK clash \in C :
            ExecuteWriteQuery([db EXCEPT !.users = @ \cup {user}], clash,
                              GoOn(i, "insert-account", None), Respond(i, 500))
      BY <1>4 DEF PostRegister
    <2>1. \/ db' = db /\ Respond(i, 500) /\ (faults' = faults \/ faults' = faults - 1)
          \/ db' = [db EXCEPT !.users = @ \cup {user}] /\ ~clash /\ applied
      BY <2>0
    <2>2. ~clash /\ Cardinality(db.users) \in 0 .. ProllyTreeOrder - 1 =>
            \A u \in db.users : u.email # calls[i].body.email
      <3>1. SUFFICES ASSUME ~clash, Cardinality(db.users) \in 0 .. ProllyTreeOrder - 1
                     PROVE  \A u \in db.users : u.email # calls[i].body.email
        OBVIOUS
      <3>2. ~(Cardinality(db.users) >= ProllyTreeOrder)
        BY <3>1 DEF ProllyTreeOrder
      <3>3. C = {UsersClash(calls[i].body)}
        BY <3>2, Zenon DEF ClashesFound
      <3>4. ~UsersClash(calls[i].body)
        BY <2>0, <3>1, <3>3, Zenon
      <3> QED
        BY <3>4 DEF UsersClash
    <2>3. \/ Continues(i, "insert-account", None) /\ faults' = faults
          \/ Answers(i, 500, {}) /\ faults' = faults - 1
          \/ ~applied
      BY <1>2, <1>6
    <2>4. \/ db' = db /\ Answers(i, 500, {}) /\ (faults' = faults \/ faults' = faults - 1)
          \/ db' = [db EXCEPT !.users = @ \cup {user}] /\ ~clash /\ applied
      BY <1>2, <2>1, Zenon
    <2> HIDE DEF C, applied
    <2> QED
      BY <1>0, <1>4, <2>2, <2>3, <2>4, Zenon DEF RegisterStep
  <1>5. CASE calls[i].at = "insert-account"
    <2>1. \/ /\ db' = [db EXCEPT !.accounts = @ \cup {account}]
             /\ faults' = faults /\ RespondRows(i, Plain({user}))
          \/ /\ db' \in {db, [db EXCEPT !.accounts = @ \cup {account}]}
             /\ faults' = faults - 1 /\ Respond(i, 500)
      BY <1>5 DEF PostRegister
    <2> QED
      BY <1>0, <1>2, <1>6, <1>7, <1>5, <2>1, Zenon DEF RegisterStep
  <1> QED
    BY <1>0, <1>3, <1>4, <1>5 DEF PostRegister

\* The password hash is read under a name the row does not have: nobody logs in.
LEMMA LoginFails ==
    ASSUME CallsOK, NEW i \in DOMAIN calls, PostLogin(i)
    PROVE  db' = db /\ calls'[i].answer.status # 200
  <1>1. \A status : Respond(i, status) => calls'[i].answer.status = status
    BY StepEnds DEF Answers
  <1>2. \A user \in Star({u \in db.users : u.email = calls[i].body.email}) : Field(user, "email") = Undefined
    BY DEF Star, Field
  <1>3. Respond(i, 400) \/ Respond(i, 401) \/ Respond(i, 500)
    BY <1>2 DEF PostLogin, ExecuteQuery, Refuse
  <1>4. /\ Respond(i, 400) => calls'[i].answer.status = 400
        /\ Respond(i, 401) => calls'[i].answer.status = 401
        /\ Respond(i, 500) => calls'[i].answer.status = 500
    BY <1>1
  <1>5. db' = db
    BY DEF PostLogin, ExecuteQuery, Refuse
  <1> QED
    BY <1>3, <1>4, <1>5

TabFields == {"token", "page", "timers", "crossed"}

LEMMA PushTab ==
    ASSUME NEW name, NEW t, NEW cs, DOMAIN t = TabFields, Push(name, t, cs)
    PROVE  DOMAIN tab' = TabFields /\ tab'.token = t.token
  BY DEF Push, Mount, TabFields

\* Whom the answer to a form names.
NamedBy(i) == Field(CHOOSE x \in calls[i].answer.rows : TRUE, "owner")

\* Whom the token may name after a step of the tab.
TokenMoves ==
  /\ DOMAIN tab' = TabFields
  /\ \/ tab'.token = tab.token \/ tab'.token = None
     \/ \E i \in DOMAIN calls :
          /\ Auth(calls[i]) /\ calls[i].answer.status = 200
          /\ tab'.token = NamedBy(i)

LEMMA TabMoves ==
    ASSUME DOMAIN tab = TabFields, Callback \/ User \/ OtherClient
    PROVE  TokenMoves
  <1> USE DEF TabFields
  <1>1. CASE tab' = tab
    BY <1>1 DEF TokenMoves
  <1>2. ASSUME NEW p, tab' = [tab EXCEPT !.page = p] PROVE TokenMoves
    BY <1>2 DEF TokenMoves
  <1>3. ASSUME NEW name, NEW cs, Push(name, tab, cs) PROVE TokenMoves
    BY <1>3, PushTab DEF TokenMoves
  <1>4. CASE LoadAnswered
    BY <1>4 DEF LoadAnswered, TokenMoves
  <1>5. CASE TimerFires
    <2> DEFINE t == [tab EXCEPT !.timers = @ - 1]
    <2>1. DOMAIN t = TabFields /\ t.token = tab.token
      OBVIOUS
    <2>2. Push("transactions", t, calls)
      BY <1>5 DEF TimerFires
    <2> HIDE DEF t
    <2> QED
      BY <2>1, <2>2, PushTab DEF TokenMoves
  <1>6. ASSUME NEW i \in DOMAIN calls, SignedIn(i) PROVE TokenMoves
    <2> DEFINE t == [tab EXCEPT !.token = NamedBy(i), !.crossed = TRUE]
    <2>1. Auth(calls[i])
      BY <1>6 DEF SignedIn, Answered, Auth
    <2>2. CASE calls[i].answer.status = 200
      <3>1. DOMAIN t = TabFields /\ t.token = NamedBy(i)
        OBVIOUS
      <3>2. Push("dashboard", t, Forget(i))
        BY <1>6, <2>2 DEF SignedIn, Succeeded, NamedBy
      <3> HIDE DEF t
      <3> QED
        BY <2>1, <2>2, <3>1, <3>2, PushTab DEF TokenMoves
    <2>3. CASE calls[i].answer.status # 200
      <3>1. tab' = IF calls[i].then = "answer"
                   THEN [tab EXCEPT !.page.loading = FALSE, !.page.error = TRUE]
                   ELSE tab
        BY <1>6, <2>3 DEF SignedIn, Succeeded
      <3> QED
        BY <3>1 DEF TokenMoves
    <2> QED
      BY <2>2, <2>3
  <1>7. ASSUME NEW i \in DOMAIN calls,
               \/ BeneficiaryAdded(i) \/ BeneficiaryDeleted(i) \/ TicketCreated(i)
               \/ ProfileSaved(i) \/ SettingChanged(i) \/ TransferAnswered(i)
        PROVE  TokenMoves
    BY <1>7 DEF BeneficiaryAdded, BeneficiaryDeleted, TicketCreated, ProfileSaved, SettingChanged,
                TransferAnswered, TokenMoves
  <1>8. ASSUME NEW name, Follow(name) PROVE TokenMoves
    BY <1>3, <1>8 DEF Follow
  <1>9. ASSUME NEW name, Open(name) PROVE TokenMoves
    BY <1>9 DEF Open, Mount, TokenMoves
  <1>10. CASE SubmitLogin \/ SubmitRegister \/ Toggle \/ SubmitTransfer
    BY <1>10 DEF SubmitLogin, SubmitRegister, Toggle, SubmitTransfer, TokenMoves
  <1>11. CASE AddBeneficiary \/ RemoveBeneficiary \/ CreateTicket
    BY <1>11 DEF AddBeneficiary, RemoveBeneficiary, CreateTicket, TokenMoves
  <1>12. CASE SaveProfile \/ ChangeSetting \/ OtherClient
    BY <1>1, <1>12 DEF SaveProfile, ChangeSetting, OtherClient
  <1>13. CASE Logout
    <2> DEFINE t == [tab EXCEPT !.token = None]
    <2>1. DOMAIN t = TabFields /\ t.token = None
      OBVIOUS
    <2>2. Push("login", t, calls)
      BY <1>13 DEF Logout
    <2> HIDE DEF t
    <2> QED
      BY <2>1, <2>2, PushTab DEF TokenMoves
  <1> QED
    BY <1>4, <1>5, <1>6, <1>7, <1>8, <1>9, <1>10, <1>11, <1>12, <1>13 DEF Callback, User

\* Users come from a registration and are renamed by a profile.
LEMMA UsersChange ==
    ASSUME TablesOK(db), CallsOK, NEW i \in DOMAIN calls, Handle(i)
    PROVE  \/ db'.users = db.users
           \/ PostRegister(i)
           \/ PutProfile(i) /\ \A v \in db'.users : \E u \in db.users : u.owner = v.owner
  <1> USE DEF Refuse, ExecuteQuery, ExecuteWriteQuery
  <1>1. CASE ReadOnly(i)
    BY <1>1, ReadsChangeNothing
  <1>2. CASE PostBeneficiary(i) \/ DeleteBeneficiary(i) \/ PostTicket(i)
    <2>1. \/ db' = db \/ \E X : db' = [db EXCEPT !.beneficiaries = X]
          \/ \E X : db' = [db EXCEPT !.tickets = X]
      BY <1>2 DEF PostBeneficiary, DeleteBeneficiary, PostTicket
    <2> QED
      BY <2>1 DEF TablesOK, Tables
  <1>3. CASE PutProfile(i)
    <2> DEFINE saved(u) == [u EXCEPT !.email = calls[i].body.email, !.phone = calls[i].body.phone]
               mine == {u \in db.users : u.owner = calls[i].user}
               X == (db.users \ mine) \cup {saved(u) : u \in mine}
    <2>1. db' = db \/ db' = [db EXCEPT !.users = X]
      BY <1>3 DEF PutProfile
    <2>2. \A v \in X : \E u \in db.users : u.owner = v.owner
      <3>1. \A u \in mine : saved(u).owner = u.owner
        BY DEF TablesOK
      <3> QED
        BY <3>1
    <2> HIDE DEF X
    <2>3. db' = db \/ db'.users = X
      BY <2>1 DEF TablesOK, Tables
    <2> QED
      BY <1>3, <2>2, <2>3
  <1>4. CASE PostTransfer(i)
    <2>1. \/ db' = db \/ \E id, amount : db' = Moved(id, amount)
          \/ \E X : db' = [db EXCEPT !.transactions = X]
      <3> DEFINE body == calls[i].body
                 record == [id |-> i, from |-> body.from, to |-> body.to, amount |-> body.amount]
                 A == Moved(body.from, -body.amount)
                 B == Moved(body.to, body.amount)
                 C == Moved(body.from, body.amount)
                 D == Moved(body.to, -body.amount)
      <3>1. db' \in {db, A, B, C, D, [db EXCEPT !.transactions = @ \cup {record}]}
        BY <1>4, TransferSteps DEF TransferStep, Write
      <3> QED
        BY <3>1
    <2> QED
      BY <2>1 DEF Moved, TablesOK, Tables
  <1> QED
    BY <1>1, <1>2, <1>3, <1>4 DEF Handle, ReadOnly

\* What a success promises: a registration has made an account and names its owner; there
\* is no successful login.
SuccessOf(d, c, i) ==
  c.answer.status = 200 =>
    /\ c.route = "POST/register" =>
         /\ IdsIn(d, i) # {} /\ c.answer.rows # {}
         /\ \A x \in c.answer.rows : x.star = FALSE /\ x.row.owner = i
    /\ c.route # "POST/login"

\* A user without an account is being given one, unless something failed.
InTheMaking(d, cs, u) ==
  IdsIn(d, u.owner) = {} => u.owner \in DOMAIN cs /\ cs[u.owner].at = "insert-account"

NoProfileChange(cs) == \A j \in DOMAIN cs : cs[j].route # "PUT/profile"

OneOwnerEach(d) == \A u, v \in d.users : u.email = v.email => u.owner = v.owner

\* The users the index tells apart.
UsersRight(d) == IsFiniteSet(d.users) /\ (Cardinality(d.users) <= ProllyTreeOrder => OneOwnerEach(d))

RegInv ==
  /\ OwnInv
  /\ faults \in Int /\ faults <= scene.faults
  /\ DOMAIN tab = TabFields
  /\ \A j \in DOMAIN calls : SuccessOf(db, calls[j], j)
  /\ faults = scene.faults => \A u \in db.users : InTheMaking(db, calls, u)
  /\ tab.token # None /\ tab.token # scene.token => IdsIn(db, tab.token) # {}
  /\ NoProfileChange(calls) => UsersRight(db)

LEMMA InitReg == Init => RegInv
  <1> SUFFICES ASSUME Init PROVE RegInv
    OBVIOUS
  <1>1. scene \in Scenes /\ Sound(db) /\ calls = <<>> /\ faults = scene.faults /\ faults \in Nat
    BY ScenesAssumption DEF Init
  <1>2. DOMAIN tab = TabFields /\ tab.token = scene.token
    BY DEF Init, TabFields
  <1>3. OwnInv
    BY InitOwn
  <1>4. \A u \in db.users : IdsIn(db, u.owner) # {}
    BY <1>1 DEF Sound, IdsIn
  <1>5. UsersRight(db)
    BY <1>1 DEF Sound, UsersRight, OneOwnerEach
  <1> QED
    BY <1>1, <1>2, <1>3, <1>4, <1>5 DEF RegInv, InTheMaking

LEMMA NoSuccessYet == NoAnswer.status # 200
  BY DEF NoAnswer

LEMMA PageReg ==
    ASSUME RegInv, PageStep, TokenMoves
    PROVE  RegInv'
  <1>1. OwnInv' /\ CallsOK /\ CallsOK'
    BY PageOwns DEF RegInv, OwnInv
  <1>2. /\ db' = db /\ faults' = faults /\ scene' = scene
        /\ \A j \in DOMAIN calls : Leaves(calls[j], calls'[j])
        /\ \A j \in DOMAIN calls' : j > Len(calls) => Fresh(calls'[j])
        /\ DOMAIN calls \subseteq DOMAIN calls'
    BY <1>1 DEF PageStep, Sends, CallsOK
  <1>3. \A j \in DOMAIN calls' : SuccessOf(db, calls'[j], j)
    <2> SUFFICES ASSUME NEW j \in DOMAIN calls' PROVE SuccessOf(db, calls'[j], j)
      OBVIOUS
    <2>1. CASE j \in DOMAIN calls
      <3>1. Leaves(calls[j], calls'[j]) /\ SuccessOf(db, calls[j], j)
        BY <1>2, <2>1 DEF RegInv
      <3> QED
        BY <3>1, NoSuccessYet DEF Leaves, SuccessOf
    <2>2. CASE j \notin DOMAIN calls
      <3>1. Fresh(calls'[j])
        BY <1>1, <1>2, <2>2 DEF CallsOK
      <3> QED
        BY <3>1, NoSuccessYet DEF Fresh, SuccessOf
    <2> QED
      BY <2>1, <2>2
  <1>4. \A u : InTheMaking(db, calls, u) => InTheMaking(db, calls', u)
    BY <1>2 DEF InTheMaking, Leaves
  <1>5. NoProfileChange(calls') => NoProfileChange(calls)
    BY <1>2 DEF NoProfileChange, Leaves
  <1>6. DOMAIN tab' = TabFields
    BY DEF TokenMoves
  <1>7. tab'.token # None /\ tab'.token # scene.token => IdsIn(db, tab'.token) # {}
    <2>1. ASSUME NEW i \in DOMAIN calls, Auth(calls[i]), calls[i].answer.status = 200, tab'.token = NamedBy(i)
          PROVE  IdsIn(db, tab'.token) # {}
      <3>1. /\ IdsIn(db, i) # {} /\ calls[i].answer.rows # {}
            /\ \A x \in calls[i].answer.rows : x.star = FALSE /\ x.row.owner = i
        BY <2>1 DEF RegInv, SuccessOf, Auth
      <3> QED
        BY <2>1, <3>1 DEF NamedBy, Field
    <2> QED
      BY <2>1 DEF TokenMoves, RegInv
  <1> QED
    BY <1>1, <1>2, <1>3, <1>4, <1>5, <1>6, <1>7 DEF RegInv

\* An answer that is no success, or one of another route.
LEMMA SuccessKept ==
    ASSUME RegInv, NEW i \in DOMAIN calls, Reaches(i, calls'[i].at), Grows(db, db'),
           SuccessOf(db', calls'[i], i)
    PROVE  \A j \in DOMAIN calls : SuccessOf(db', calls'[j], j)
  <1> SUFFICES ASSUME NEW j \in DOMAIN calls, j # i PROVE SuccessOf(db', calls'[j], j)
    OBVIOUS
  <1>1. calls'[j] = calls[j] /\ SuccessOf(db, calls[j], j)
    BY DEF Reaches, RegInv
  <1>2. IdsIn(db, j) \subseteq IdsIn(db', j)
    BY DEF Grows
  <1> QED
    BY <1>1, <1>2 DEF SuccessOf

LEMMA RegistrationSucceeds ==
    ASSUME RegInv, NEW i \in DOMAIN calls, PostRegister(i), Grows(db, db')
    PROVE  SuccessOf(db', calls'[i], i)
  <1> DEFINE user == [owner |-> i, email |-> calls[i].body.email, phone |-> calls[i].body.phone]
             account == [id |-> i, owner |-> i, balance |-> 0]
  <1>1. RegisterStep(i) /\ calls[i].route = "POST/register"
    BY RegisterSteps DEF RegInv, OwnInv
  <1>2. ASSUME NEW at, Continues(i, at, None) PROVE SuccessOf(db', calls'[i], i)
    <2>1. SuccessOf(db, calls[i], i) /\ calls'[i].route = calls[i].route /\ calls'[i].answer = calls[i].answer
      BY <1>2 DEF Continues, Reaches, SameRequest, RegInv
    <2> QED
      BY <2>1 DEF SuccessOf, Grows
  <1>3. ASSUME NEW status, Answers(i, status, {}), status # 200 PROVE SuccessOf(db', calls'[i], i)
    BY <1>3 DEF Answers, SuccessOf
  <1>4. ASSUME db' = [db EXCEPT !.accounts = @ \cup {account}], Answers(i, 200, Plain({user}))
        PROVE  SuccessOf(db', calls'[i], i)
    <2>1. account \in db'.accounts /\ account.id = i /\ account.owner = i
      BY <1>4 DEF RegInv, OwnInv, TablesOK, Tables
    <2>2. i \in IdsIn(db', i)
      <3> HIDE DEF account
      <3> QED
        BY <2>1 DEF IdsIn
    <2>3. user.owner = i
      OBVIOUS
    <2>4. Plain({user}) # {} /\ \A x \in Plain({user}) : x.star = FALSE /\ x.row = user
      <3> HIDE DEF user
      <3> DEFINE x == [row |-> user, star |-> FALSE]
      <3>1. Plain({user}) = {x} /\ x.row = user /\ x.star = FALSE
        BY DEF Plain
      <3> HIDE DEF x
      <3> QED
        BY <3>1
    <2> HIDE DEF user
    <2> QED
      BY <1>1, <1>4, <2>2, <2>3, <2>4, ZenonT(60) DEF Answers, Reaches, SameRequest, SuccessOf
  <1>5. /\ Continues(i, "insert-user", None) => SuccessOf(db', calls'[i], i)
        /\ Continues(i, "insert-account", None) => SuccessOf(db', calls'[i], i)
    BY <1>2
  <1>6. /\ Answers(i, 400, {}) => SuccessOf(db', calls'[i], i)
        /\ Answers(i, 409, {}) => SuccessOf(db', calls'[i], i)
        /\ Answers(i, 500, {}) => SuccessOf(db', calls'[i], i)
    BY <1>3
  <1> HIDE DEF user, account
  <1> QED
    BY <1>1, <1>4, <1>5, <1>6, Zenon DEF RegisterStep, user, account

\* What registration does to the users there are.
LEMMA RegistrationMakes ==
    ASSUME RegInv, NEW i \in DOMAIN calls, PostRegister(i), Grows(db, db'), faults' = scene.faults,
           NEW u \in db'.users
    PROVE  InTheMaking(db', calls', u)
  <1> DEFINE user == [owner |-> i, email |-> calls[i].body.email, phone |-> calls[i].body.phone]
             account == [id |-> i, owner |-> i, balance |-> 0]
  <1>1. RegisterStep(i) /\ calls[i].route = "POST/register"
    BY RegisterSteps DEF RegInv, OwnInv
  <1>2. faults' = faults /\ faults = scene.faults
    <2>1. (faults' = faults \/ faults' = faults - 1) /\ faults \in Int /\ faults <= scene.faults /\ scene.faults \in Nat
      BY HandlerMoves, ScenesAssumption DEF Moves, RegInv, OwnInv, Handle
    <2> QED
      BY <2>1
  <1>3. /\ DOMAIN calls' = DOMAIN calls
        /\ \A j \in DOMAIN calls : j # i => calls'[j] = calls[j]
    BY HandlerMoves DEF Moves, Advances, Reaches, CallsOK, RegInv, OwnInv, Handle
  <1>4. faults # faults - 1
    BY DEF RegInv
  <1>5. ASSUME u.owner # i, u \in db.users PROVE InTheMaking(db', calls', u)
    BY <1>2, <1>3, <1>5 DEF InTheMaking, RegInv, Grows
  <1>9. ASSUME db' = db, calls[i].at # "insert-account" PROVE InTheMaking(db', calls', u)
    <2>1. u \in db.users /\ InTheMaking(db, calls, u)
      BY <1>2, <1>9 DEF RegInv
    <2>2. u.owner = i => IdsIn(db', u.owner) # {}
      BY <1>9, <2>1 DEF InTheMaking
    <2> QED
      BY <1>5, <2>1, <2>2 DEF InTheMaking
  <1>6. CASE calls[i].at = "sent"
    BY <1>1, <1>6, <1>9 DEF RegisterStep
  <1>7. CASE calls[i].at = "insert-user"
    <2>1. \/ db' = db
          \/ db' = [db EXCEPT !.users = @ \cup {user}] /\ Continues(i, "insert-account", None)
      BY <1>1, <1>2, <1>4, <1>7 DEF RegisterStep
    <2>2. CASE db' = db
      BY <1>7, <1>9, <2>2
    <2>3. CASE db' = [db EXCEPT !.users = @ \cup {user}] /\ Continues(i, "insert-account", None)
      <3>1. u \in db.users \/ u.owner = i
        <4>1. db'.users = db.users \cup {user}
          BY <2>3 DEF RegInv, OwnInv, TablesOK, Tables
        <4>2. user.owner = i
          OBVIOUS
        <4> HIDE DEF user
        <4> QED
          BY <4>1, <4>2
      <3>2. calls'[i].at = "insert-account" /\ i \in DOMAIN calls'
        BY <1>3, <2>3 DEF Continues, Reaches
      <3> QED
        BY <1>5, <3>1, <3>2 DEF InTheMaking
    <2> QED
      BY <2>1, <2>2, <2>3
  <1>8. CASE calls[i].at = "insert-account"
    <2>1. db' = [db EXCEPT !.accounts = @ \cup {account}]
      BY <1>1, <1>2, <1>4, <1>8 DEF RegisterStep
    <2>2. u \in db.users /\ account \in db'.accounts
      BY <2>1 DEF RegInv, OwnInv, TablesOK, Tables
    <2>3. account.id = i /\ account.owner = i
      OBVIOUS
    <2>4. i \in IdsIn(db', i)
      <3> HIDE DEF account
      <3> QED
        BY <2>2, <2>3 DEF IdsIn
    <2> QED
      BY <1>5, <2>2, <2>4 DEF InTheMaking
  <1> QED
    BY <1>1, <1>6, <1>7, <1>8 DEF RegisterStep

LEMMA RegistrationUnique ==
    ASSUME RegInv, NEW i \in DOMAIN calls, PostRegister(i), UsersRight(db)
    PROVE  UsersRight(db')
  <1> DEFINE user == [owner |-> i, email |-> calls[i].body.email, phone |-> calls[i].body.phone]
             few == \A u \in db.users : u.email # calls[i].body.email
  <1>1. RegisterStep(i)
    BY RegisterSteps DEF RegInv, OwnInv
  <1>2. \/ db'.users = db.users
        \/ db'.users = db.users \cup {user} /\ (Cardinality(db.users) \in 0 .. ProllyTreeOrder - 1 => few)
    BY <1>1 DEF RegisterStep, RegInv, OwnInv, TablesOK, Tables
  <1>3. user.email = calls[i].body.email
    OBVIOUS
  <1> HIDE DEF user
  <1>4. CASE db'.users = db.users
    BY <1>4 DEF UsersRight, OneOwnerEach
  <1>5. CASE user \in db.users
    <2>1. db'.users = db.users
      BY <1>2, <1>5
    <2> QED
      BY <1>4, <2>1
  <1>6. CASE user \notin db.users /\ db'.users = db.users \cup {user} /\ (Cardinality(db.users) \in 0 .. ProllyTreeOrder - 1 => few)
    <2>1. IsFiniteSet(db.users) /\ Cardinality(db.users) \in Nat
      BY FS_CardinalityType DEF UsersRight
    <2> DEFINE U == db.users
               V == db'.users
    <2>2. IsFiniteSet(db'.users) /\ Cardinality(db'.users) = Cardinality(db.users) + 1
      <3>1. V = U \cup {user} /\ user \notin U /\ IsFiniteSet(U)
        BY <1>6, <2>1
      <3> HIDE DEF U, V
      <3>2. IsFiniteSet(V) /\ Cardinality(V) = Cardinality(U) + 1
        BY <3>1, FS_AddElement
      <3> QED
        BY <3>2 DEF U, V
    <2>3. ASSUME Cardinality(db'.users) <= ProllyTreeOrder PROVE OneOwnerEach(db')
      <3>1. Cardinality(db.users) \in 0 .. ProllyTreeOrder - 1 /\ Cardinality(db.users) <= ProllyTreeOrder
        BY <2>1, <2>2, <2>3 DEF ProllyTreeOrder
      <3>2. OneOwnerEach(db) /\ few
        BY <1>6, <3>1 DEF UsersRight
      <3> QED
        BY <1>3, <1>6, <3>2 DEF OneOwnerEach
    <2> QED
      BY <2>2, <2>3 DEF UsersRight
  <1> QED
    BY <1>2, <1>4, <1>5, <1>6

LEMMA HandlerReg ==
    ASSUME RegInv, NEW i \in DOMAIN calls, Handle(i), UNCHANGED <<scene, tab>>
    PROVE  RegInv'
  <1>1. OwnInv' /\ CallsOK /\ CallsOK' /\ TablesOK(db)
    BY HandlerKeepsOwn DEF RegInv, OwnInv
  <1>2. Reaches(i, calls'[i].at) /\ (faults' = faults \/ faults' = faults - 1)
    BY <1>1, HandlerMoves DEF Moves, Advances
  <1>3. DOMAIN calls' = DOMAIN calls /\ \A j \in DOMAIN calls : j # i => calls'[j] = calls[j]
    BY <1>1, <1>2 DEF Reaches, CallsOK
  <1>4. Grows(db, db')
    BY <1>1, HandlerTables
  <1>5. faults' \in Int /\ faults' <= scene'.faults /\ (faults' = scene'.faults => faults' = faults)
    <2>1. faults \in Int /\ faults <= scene.faults /\ scene.faults \in Nat
      BY ScenesAssumption DEF RegInv, OwnInv
    <2> QED
      BY <1>2, <2>1
  <1>6. SuccessOf(db', calls'[i], i)
    <2>1. CASE PostRegister(i)
      BY <1>4, <2>1, RegistrationSucceeds
    <2>2. CASE PostLogin(i)
      <3>1. calls'[i].answer.status # 200
        BY <1>1, <2>2, LoginFails
      <3> QED
        BY <3>1 DEF SuccessOf
    <2>3. CASE calls[i].route \notin {"POST/register", "POST/login"}
      BY <1>2, <2>3 DEF Reaches, SameRequest, SuccessOf
    <2> QED
      BY <2>1, <2>2, <2>3, HandlerByRoute
  <1>7. \A j \in DOMAIN calls' : SuccessOf(db', calls'[j], j)
    BY <1>2, <1>3, <1>4, <1>6, SuccessKept
  <1>8. ASSUME faults' = scene'.faults, NEW u \in db'.users PROVE InTheMaking(db', calls', u)
    <2>1. CASE PostRegister(i)
      BY <1>4, <1>8, <2>1, RegistrationMakes
    <2>2. CASE ~PostRegister(i)
      <3>1. PICK v \in db.users : v.owner = u.owner
        BY <1>1, <1>8, <2>2, UsersChange
      <3>2. InTheMaking(db, calls, v) /\ calls[i].at # "insert-account"
        BY <1>5, <1>8, <2>2, HandlerByRoute DEF RegInv
      <3> QED
        BY <1>3, <1>4, <3>1, <3>2 DEF InTheMaking, Grows
    <2> QED
      BY <2>1, <2>2
  <1>9. tab'.token # None /\ tab'.token # scene'.token => IdsIn(db', tab'.token) # {}
    BY <1>4 DEF RegInv, Grows
  <1>10. NoProfileChange(calls') => UsersRight(db')
    <2>1. SUFFICES ASSUME NoProfileChange(calls') PROVE UsersRight(db')
      OBVIOUS
    <2>2. \A j \in DOMAIN calls : calls'[j].route = calls[j].route
      BY <1>2 DEF Reaches, SameRequest
    <2>3. NoProfileChange(calls)
      BY <1>3, <2>1, <2>2 DEF NoProfileChange
    <2>4. UsersRight(db) /\ ~PutProfile(i)
      BY <2>3, HandlerByRoute DEF RegInv, NoProfileChange
    <2>5. CASE PostRegister(i)
      BY <2>4, <2>5, RegistrationUnique
    <2>6. CASE db'.users = db.users
      BY <2>4, <2>6 DEF UsersRight, OneOwnerEach
    <2> QED
      BY <1>1, <2>4, <2>5, <2>6, UsersChange
  <1> QED
    BY <1>1, <1>5, <1>7, <1>8, <1>9, <1>10 DEF RegInv

LEMMA LostConnectionReg ==
    ASSUME RegInv, NEW i \in DOMAIN calls, ConnectionFails(i)
    PROVE  RegInv'
  <1>1. OwnInv'
    <2>1. [Next]_vars
      BY DEF Next
    <2> QED
      BY <2>1, NextOwn DEF RegInv
  <1>2. /\ Answers(i, -1, {}) /\ faults' = faults - 1 /\ db' = db /\ scene' = scene /\ tab' = tab
    BY ConnectionFailsEffect DEF RegInv, OwnInv
  <1>3. /\ DOMAIN calls' = DOMAIN calls /\ calls'[i].answer.status = -1
        /\ \A j \in DOMAIN calls : calls'[j].route = calls[j].route /\ (j # i => calls'[j] = calls[j])
    BY <1>2 DEF Answers, Reaches, SameRequest, CallsOK, RegInv, OwnInv
  <1>4. faults' \in Int /\ faults' <= scene'.faults /\ faults' # scene'.faults
    <2>1. faults \in Int /\ faults <= scene.faults /\ scene.faults \in Nat
      BY ScenesAssumption DEF RegInv, OwnInv
    <2> QED
      BY <1>2, <2>1
  <1>5. \A j \in DOMAIN calls' : SuccessOf(db', calls'[j], j)
    <2>1. SuccessOf(db', calls'[i], i)
      <3>1. calls'[i].answer.status # 200
        BY <1>3
      <3> QED
        BY <3>1 DEF SuccessOf
    <2>2. \A j \in DOMAIN calls : j # i => SuccessOf(db', calls'[j], j)
      BY <1>2, <1>3 DEF RegInv
    <2> QED
      BY <1>3, <2>1, <2>2
  <1>6. NoProfileChange(calls') => UsersRight(db')
    BY <1>2, <1>3 DEF NoProfileChange, RegInv
  <1> QED
    BY <1>1, <1>2, <1>4, <1>5, <1>6 DEF RegInv

LEMMA NextReg == RegInv /\ [Next]_vars => RegInv'
  <1> SUFFICES ASSUME RegInv, [Next]_vars PROVE RegInv'
    OBVIOUS
  <1>1. ASSUME NEW i \in DOMAIN calls, Handle(i), UNCHANGED <<scene, tab>> PROVE RegInv'
    BY <1>1, HandlerReg
  <1>2. CASE Callback \/ User \/ OtherClient
    BY <1>2, CallbackSends, UserSends, TabMoves, PageReg DEF RegInv, OwnInv
  <1>3. ASSUME NEW i \in DOMAIN calls, ConnectionFails(i) PROVE RegInv'
    BY <1>3, LostConnectionReg
  <1>4. CASE UNCHANGED vars
    <2>1. OwnInv'
      BY NextOwn DEF RegInv
    <2> QED
      BY <1>4, <2>1 DEF vars, apiVars, RegInv
  <1> QED
    BY <1>1, <1>2, <1>3, <1>4 DEF Next, Serve

\* register/route.ts: without a failure a user lacks an account only between the two
\* INSERTs of the registration that made the user, whoever is answered with a success
\* has an account, and of two registrations with one address at most one makes a user,
\* because the UNIQUE constraint decides again after both have looked for the address.
THEOREM RegistrationsAreComplete == Spec => []RegistrationsComplete
  <1>1. RegInv => RegistrationsComplete
    <2>1. \A u : AccountsOf(u) = {} <=> IdsIn(db, u) = {}
      BY DEF AccountsOf, IdsIn
    <2>2. SUFFICES ASSUME RegInv PROVE RegistrationsComplete
      OBVIOUS
    <2>3. \A u \in db.users : (faults = scene.faults /\ AccountsOf(u.owner) = {}) =>
            u.owner \in DOMAIN calls /\ calls[u.owner].at = "insert-account"
      BY <2>1, <2>2 DEF RegInv, InTheMaking
    <2>4. ASSUME NEW i \in DOMAIN calls, calls[i].route = "POST/register", calls[i].answer.status = 200
          PROVE  AccountsOf(i) # {}
      <3>1. SuccessOf(db, calls[i], i)
        BY <2>2, <2>4 DEF RegInv
      <3> QED
        BY <2>1, <2>4, <3>1 DEF SuccessOf
    <2>5. tab.token # None /\ tab.token # scene.token => AccountsOf(tab.token) # {}
      BY <2>1, <2>2 DEF RegInv
    <2> QED
      BY <2>2, <2>3, <2>4, <2>5 DEF RegInv, RegistrationsComplete, NoProfileChange, UsersRight, OneOwnerEach
  <1> QED
    BY <1>1, InitReg, NextReg, PTL DEF Spec

-----------------------------------------------------------------------------
(* Money.                                                                    *)

\* The sums of the model are sums of functions.
ColumnOf(rows, f) == [r \in rows |-> r[f]]
Flights(cs, id) == [i \in DOMAIN cs |-> InFlight(cs[i], id)]

LEMMA SumOfColumn ==
    ASSUME NEW rows, NEW f, IsFiniteSet(rows)
    PROVE  SumBy(rows, f) = SumOf(ColumnOf(rows, f), rows)
  <1> DEFINE Adds(h) == h = [R \in SUBSET rows |-> IF R = {} THEN 0
                               ELSE LET x == CHOOSE y \in R : TRUE IN x[f] + h[R \ {x}]]
             g == CHOOSE h : Adds(h)
             c == ColumnOf(rows, f)
  <1>1. PICK h : AddsUp(h, c, SUBSET rows)
    BY SumExists
  <1>2. \A k : AddsUp(k, c, SUBSET rows) <=> Adds(k)
    <2>1. ASSUME NEW k, NEW R \in SUBSET rows
          PROVE  AddUp(k, c, R) = IF R = {} THEN 0 ELSE LET x == CHOOSE y \in R : TRUE IN x[f] + k[R \ {x}]
      <3>1. CASE R = {}
        BY <3>1 DEF AddUp
      <3>2. CASE R # {}
        <4>1. (CHOOSE y \in R : TRUE) \in rows
          BY <3>2
        <4> QED
          BY <3>2, <4>1 DEF AddUp, ColumnOf
      <3> QED
        BY <3>1, <3>2
    <2> QED
      BY <2>1 DEF AddsUp
  <1>3. Adds(g)
    <2> HIDE DEF Adds
    <2>1. \E k : Adds(k)
      BY <1>1, <1>2
    <2> QED
      BY <2>1, Zenon
  <1>4. SumBy(rows, f) = g[rows]
    BY Zenon DEF SumBy, MapThenSumSet, MapThenFoldSet
  <1>5. SumOf(c, rows) = g[rows]
    <2> HIDE DEF Adds, g, c
    <2> QED
      BY <1>2, <1>3, SumIs
  <1> QED
    BY <1>4, <1>5

LEMMA SumOfFlights ==
    ASSUME CallsOK, NEW id
    PROVE  /\ IsFiniteSet(DOMAIN calls)
           /\ MapThenSumSet(LAMBDA i : InFlight(calls[i], id), DOMAIN calls) = SumOf(Flights(calls, id), DOMAIN calls)
  <1> DEFINE D == DOMAIN calls
             Adds(h) == h = [R \in SUBSET DOMAIN calls |-> IF R = {} THEN 0
                               ELSE LET x == CHOOSE y \in R : TRUE IN InFlight(calls[x], id) + h[R \ {x}]]
             g == CHOOSE h : Adds(h)
             c == Flights(calls, id)
  <1>0. IsFiniteSet(D)
    <2>1. D = 1..Len(calls) /\ Len(calls) \in Nat
      BY DEF CallsOK
    <2> QED
      BY <2>1, FS_Interval
  <1>1. PICK h : AddsUp(h, c, SUBSET D)
    BY <1>0, SumExists
  <1>2. \A k : AddsUp(k, c, SUBSET D) <=> Adds(k)
    <2>1. ASSUME NEW k, NEW R \in SUBSET D
          PROVE  AddUp(k, c, R) = IF R = {} THEN 0
                                  ELSE LET x == CHOOSE y \in R : TRUE IN InFlight(calls[x], id) + k[R \ {x}]
      <3>1. CASE R = {}
        BY <3>1 DEF AddUp
      <3>2. CASE R # {}
        <4>1. (CHOOSE y \in R : TRUE) \in D
          BY <3>2
        <4> QED
          BY <3>2, <4>1 DEF AddUp, Flights
      <3> QED
        BY <3>1, <3>2
    <2> QED
      BY <2>1 DEF AddsUp
  <1>3. Adds(g)
    <2> HIDE DEF Adds
    <2>1. \E k : Adds(k)
      BY <1>1, <1>2
    <2> QED
      BY <2>1, Zenon
  <1>4. MapThenSumSet(LAMBDA i : InFlight(calls[i], id), DOMAIN calls) = g[D]
    BY Zenon DEF MapThenSumSet, MapThenFoldSet
  <1>5. SumOf(c, D) = g[D]
    <2> HIDE DEF Adds, g, c, D
    <2> QED
      BY <1>0, <1>2, <1>3, SumIs
  <1> QED
    BY <1>0, <1>4, <1>5

Ids(d) == {a.id : a \in d.accounts}
MoneyOf(accounts) == SumOf(ColumnOf(accounts, "balance"), accounts)

AccountsOK(d) ==
  /\ IsFiniteSet(d.accounts)
  /\ \A a \in d.accounts : a.balance \in Int
  /\ \A a, b \in d.accounts : a.id = b.id => a = b

\* Account id has `n` more in e than in d, and nothing else is different.
Shifted(d, e, id, n) ==
  /\ e.transactions = d.transactions
  /\ AccountsOK(e) /\ Ids(e) = Ids(d)
  /\ \A b \in e.accounts : \E a \in d.accounts :
       b.id = a.id /\ b.balance = a.balance + (IF a.id = id THEN n ELSE 0)
  /\ id \in Ids(d) => MoneyOf(e.accounts) = MoneyOf(d.accounts) + n

LEMMA MoneyIsInt ==
    ASSUME NEW d, AccountsOK(d)
    PROVE  MoneyOf(d.accounts) \in Int
  <1> DEFINE A == d.accounts
             f == ColumnOf(A, "balance")
  <1>1. IsFiniteSet(A) /\ \A a \in A : f[a] \in Int
    BY DEF AccountsOK, ColumnOf
  <1> HIDE DEF A, f
  <1>2. SumOf(f, A) \in Int
    BY <1>1, SumIsInt
  <1> QED
    BY <1>2 DEF MoneyOf, A, f

LEMMA OneAccountMoves ==
    ASSUME NEW A, NEW a \in A, NEW b, IsFiniteSet(A), \A x \in A : x.balance \in Int, b.balance \in Int,
           b \notin A \ {a}
    PROVE  MoneyOf((A \ {a}) \cup {b}) = MoneyOf(A) - a.balance + b.balance
  <1> DEFINE R == A \ {a}
             B == R \cup {b}
             f == ColumnOf(A, "balance")
             g == ColumnOf(B, "balance")
  <1>1. IsFiniteSet(R)
    BY FS_Subset
  <1>2. (\A x \in A : f[x] = x.balance) /\ (\A x \in B : g[x] = x.balance)
    BY DEF ColumnOf
  <1>3. SumOf(f, A) \in Int /\ SumOf(f, A) = f[a] + SumOf(f, R)
    BY <1>2, SumRemove, ZenonT(60)
  <1>4. SumOf(g, B) = g[b] + SumOf(g, R)
    <2>1. b \notin R /\ \A x \in R \cup {b} : g[x] \in Int
      BY <1>2
    <2> HIDE DEF g, R
    <2> QED
      BY <1>1, <2>1, SumAdd
  <1>5. SumOf(f, R) = SumOf(g, R) /\ SumOf(f, R) \in Int
    <2>1. \A x \in R : f[x] = g[x] /\ f[x] \in Int
      BY <1>2
    <2> HIDE DEF g, R, f
    <2> QED
      BY <1>1, <2>1, SumSame, SumIsInt
  <1>6. f[a] = a.balance /\ g[b] = b.balance /\ a.balance \in Int
    BY <1>2
  <1> DEFINE p == SumOf(f, A)
             q == SumOf(f, R)
             r == SumOf(g, B)
  <1>7. p \in Int /\ q \in Int /\ p = a.balance + q /\ r = b.balance + q /\ a.balance \in Int
    BY <1>3, <1>4, <1>5, <1>6
  <1>8. r = p - a.balance + b.balance
    <2> HIDE DEF p, q, r
    <2> QED
      BY <1>7
  <1> QED
    BY <1>8 DEF MoneyOf

LEMMA MovedShifts ==
    ASSUME TablesOK(db), AccountsOK(db), NEW id, NEW n \in Int
    PROVE  Shifted(db, Moved(id, n), id, n)
  <1> DEFINE e == Moved(id, n)
             A == db.accounts
             move(a) == IF a.id = id THEN [a EXCEPT !.balance = @ + n] ELSE a
  <1>1. e.accounts = {move(a) : a \in A} /\ e.transactions = db.transactions
    BY DEF Moved, TablesOK, Tables
  <1>2. \A a \in A : /\ move(a).id = a.id /\ (a.id # id => move(a) = a)
                     /\ move(a).balance = a.balance + (IF a.id = id THEN n ELSE 0)
                     /\ move(a).balance \in Int
    BY DEF TablesOK, AccountsOK
  <1> HIDE DEF e, move
  <1>3. IsFiniteSet(e.accounts)
    <2> DEFINE f == [a \in A |-> move(a)]
    <2>1. {f[a] : a \in A} = e.accounts
      BY <1>1
    <2>2. IsFiniteSet({f[a] : a \in A})
      <3> HIDE DEF f
      <3> QED
        BY FiniteImage DEF AccountsOK
    <2> QED
      BY <2>1, <2>2
  <1>4. AccountsOK(e)
    BY <1>1, <1>2, <1>3 DEF AccountsOK
  <1>5. Ids(e) = Ids(db)
    BY <1>1, <1>2 DEF Ids
  <1>6. \A b \in e.accounts : \E a \in db.accounts :
          b.id = a.id /\ b.balance = a.balance + (IF a.id = id THEN n ELSE 0)
    BY <1>1, <1>2
  <1>7. ASSUME id \in Ids(db) PROVE MoneyOf(e.accounts) = MoneyOf(db.accounts) + n
    <2>1. PICK a \in A : a.id = id
      BY <1>7 DEF Ids
    <2> DEFINE b == move(a)
    <2>2. b.id = id /\ b.balance = a.balance + n /\ b.balance \in Int /\ a.balance \in Int
      BY <1>2, <2>1 DEF AccountsOK
    <2>3. \A x \in A \ {a} : x.id # id /\ move(x) = x
      BY <1>2, <2>1 DEF AccountsOK
    <2>4. b \notin A \ {a}
      BY <2>2, <2>3
    <2>5. e.accounts = (A \ {a}) \cup {b}
      BY <1>1, <2>3
    <2> HIDE DEF b, A
    <2>6. MoneyOf(e.accounts) = MoneyOf(A) - a.balance + b.balance
      BY <2>2, <2>4, <2>5, OneAccountMoves DEF AccountsOK, A
    <2>7. MoneyOf(A) \in Int
      BY MoneyIsInt DEF A
    <2> QED
      BY <2>2, <2>6, <2>7 DEF A
  <1> QED
    BY <1>1, <1>4, <1>5, <1>6, <1>7 DEF Shifted, e

-----------------------------------------------------------------------------
(* A transfer, step by step.                                                 *)

Unmoved == db'.accounts = db.accounts /\ db'.transactions = db.transactions

\* A write of transfer i that leads to step `next`, or to step `failed`.
Attempt(i, applied, next, failed) ==
  \/ applied /\ calls'[i].at = next /\ faults' = faults
  \/ (applied \/ Unmoved) /\ calls'[i].at = failed /\ faults' = faults - 1

RecordOf(i) ==
  [id |-> i, from |-> calls[i].body.from, to |-> calls[i].body.to, amount |-> calls[i].body.amount]

Records(i) == db'.accounts = db.accounts /\ db'.transactions = db.transactions \cup {RecordOf(i)}

TransferMoves(i) ==
  LET from == calls[i].body.from
      to == calls[i].body.to
      amount == calls[i].body.amount
  IN
  \/ /\ calls[i].at = "sent" /\ Unmoved /\ (faults' = faults \/ faults' = faults - 1)
     /\ calls'[i].at \in {"answered", "receiver"}
  \/ /\ calls[i].at = "receiver" /\ Unmoved /\ (faults' = faults \/ faults' = faults - 1)
     /\ calls'[i].at = "answered" \/ (calls'[i].at = "deduct" /\ from \in Ids(db) /\ to \in Ids(db))
  \/ calls[i].at = "deduct" /\ Attempt(i, Shifted(db, db', from, -amount), "add", "undo-deduct")
  \/ calls[i].at = "add" /\ Attempt(i, Shifted(db, db', to, amount), "record", "undo-deduct")
  \/ calls[i].at = "record" /\ Attempt(i, Records(i), "answered", "undo-deduct")
  \/ calls[i].at = "undo-deduct" /\ Attempt(i, Shifted(db, db', from, amount), "undo-add", "answered")
  \/ calls[i].at = "undo-add" /\ Attempt(i, Shifted(db, db', to, -amount), "answered", "answered")

LEMMA TransferMoney ==
    ASSUME OwnInv, AccountsOK(db), NEW i \in DOMAIN calls, PostTransfer(i), calls[i].body.amount \in Int
    PROVE  /\ TransferMoves(i) /\ calls[i].route = "POST/transfer"
           /\ calls[i].at # "record" /\ calls'[i].at = "answered" => calls'[i].answer.status # 200
  <1> DEFINE from == calls[i].body.from
             to == calls[i].body.to
             n == calls[i].body.amount
             undo == Continues(i, "undo-deduct", None)
  <1>1. TransferStep(i) /\ calls[i].route = "POST/transfer"
    BY TransferSteps DEF OwnInv
  <1>2. /\ \A at, loc : Continues(i, at, loc) => calls'[i].at = at
        /\ \A status, rows : Answers(i, status, rows) => calls'[i].at = "answered"
        /\ Refused(i) => calls'[i].at = "answered" /\ calls'[i].answer.status # 200
    BY DEF Continues, Answers, Refused, Reaches
  <1>3. db' = db => Unmoved
    BY DEF Unmoved
  <1>4. ASSUME NEW id, NEW k \in Int, db' = Moved(id, k) PROVE Shifted(db, db', id, k)
    BY <1>4, MovedShifts DEF OwnInv
  <1>5. -n \in Int
    OBVIOUS
  <1>6. from \in AccountIds(calls[i].user) => from \in Ids(db)
    BY DEF AccountIds, AccountsOf, Ids
  <1>7. calls[i].at = "receiver" => from \in Ids(db)
    BY <1>1 DEF OwnInv, LocalsOwn, IdsIn, Ids
  <1>8. ASSUME calls[i].at = "sent" PROVE TransferMoves(i)
    BY <1>1, <1>2, <1>3, <1>8 DEF TransferStep, TransferMoves
  <1>9. ASSUME calls[i].at = "receiver" PROVE TransferMoves(i)
    <2>1. (\E a \in db.accounts : a.id = to) => to \in Ids(db)
      BY DEF Ids
    <2> QED
      BY <1>1, <1>2, <1>3, <1>7, <1>9, <2>1 DEF TransferStep, TransferMoves
  <1>10. Continues(i, "undo-deduct", None) => calls'[i].at = "undo-deduct"
    BY <1>2
  <1>11. ASSUME calls[i].at = "deduct" PROVE TransferMoves(i)
    <2>1. Write(Moved(from, -n), Continues(i, "add", None), undo)
      BY <1>1, <1>11 DEF TransferStep
    <2>2. db' = Moved(from, -n) => Shifted(db, db', from, -n)
      BY <1>4, <1>5
    <2>3. /\ Continues(i, "add", None) => calls'[i].at = "add"
          /\ undo => calls'[i].at = "undo-deduct"
      BY <1>2
    <2>4. Attempt(i, Shifted(db, db', from, -n), "add", "undo-deduct")
      BY <1>3, <2>1, <2>2, <2>3 DEF Write, Attempt
    <2> QED
      BY <1>1, <1>11, <2>4 DEF TransferMoves
  <1>12. ASSUME calls[i].at = "add" PROVE TransferMoves(i)
    <2>1. Write(Moved(to, n), Continues(i, "record", None), undo)
      BY <1>1, <1>12 DEF TransferStep
    <2>2. db' = Moved(to, n) => Shifted(db, db', to, n)
      BY <1>4, <1>5
    <2>3. /\ Continues(i, "record", None) => calls'[i].at = "record"
          /\ undo => calls'[i].at = "undo-deduct"
      BY <1>2
    <2>4. Attempt(i, Shifted(db, db', to, n), "record", "undo-deduct")
      BY <1>3, <2>1, <2>2, <2>3 DEF Write, Attempt
    <2> QED
      BY <1>1, <1>12, <2>4 DEF TransferMoves
  <1>13. ASSUME calls[i].at = "undo-deduct" PROVE TransferMoves(i)
    <2>1. Write(Moved(from, n), Continues(i, "undo-add", None), Refused(i))
      BY <1>1, <1>13 DEF TransferStep
    <2>2. db' = Moved(from, n) => Shifted(db, db', from, n)
      BY <1>4, <1>5
    <2>3. /\ Continues(i, "undo-add", None) => calls'[i].at = "undo-add"
          /\ Refused(i) => calls'[i].at = "answered"
      BY <1>2
    <2>4. Attempt(i, Shifted(db, db', from, n), "undo-add", "answered")
      BY <1>3, <2>1, <2>2, <2>3 DEF Write, Attempt
    <2> QED
      BY <1>1, <1>13, <2>4 DEF TransferMoves
  <1>14. ASSUME calls[i].at = "undo-add" PROVE TransferMoves(i)
    <2>1. Write(Moved(to, -n), Refused(i), Refused(i))
      BY <1>1, <1>14 DEF TransferStep
    <2>2. db' = Moved(to, -n) => Shifted(db, db', to, -n)
      BY <1>4, <1>5
    <2>3. /\ Refused(i) => calls'[i].at = "answered"
          /\ Refused(i) => calls'[i].at = "answered"
      BY <1>2
    <2>4. Attempt(i, Shifted(db, db', to, -n), "answered", "answered")
      BY <1>3, <2>1, <2>2, <2>3 DEF Write, Attempt
    <2> QED
      BY <1>1, <1>14, <2>4 DEF TransferMoves
  <1>15. ASSUME calls[i].at = "record" PROVE TransferMoves(i)
    <2>1. Write([db EXCEPT !.transactions = @ \cup {RecordOf(i)}], Answers(i, 200, Plain({RecordOf(i)})), undo)
      BY <1>1, <1>15 DEF TransferStep, RecordOf
    <2>2. db' = [db EXCEPT !.transactions = @ \cup {RecordOf(i)}] => Records(i)
      BY DEF Records, OwnInv, TablesOK, Tables
    <2>3. /\ Answers(i, 200, Plain({RecordOf(i)})) => calls'[i].at = "answered"
          /\ undo => calls'[i].at = "undo-deduct"
      BY <1>2
    <2>4. Attempt(i, Records(i), "answered", "undo-deduct")
      BY <1>3, <2>1, <2>2, <2>3 DEF Write, Attempt
    <2> QED
      BY <1>1, <1>15, <2>4 DEF TransferMoves
  <1>16. calls[i].at # "record" /\ calls'[i].at = "answered" => calls'[i].answer.status # 200
    BY <1>1, <1>2 DEF TransferStep, Write
  <1> QED
    BY <1>1, <1>8, <1>9, <1>11, <1>12, <1>13, <1>14, <1>15, <1>16 DEF TransferStep

-----------------------------------------------------------------------------
(* What holds of money between steps.                                        *)

HasAccount(c) == c.route = "POST/register" /\ c.at \in {"answered", "done"}
PastRecord(c) == c.at \in {"undo-deduct", "undo-add", "answered", "done"}
Undoing(c) == c.route = "POST/transfer" /\ c.at \in {"undo-deduct", "undo-add"}

\* A transfer of a number, between accounts there are once money moves.
CallMoney(d, c) ==
  c.route = "POST/transfer" =>
    /\ c.body.amount \in Int
    /\ c.at \in {"deduct", "add", "record", "undo-deduct", "undo-add"} =>
         c.body.from \in Ids(d) /\ c.body.to \in Ids(d)

TransactionsOK(d) ==
  /\ IsFiniteSet(d.transactions)
  /\ \A t \in d.transactions : t.amount \in Int
  /\ \A t \in d.transactions \ scene.db.transactions : t.from \in Ids(d) /\ t.to \in Ids(d)

\* Accounts and transactions that requests have made name them.
MadeBy(d, cs) ==
  /\ \A a \in d.accounts : a.id \in Nat => a.id \in DOMAIN cs /\ HasAccount(cs[a.id])
  /\ \A t \in d.transactions : t.id \in Nat => t.id \in DOMAIN cs /\ PastRecord(cs[t.id])

MoneyBase ==
  /\ RegInv
  /\ AccountsOK(db) /\ TransactionsOK(db) /\ MadeBy(db, calls)
  /\ \A j \in DOMAIN calls : CallMoney(db, calls[j])
  /\ faults = scene.faults => \A j \in DOMAIN calls : ~Undoing(calls[j])

LEMMA InitMoney == Init => MoneyBase
  <1> SUFFICES ASSUME Init PROVE MoneyBase
    OBVIOUS
  <1>1. scene \in Scenes /\ Sound(db) /\ db = scene.db /\ calls = <<>>
    BY ScenesAssumption DEF Init
  <1>2. RegInv
    BY InitReg
  <1>3. AccountsOK(db) /\ TransactionsOK(db)
    BY <1>1 DEF Sound, AccountsOK, TransactionsOK
  <1>4. MadeBy(db, calls)
    BY <1>1 DEF Sound, MadeBy
  <1> QED
    BY <1>1, <1>2, <1>3, <1>4 DEF MoneyBase

LEMMA UnmovedKeeps ==
    ASSUME MoneyBase, Unmoved, scene' = scene
    PROVE  /\ AccountsOK(db') /\ TransactionsOK(db') /\ Ids(db') = Ids(db)
           /\ \A c : CallMoney(db, c) => CallMoney(db', c)
           /\ \A cs : MadeBy(db, cs) => MadeBy(db', cs)
  BY DEF MoneyBase, Unmoved, AccountsOK, TransactionsOK, Ids, CallMoney, MadeBy

LEMMA PageMoney ==
    ASSUME MoneyBase, PageStep, RegInv'
    PROVE  MoneyBase'
  <1>1. db' = db /\ scene' = scene /\ faults' = faults /\ CallsOK /\ CallsOK'
    BY DEF PageStep, Sends, MoneyBase, RegInv, OwnInv
  <1>2. /\ DOMAIN calls \subseteq DOMAIN calls'
        /\ \A j \in DOMAIN calls : Leaves(calls[j], calls'[j])
        /\ \A j \in DOMAIN calls' : j \notin DOMAIN calls => Fresh(calls'[j])
    BY <1>1 DEF PageStep, Sends, CallsOK
  <1>3. MadeBy(db, calls')
    <2>1. \A j \in DOMAIN calls : (HasAccount(calls[j]) => HasAccount(calls'[j]))
                                /\ (PastRecord(calls[j]) => PastRecord(calls'[j]))
      <3> SUFFICES ASSUME NEW j \in DOMAIN calls
                   PROVE  (HasAccount(calls[j]) => HasAccount(calls'[j])) /\ (PastRecord(calls[j]) => PastRecord(calls'[j]))
        OBVIOUS
      <3>1. Leaves(calls[j], calls'[j])
        BY <1>2
      <3> QED
        BY <3>1 DEF Leaves, HasAccount, PastRecord
    <2> QED
      BY <1>2, <2>1 DEF MoneyBase, MadeBy
  <1>4. \A j \in DOMAIN calls' : CallMoney(db, calls'[j]) /\ (Undoing(calls'[j]) => j \in DOMAIN calls /\ Undoing(calls[j]))
    <2> SUFFICES ASSUME NEW j \in DOMAIN calls'
                 PROVE  CallMoney(db, calls'[j]) /\ (Undoing(calls'[j]) => j \in DOMAIN calls /\ Undoing(calls[j]))
      OBVIOUS
    <2>1. CASE j \in DOMAIN calls
      <3>1. Leaves(calls[j], calls'[j]) /\ CallMoney(db, calls[j])
        BY <1>2, <2>1 DEF MoneyBase
      <3> QED
        BY <2>1, <3>1 DEF Leaves, CallMoney, Undoing
    <2>2. CASE j \notin DOMAIN calls
      <3>1. Fresh(calls'[j])
        BY <1>2, <2>2
      <3> QED
        BY <3>1 DEF Fresh, CallMoney, Undoing
    <2> QED
      BY <2>1, <2>2
  <1>5. AccountsOK(db') /\ TransactionsOK(db)
    BY <1>1 DEF MoneyBase
  <1>6. TransactionsOK(db)'
    BY <1>1, <1>5 DEF TransactionsOK
  <1> QED
    BY <1>1, <1>3, <1>4, <1>5, <1>6 DEF MoneyBase

NewAccount(i) == [id |-> i, owner |-> i, balance |-> 0]

\* Registration i opens its account.
Opens(i) ==
  /\ PostRegister(i) /\ calls[i].at = "insert-account" /\ calls'[i].at = "answered"
  /\ db'.accounts = db.accounts \cup {NewAccount(i)}
  /\ db'.transactions = db.transactions

\* What a handler that moves no money does to accounts and transactions.
LEMMA OthersUnmoved ==
    ASSUME TablesOK(db), CallsOK, NEW i \in DOMAIN calls, Handle(i), ~PostTransfer(i)
    PROVE  \/ Unmoved
           \/ Opens(i)
  <1> USE DEF Refuse, ExecuteQuery, ExecuteWriteQuery
  <1>1. CASE ReadOnly(i)
    BY <1>1, ReadsChangeNothing DEF Unmoved
  <1>2. CASE PostBeneficiary(i) \/ DeleteBeneficiary(i) \/ PostTicket(i)
    <2>1. \/ db' = db \/ \E X : db' = [db EXCEPT !.beneficiaries = X]
          \/ \E X : db' = [db EXCEPT !.tickets = X]
      BY <1>2 DEF PostBeneficiary, DeleteBeneficiary, PostTicket
    <2> QED
      BY <2>1 DEF Unmoved, TablesOK, Tables
  <1>3. CASE PutProfile(i)
    <2>1. db' = db \/ \E X : db' = [db EXCEPT !.users = X]
      BY <1>3 DEF PutProfile
    <2> QED
      BY <2>1 DEF Unmoved, TablesOK, Tables
  <1>4. CASE PostRegister(i)
    <2>1. RegisterStep(i)
      BY <1>4, RegisterSteps
    <2>2. \A status, rows : Answers(i, status, rows) => calls'[i].at = "answered"
      BY DEF Answers, Reaches
    <2>3. \/ db' = db \/ \E X : db' = [db EXCEPT !.users = X]
          \/ /\ calls[i].at = "insert-account" /\ db' = [db EXCEPT !.accounts = @ \cup {NewAccount(i)}]
             /\ calls'[i].at = "answered"
      BY <2>1, <2>2 DEF RegisterStep, NewAccount
    <2>4. \/ Unmoved
          \/ /\ calls[i].at = "insert-account" /\ calls'[i].at = "answered"
             /\ db'.accounts = db.accounts \cup {NewAccount(i)} /\ db'.transactions = db.transactions
      BY <2>3 DEF Unmoved, TablesOK, Tables
    <2> QED
      BY <1>4, <2>4 DEF Opens
  <1> QED
    BY <1>1, <1>2, <1>3, <1>4 DEF Handle, ReadOnly

LEMMA RegistrationMoney ==
    ASSUME MoneyBase, NEW i \in DOMAIN calls, Opens(i), Reaches(i, calls'[i].at), scene' = scene
    PROVE  /\ AccountsOK(db') /\ TransactionsOK(db') /\ MadeBy(db', calls')
           /\ i \notin Ids(db) /\ Ids(db) \subseteq Ids(db') /\ MoneyOf(db'.accounts) = MoneyOf(db.accounts)
  <1> DEFINE a == NewAccount(i)
             A == db.accounts
  <1>1. a.id = i /\ a.balance = 0
    BY DEF NewAccount
  <1>2. CallsOK /\ i \in Nat /\ DOMAIN calls' = DOMAIN calls
    <2>1. CallsOK /\ Handle(i)
      BY DEF MoneyBase, RegInv, OwnInv, Handle, Opens
    <2>2. CallsOK' /\ Len(calls') = Len(calls)
      BY <2>1, HandlerMoves DEF Moves, Advances, Reaches
    <2>3. DOMAIN calls = 1..Len(calls) /\ Len(calls) \in Nat
      BY <2>1 DEF CallsOK
    <2>4. DOMAIN calls' = 1..Len(calls')
      BY <2>2 DEF CallsOK
    <2>5. i \in Nat
      BY <2>3
    <2>6. DOMAIN calls' = DOMAIN calls
      BY <2>2, <2>3, <2>4
    <2> QED
      BY <2>1, <2>5, <2>6
  <1>3. i \notin Ids(db)
    BY <1>2 DEF Opens, MoneyBase, MadeBy, HasAccount, Ids
  <1> HIDE DEF a
  <1>4. db'.accounts = A \cup {a}
    BY DEF a, Opens
  <1>5. AccountsOK(db') /\ Ids(db) \subseteq Ids(db')
    <2>1. IsFiniteSet(db'.accounts)
      <3>1. IsFiniteSet(A)
        BY DEF MoneyBase, AccountsOK
      <3> HIDE DEF A
      <3>2. IsFiniteSet(A \cup {a})
        BY <3>1, FS_AddElement
      <3> QED
        BY <1>4, <3>2
    <2>2. \A x \in A : x.id # i /\ x.balance \in Int /\ \A y \in A : x.id = y.id => x = y
      BY <1>3 DEF MoneyBase, AccountsOK, Ids
    <2>3. Ids(db) \subseteq Ids(db')
      BY <1>4 DEF Ids
    <2> HIDE DEF A
    <2>4. \A x \in A \cup {a} : x.balance \in Int
      <3>1. a.balance \in Int
        BY <1>1
      <3> QED
        BY <2>2, <3>1
    <2>5. \A x, y \in A \cup {a} : x.id = y.id => x = y
      BY <1>1, <2>2
    <2>6. AccountsOK(db')
      BY <1>4, <2>1, <2>4, <2>5 DEF AccountsOK
    <2> QED
      BY <2>3, <2>6
  <1>6. TransactionsOK(db')
    BY <1>5 DEF Opens, MoneyBase, TransactionsOK
  <1>7. MadeBy(db', calls')
    <2>1. \A j \in DOMAIN calls : (HasAccount(calls[j]) => HasAccount(calls'[j])) /\ (PastRecord(calls[j]) => PastRecord(calls'[j]))
      BY DEF Opens, Reaches, HasAccount, PastRecord
    <2>2. HasAccount(calls'[i])
      <3>1. calls'[i].route = "POST/register"
        BY RegisterSteps DEF Opens, Reaches, SameRequest, MoneyBase, RegInv, OwnInv
      <3> QED
        BY <3>1 DEF Opens, HasAccount
    <2> QED
      BY <1>1, <1>2, <1>4, <2>1, <2>2 DEF Opens, MoneyBase, MadeBy
  <1>8. MoneyOf(db'.accounts) = MoneyOf(A)
    <2> DEFINE f == ColumnOf(A, "balance")
               B == A \cup {a}
               g == ColumnOf(B, "balance")
    <2>1. a \notin A
      BY <1>1, <1>3 DEF Ids
    <2>2. IsFiniteSet(A) /\ IsFiniteSet({a})
      BY FS_Singleton DEF MoneyBase, AccountsOK
    <2>3. /\ \A x \in A : f[x] = g[x] /\ f[x] \in Int
          /\ \A x \in {a} : g[x] = 0
      BY <1>1 DEF ColumnOf, MoneyBase, AccountsOK
    <2>4. SumOf(g, A \cup {a}) = SumOf(f, A)
      <3> HIDE DEF f, g, A
      <3>1. A \cap {a} = {}
        BY <2>1
      <3> QED
        BY <2>2, <2>3, <3>1, SumZeros
    <2> QED
      BY <1>4, <2>4 DEF MoneyOf
  <1> QED
    BY <1>3, <1>5, <1>6, <1>7, <1>8

LEMMA CallNumbers ==
    ASSUME CallsOK, NEW i \in DOMAIN calls
    PROVE  i \in Nat
  <1>1. DOMAIN calls = 1..Len(calls) /\ Len(calls) \in Nat
    BY DEF CallsOK
  <1> QED
    BY <1>1

LEMMA OneLess ==
    ASSUME NEW m \in Int
    PROVE  m - 1 # m
  OBVIOUS

LEMMA ShiftedKeeps ==
    ASSUME MoneyBase, NEW id, NEW n, Shifted(db, db', id, n), scene' = scene
    PROVE  /\ AccountsOK(db') /\ TransactionsOK(db') /\ Ids(db') = Ids(db)
           /\ \A cs : MadeBy(db, cs) => MadeBy(db', cs)
  <1>1. AccountsOK(db') /\ Ids(db') = Ids(db) /\ db'.transactions = db.transactions
    BY DEF Shifted
  <1>2. TransactionsOK(db')
    BY <1>1 DEF TransactionsOK, MoneyBase
  <1>3. \A cs : MadeBy(db, cs) => MadeBy(db', cs)
    <2>1. \A b \in db'.accounts : \E a \in db.accounts : b.id = a.id
      BY DEF Shifted
    <2> QED
      BY <1>1, <2>1 DEF MadeBy
  <1> QED
    BY <1>1, <1>2, <1>3

LEMMA RecordsKeeps ==
    ASSUME MoneyBase, NEW i \in DOMAIN calls, Records(i), calls[i].at = "record",
           calls[i].route = "POST/transfer", scene' = scene
    PROVE  /\ AccountsOK(db') /\ TransactionsOK(db') /\ Ids(db') = Ids(db)
           /\ RecordOf(i) \notin db.transactions
           /\ \A cs : MadeBy(db, cs) /\ i \in DOMAIN cs /\ PastRecord(cs[i]) => MadeBy(db', cs)
  <1> DEFINE t == RecordOf(i)
  <1>1. /\ t.id = i /\ t.from = calls[i].body.from /\ t.to = calls[i].body.to
        /\ t.amount = calls[i].body.amount
    BY DEF RecordOf
  <1>2. db'.accounts = db.accounts /\ db'.transactions = db.transactions \cup {t}
    BY DEF Records
  <1> HIDE DEF t
  <1>3. AccountsOK(db') /\ Ids(db') = Ids(db)
    BY <1>2 DEF AccountsOK, Ids, MoneyBase
  <1>4. t.amount \in Int /\ t.from \in Ids(db) /\ t.to \in Ids(db)
    BY <1>1 DEF MoneyBase, CallMoney
  <1>5. TransactionsOK(db')
    <2>1. IsFiniteSet(db'.transactions)
      BY <1>2, FS_AddElement DEF MoneyBase, TransactionsOK
    <2> QED
      BY <1>2, <1>3, <1>4, <2>1 DEF MoneyBase, TransactionsOK
  <1>6. t \notin db.transactions
    <2>1. CallsOK
      BY DEF MoneyBase, RegInv, OwnInv
    <2>2. i \in Nat
      BY <2>1, CallNumbers
    <2> QED
      BY <1>1, <2>2 DEF MoneyBase, MadeBy, PastRecord
  <1>7. \A cs : MadeBy(db, cs) /\ i \in DOMAIN cs /\ PastRecord(cs[i]) => MadeBy(db', cs)
    BY <1>1, <1>2 DEF MadeBy
  <1> QED
    BY <1>3, <1>5, <1>6, <1>7 DEF t

\* Where transfer i may be after a step.
LEMMA TransferGoesOn ==
    ASSUME NEW i, TransferMoves(i)
    PROVE  /\ PastRecord(calls[i]) => PastRecord(calls'[i])
           /\ calls[i].at \in {"deduct", "add", "record", "undo-deduct", "undo-add"} \/ calls'[i].at \in {"answered", "receiver"}
              \/ (calls'[i].at = "deduct" /\ calls[i].body.from \in Ids(db) /\ calls[i].body.to \in Ids(db))
           /\ calls'[i].at \in {"undo-deduct", "undo-add"} => faults' = faults - 1 \/ calls[i].at \in {"undo-deduct", "undo-add"}
           /\ \/ Unmoved \/ (\E id, n : Shifted(db, db', id, n))
              \/ Records(i) /\ calls[i].at = "record" /\ PastRecord(calls'[i])
  <1>1. \A x, y : Shifted(db, db', x, y) => \E id, n : Shifted(db, db', id, n)
    OBVIOUS
  <1>2. PastRecord(calls[i]) => PastRecord(calls'[i])
    BY DEF TransferMoves, Attempt, PastRecord
  <1>3. \/ calls[i].at \in {"deduct", "add", "record", "undo-deduct", "undo-add"} \/ calls'[i].at \in {"answered", "receiver"}
        \/ (calls'[i].at = "deduct" /\ calls[i].body.from \in Ids(db) /\ calls[i].body.to \in Ids(db))
    BY DEF TransferMoves
  <1>4. calls'[i].at \in {"undo-deduct", "undo-add"} => faults' = faults - 1 \/ calls[i].at \in {"undo-deduct", "undo-add"}
    BY DEF TransferMoves, Attempt
  <1>5. \/ Unmoved \/ (\E id, n : Shifted(db, db', id, n))
        \/ Records(i) /\ calls[i].at = "record" /\ PastRecord(calls'[i])
    BY <1>1 DEF TransferMoves, Attempt, PastRecord
  <1> QED
    BY <1>2, <1>3, <1>4, <1>5

LEMMA OnlyTransfers ==
    ASSUME CallsOK, NEW i \in DOMAIN calls, Handle(i), ~PostTransfer(i)
    PROVE  /\ calls[i].route # "POST/transfer" \/ (calls[i].at = "sent" /\ calls'[i].at = "answered")
           /\ calls[i].at \notin {"undo-deduct", "undo-add"}
  <1> USE DEF At, Authorized
  <1>1. CASE PostRegister(i) \/ PostLogin(i)
    BY <1>1 DEF PostRegister, PostLogin
  <1>2. CASE GetAccounts(i) \/ GetCards(i) \/ GetTransactions(i) \/ GetStats(i)
    BY <1>2 DEF GetAccounts, GetCards, GetTransactions, GetStats
  <1>3. CASE GetLoans(i) \/ GetLoanPayments(i) \/ GetBeneficiaries(i) \/ PostBeneficiary(i) \/ DeleteBeneficiary(i)
    BY <1>3 DEF GetLoans, GetLoanPayments, GetBeneficiaries, PostBeneficiary, DeleteBeneficiary
  <1>4. CASE GetTickets(i) \/ PostTicket(i) \/ GetProfile(i) \/ PutProfile(i) \/ GetSettings(i) \/ PutSettings(i)
    BY <1>4 DEF GetTickets, PostTicket, GetProfile, PutProfile, GetSettings, PutSettings
  <1>5. CASE GetSecurityLogs(i)
    BY <1>5 DEF GetSecurityLogs
  <1>6. CASE Unauthorized(i)
    <2>0. calls[i].at = "sent" /\ Respond(i, 401)
      BY <1>6 DEF Unauthorized
    <2>1. Answers(i, 401, {})
      BY <2>0, StepEnds
    <2> QED
      BY <2>0, <2>1 DEF Answers, Reaches
  <1> QED
    BY <1>1, <1>2, <1>3, <1>4, <1>5, <1>6 DEF Handle

LEMMA HandlerMoney ==
    ASSUME MoneyBase, NEW i \in DOMAIN calls, Handle(i), UNCHANGED <<scene, tab>>
    PROVE  MoneyBase'
  <1>1. RegInv' /\ CallsOK /\ CallsOK' /\ TablesOK(db)
    BY HandlerReg DEF MoneyBase, RegInv, OwnInv
  <1>2. Reaches(i, calls'[i].at) /\ (faults' = faults \/ faults' = faults - 1) /\ Pending(i)
    BY <1>1, HandlerMoves DEF Moves, Advances
  <1>3. DOMAIN calls' = DOMAIN calls /\ \A j \in DOMAIN calls : j # i => calls'[j] = calls[j]
    BY <1>1, <1>2 DEF Reaches, CallsOK
  <1>4. calls'[i].route = calls[i].route /\ calls'[i].body = calls[i].body
    BY <1>2 DEF Reaches, SameRequest
  <1>5. faults' = scene.faults => faults' = faults /\ faults = scene.faults
    <2>1. faults \in Int /\ faults <= scene.faults /\ scene.faults \in Nat
      BY ScenesAssumption DEF MoneyBase, RegInv, OwnInv
    <2> QED
      BY <1>2, <2>1
  <1>6. ASSUME AccountsOK(db'), TransactionsOK(db'), Ids(db) \subseteq Ids(db'), MadeBy(db', calls'),
               CallMoney(db', calls'[i]), Undoing(calls'[i]) => Undoing(calls[i]) \/ faults' # faults
        PROVE  MoneyBase'
    <2>1. \A j \in DOMAIN calls' : CallMoney(db', calls'[j])
      BY <1>3, <1>6 DEF MoneyBase, CallMoney
    <2>2. faults' = scene'.faults => \A j \in DOMAIN calls' : ~Undoing(calls'[j])
      BY <1>3, <1>5, <1>6 DEF MoneyBase
    <2>3. TransactionsOK(db)'
      BY <1>6 DEF TransactionsOK
    <2> QED
      BY <1>1, <1>6, <2>1, <2>2, <2>3 DEF MoneyBase
  <1>7. \A j \in DOMAIN calls : j # i => (HasAccount(calls[j]) => HasAccount(calls'[j]))
                                       /\ (PastRecord(calls[j]) => PastRecord(calls'[j]))
    BY <1>3
  <1>8. ~HasAccount(calls[i])
    BY <1>2 DEF HasAccount, Pending
  <1>9. ASSUME PastRecord(calls[i]) => PastRecord(calls'[i]) PROVE MadeBy(db, calls')
    BY <1>3, <1>7, <1>8, <1>9 DEF MoneyBase, MadeBy
  <1>10. CASE PostTransfer(i)
    <2>1. TransferMoves(i) /\ calls[i].route = "POST/transfer"
      BY <1>10, TransferMoney DEF MoneyBase, RegInv, CallMoney, PostTransfer, UndoTransfer, At, Authorized
    <2>2. MadeBy(db, calls')
      BY <1>9, <2>1, TransferGoesOn
    <2>3. /\ AccountsOK(db') /\ TransactionsOK(db') /\ Ids(db') = Ids(db) /\ MadeBy(db', calls')
      <3>1. CASE Unmoved
        BY <2>2, <3>1, UnmovedKeeps
      <3>2. CASE \E id, n : Shifted(db, db', id, n)
        BY <2>2, <3>2, ShiftedKeeps
      <3>3. CASE Records(i) /\ calls[i].at = "record" /\ PastRecord(calls'[i])
        BY <1>3, <2>1, <2>2, <3>3, RecordsKeeps
      <3> QED
        BY <2>1, <3>1, <3>2, <3>3, TransferGoesOn
    <2>4. CallMoney(db', calls'[i])
      BY <1>4, <2>1, <2>3, TransferGoesOn DEF CallMoney, MoneyBase
    <2>5. Undoing(calls'[i]) => Undoing(calls[i]) \/ faults' # faults
      <3>1. faults \in Int
        BY DEF MoneyBase, RegInv, OwnInv
      <3>2. faults - 1 # faults
        BY <3>1, OneLess
      <3>3. calls'[i].at \in {"undo-deduct", "undo-add"} => faults' = faults - 1 \/ calls[i].at \in {"undo-deduct", "undo-add"}
        BY <2>1, TransferGoesOn
      <3> QED
        BY <1>4, <2>1, <3>2, <3>3 DEF Undoing
    <2> QED
      BY <1>6, <2>3, <2>4, <2>5
  <1>11. CASE ~PostTransfer(i)
    <2>1. /\ calls[i].route # "POST/transfer" \/ calls'[i].at = "answered"
          /\ ~PastRecord(calls[i])
      BY <1>1, <1>2, <1>11, OnlyTransfers DEF PastRecord, Pending
    <2>4. MadeBy(db, calls')
      BY <1>9, <2>1
    <2>5. Undoing(calls'[i]) => Undoing(calls[i])
      BY <1>4, <2>1 DEF Undoing
    <2>6. CallMoney(db', calls'[i])
      BY <1>4, <2>1 DEF CallMoney, MoneyBase
    <2>2. CASE Unmoved
      BY <1>6, <2>2, <2>4, <2>5, <2>6, UnmovedKeeps
    <2>3. CASE Opens(i)
      BY <1>2, <1>6, <2>3, <2>5, <2>6, RegistrationMoney
    <2> QED
      BY <1>1, <1>11, <2>2, <2>3, OthersUnmoved
  <1> QED
    BY <1>10, <1>11

-----------------------------------------------------------------------------
(* What transfers under way have done.                                       *)

LEMMA LostConnectionMoney ==
    ASSUME MoneyBase, NEW i \in DOMAIN calls, ConnectionFails(i)
    PROVE  MoneyBase' /\ faults' # scene'.faults
  <1>1. CallsOK /\ faults \in Int /\ faults <= scene.faults /\ scene.faults \in Nat
    BY ScenesAssumption DEF MoneyBase, RegInv, OwnInv
  <1>2. /\ Answers(i, -1, {}) /\ calls[i].at \in {"sent", "answered"}
        /\ faults' = faults - 1 /\ db' = db /\ scene' = scene
    BY <1>1, ConnectionFailsEffect
  <1>3. RegInv'
    BY LostConnectionReg DEF MoneyBase
  <1>4. faults' # scene'.faults
    BY <1>1, <1>2
  <1>5. /\ DOMAIN calls' = DOMAIN calls /\ calls'[i].at = "answered"
        /\ \A j \in DOMAIN calls : /\ calls'[j].route = calls[j].route /\ calls'[j].body = calls[j].body
                                   /\ (j # i => calls'[j] = calls[j])
    BY <1>1, <1>2 DEF Answers, Reaches, SameRequest, CallsOK
  <1>6. MadeBy(db', calls')
    <2>1. \A j \in DOMAIN calls : (HasAccount(calls[j]) => HasAccount(calls'[j])) /\ (PastRecord(calls[j]) => PastRecord(calls'[j]))
      BY <1>5 DEF HasAccount, PastRecord
    <2> QED
      BY <1>2, <1>5, <2>1 DEF MoneyBase, MadeBy
  <1>7. \A j \in DOMAIN calls' : CallMoney(db', calls'[j])
    <2>1. CallMoney(db', calls'[i])
      BY <1>2, <1>5 DEF MoneyBase, CallMoney
    <2> QED
      BY <1>2, <1>5, <2>1 DEF MoneyBase
  <1>8. AccountsOK(db') /\ TransactionsOK(db)'
    BY <1>2 DEF MoneyBase, TransactionsOK
  <1> QED
    BY <1>3, <1>4, <1>6, <1>7, <1>8 DEF MoneyBase

LEMMA NextMoney == MoneyBase /\ [Next]_vars => MoneyBase'
  <1> SUFFICES ASSUME MoneyBase, [Next]_vars PROVE MoneyBase'
    OBVIOUS
  <1>1. ASSUME NEW i \in DOMAIN calls, Handle(i), UNCHANGED <<scene, tab>> PROVE MoneyBase'
    BY <1>1, HandlerMoney
  <1>2. CASE Callback \/ User \/ OtherClient
    <2>1. PageStep
      BY <1>2, CallbackSends, UserSends DEF MoneyBase, RegInv, OwnInv
    <2>2. RegInv'
      BY NextReg DEF MoneyBase
    <2> QED
      BY <2>1, <2>2, PageMoney
  <1>3. ASSUME NEW i \in DOMAIN calls, ConnectionFails(i) PROVE MoneyBase'
    BY <1>3, LostConnectionMoney
  <1>4. CASE UNCHANGED vars
    <2>1. db' = db /\ calls' = calls /\ faults' = faults /\ scene' = scene
      BY <1>4 DEF vars, apiVars
    <2>2. RegInv'
      BY NextReg DEF MoneyBase
    <2>3. AccountsOK(db)' /\ TransactionsOK(db)' /\ MadeBy(db, calls)'
      BY <2>1 DEF MoneyBase, TransactionsOK
    <2> QED
      BY <2>1, <2>2, <2>3 DEF MoneyBase
  <1> QED
    BY <1>1, <1>2, <1>3, <1>4 DEF Next, Serve

\* What transfers under way have done to account id.
Fly(cs, id) == SumOf(Flights(cs, id), DOMAIN cs)

LEMMA FlightTerms ==
    ASSUME NEW c, NEW id, c.route = "POST/transfer"
    PROVE  \E x, y : /\ InFlight(c, id) = x + y
                     /\ x = IF c.at \in {"add", "record"} /\ id = c.body.from THEN -c.body.amount ELSE 0
                     /\ y = IF c.at = "record" /\ id = c.body.to THEN c.body.amount ELSE 0
  BY Zenon DEF InFlight

LEMMA FlightIsInt ==
    ASSUME NEW d, NEW c, CallMoney(d, c), NEW id
    PROVE  InFlight(c, id) \in Int
  <1>1. CASE c.route # "POST/transfer"
    <2>1. InFlight(c, id) = 0
      BY <1>1, Zenon DEF InFlight
    <2> QED
      BY <2>1
  <1>2. CASE c.route = "POST/transfer"
    <2> DEFINE n == c.body.amount
    <2>1. PICK x, y : /\ InFlight(c, id) = x + y
                      /\ x = IF c.at \in {"add", "record"} /\ id = c.body.from THEN -n ELSE 0
                      /\ y = IF c.at = "record" /\ id = c.body.to THEN n ELSE 0
      BY <1>2, FlightTerms
    <2>2. n \in Int
      BY <1>2 DEF CallMoney
    <2> HIDE DEF n
    <2>3. x \in Int /\ y \in Int
      BY <2>1, <2>2
    <2> QED
      BY <2>1, <2>3
  <1> QED
    BY <1>1, <1>2

\* Transfer c is between its first and its last write.
Paying(c) == c.route = "POST/transfer" /\ c.at \in {"add", "record"}

LEMMA NotInFlight ==
    ASSUME NEW c, NEW id, ~Paying(c)
    PROVE  InFlight(c, id) = 0
  <1>1. CASE c.route # "POST/transfer"
    BY <1>1, Zenon DEF InFlight
  <1>2. CASE c.route = "POST/transfer"
    <2>1. PICK x, y : /\ InFlight(c, id) = x + y
                      /\ x = IF c.at \in {"add", "record"} /\ id = c.body.from THEN -c.body.amount ELSE 0
                      /\ y = IF c.at = "record" /\ id = c.body.to THEN c.body.amount ELSE 0
      BY <1>2, FlightTerms
    <2>2. x = 0 /\ y = 0 /\ InFlight(c, id) = x + y
      BY <1>2, <2>1 DEF Paying
    <2> QED
      BY <2>2
  <1> QED
    BY <1>1, <1>2

LEMMA FlyOfOne ==
    ASSUME CallsOK, NEW i \in DOMAIN calls, DOMAIN calls' = DOMAIN calls,
           \A j \in DOMAIN calls : j # i => calls'[j] = calls[j],
           NEW d, NEW e, \A j \in DOMAIN calls : CallMoney(d, calls[j]) /\ CallMoney(e, calls'[j]),
           NEW id
    PROVE  /\ Fly(calls, id) \in Int
           /\ Fly(calls', id) = Fly(calls, id) - InFlight(calls[i], id) + InFlight(calls'[i], id)
  <1> DEFINE D == DOMAIN calls
             f == Flights(calls, id)
             g == Flights(calls', id)
  <1>1. IsFiniteSet(D)
    BY SumOfFlights
  <1>2. \A j \in D : f[j] = InFlight(calls[j], id) /\ g[j] = InFlight(calls'[j], id)
    BY DEF Flights
  <1>3. \A j \in D : f[j] \in Int /\ g[j] \in Int
    BY <1>2, FlightIsInt
  <1>4. \A j \in D \ {i} : f[j] = g[j]
    BY <1>2
  <1>5. SumOf(f, D) \in Int /\ SumOf(g, D) = SumOf(f, D) - f[i] + g[i]
    <2> HIDE DEF f, g, D
    <2>1. i \in D
      BY DEF D
    <2> QED
      BY <1>1, <1>3, <1>4, <2>1, SumChange
  <1> QED
    BY <1>2, <1>5 DEF Fly

LEMMA FlyOfPage ==
    ASSUME MoneyBase, PageStep, NEW id
    PROVE  Fly(calls', id) = Fly(calls, id)
  <1> DEFINE D == DOMAIN calls
             R == DOMAIN calls' \ D
             f == Flights(calls, id)
             g == Flights(calls', id)
  <1>1. CallsOK /\ CallsOK'
    BY DEF PageStep, Sends, MoneyBase, RegInv, OwnInv
  <1>2. /\ DOMAIN calls \subseteq DOMAIN calls'
        /\ \A j \in DOMAIN calls : Leaves(calls[j], calls'[j])
        /\ \A j \in R : Fresh(calls'[j])
    BY <1>1 DEF PageStep, Sends, CallsOK
  <1>3. IsFiniteSet(D) /\ IsFiniteSet(R)
    <2>1. IsFiniteSet(D)
      BY <1>1, SumOfFlights
    <2>2. DOMAIN calls' = 1..Len(calls') /\ Len(calls') \in Nat
      BY <1>1 DEF CallsOK
    <2>3. IsFiniteSet(DOMAIN calls')
      BY <2>2, FS_Interval
    <2> QED
      BY <2>1, <2>3, FS_Subset
  <1>4. ASSUME NEW j \in D PROVE f[j] = g[j] /\ f[j] \in Int
    <2>1. f[j] = InFlight(calls[j], id) /\ g[j] = InFlight(calls'[j], id)
      BY <1>2 DEF Flights
    <2>2. Leaves(calls[j], calls'[j]) /\ CallMoney(db, calls[j])
      BY <1>2 DEF MoneyBase
    <2>3. InFlight(calls'[j], id) = InFlight(calls[j], id)
      BY <2>2 DEF Leaves, InFlight
    <2> QED
      BY <2>1, <2>2, <2>3, FlightIsInt
  <1>5. ASSUME NEW j \in R PROVE g[j] = 0
    <2>1. g[j] = InFlight(calls'[j], id) /\ Fresh(calls'[j])
      BY <1>2 DEF Flights
    <2> QED
      BY <2>1, NotInFlight DEF Fresh, Paying
  <1>6. SumOf(g, D \cup R) = SumOf(f, D)
    <2>1. D \cap R = {}
      OBVIOUS
    <2> HIDE DEF f, g, D, R
    <2> QED
      BY <1>3, <1>4, <1>5, <2>1, SumZeros
  <1>7. D \cup R = DOMAIN calls'
    BY <1>2
  <1> QED
    BY <1>6, <1>7 DEF Fly

\* A sum of zeros.
LEMMA NothingFlies ==
    ASSUME CallsOK, NEW id, \A j \in DOMAIN calls : InFlight(calls[j], id) = 0
    PROVE  Fly(calls, id) = 0
  <1> DEFINE D == DOMAIN calls
             g == Flights(calls, id)
             f == [x \in {} |-> 0]
  <1>1. IsFiniteSet(D) /\ IsFiniteSet({})
    BY SumOfFlights, FS_EmptySet
  <1>2. \A j \in D : g[j] = 0
    BY DEF Flights
  <1>3. SumOf(g, {} \cup D) = SumOf(f, {})
    <2> HIDE DEF g, D
    <2>1. {} \cap D = {} /\ \A x \in {} : f[x] = g[x] /\ f[x] \in Int
      OBVIOUS
    <2> HIDE DEF f
    <2> QED
      BY <1>1, <1>2, <2>1, SumZeros
  <1>4. SumOf(f, {}) = 0
    <2> HIDE DEF f
    <2> QED
      BY SumEmpty
  <1>5. {} \cup D = D
    OBVIOUS
  <1> QED
    BY <1>3, <1>4, <1>5 DEF Fly

-----------------------------------------------------------------------------
(* Balances are explained by the history.                                    *)

AmountOf(ts) == SumOf(ColumnOf(ts, "amount"), ts)
NewTo(d, id) == {t \in d.transactions \ scene.db.transactions : t.to = id}
NewFrom(d, id) == {t \in d.transactions \ scene.db.transactions : t.from = id}
Began(id) == MoneyOf({a \in scene.db.accounts : a.id = id})

\* What account id should hold.
Explained(d, cs, id) == Began(id) + AmountOf(NewTo(d, id)) - AmountOf(NewFrom(d, id)) + Fly(cs, id)

Balanced(d, cs) == \A a \in d.accounts : a.balance = Explained(d, cs, a.id)

LedgerInv == MoneyBase /\ (faults = scene.faults => Balanced(db, calls))

LEMMA AmountAdd ==
    ASSUME NEW ts, IsFiniteSet(ts), \A t \in ts : t.amount \in Int, NEW t, t \notin ts, t.amount \in Int
    PROVE  AmountOf(ts \cup {t}) = AmountOf(ts) + t.amount
  <1> DEFINE us == ts \cup {t}
             f == ColumnOf(ts, "amount")
             g == ColumnOf(us, "amount")
  <1>1. /\ \A x \in ts : f[x] = g[x] /\ f[x] \in Int
        /\ \A x \in ts \cup {t} : g[x] \in Int
        /\ g[t] = t.amount
    BY DEF ColumnOf
  <1> HIDE DEF f, g
  <1>2. SumOf(g, ts \cup {t}) = g[t] + SumOf(g, ts)
    BY <1>1, SumAdd
  <1>3. SumOf(f, ts) = SumOf(g, ts) /\ SumOf(f, ts) \in Int
    BY <1>1, SumSame, SumIsInt
  <1>4. SumOf(g, ts \cup {t}) = SumOf(f, ts) + t.amount
    BY <1>1, <1>2, <1>3
  <1> QED
    BY <1>4 DEF AmountOf, f, g

LEMMA AmountIsInt ==
    ASSUME NEW ts, IsFiniteSet(ts), \A t \in ts : t.amount \in Int
    PROVE  AmountOf(ts) \in Int
  <1> DEFINE f == ColumnOf(ts, "amount")
  <1>1. \A x \in ts : f[x] \in Int
    BY DEF ColumnOf
  <1> HIDE DEF f
  <1>2. SumOf(f, ts) \in Int
    BY <1>1, SumIsInt
  <1> QED
    BY <1>2 DEF AmountOf, f

LEMMA NewAmounts ==
    ASSUME TransactionsOK(db), NEW id
    PROVE  /\ IsFiniteSet(NewTo(db, id)) /\ \A t \in NewTo(db, id) : t.amount \in Int
           /\ IsFiniteSet(NewFrom(db, id)) /\ \A t \in NewFrom(db, id) : t.amount \in Int
           /\ AmountOf(NewTo(db, id)) \in Int /\ AmountOf(NewFrom(db, id)) \in Int
  <1>1. IsFiniteSet(NewTo(db, id)) /\ IsFiniteSet(NewFrom(db, id))
    BY FS_Subset DEF TransactionsOK, NewTo, NewFrom
  <1>2. (\A t \in NewTo(db, id) : t.amount \in Int) /\ \A t \in NewFrom(db, id) : t.amount \in Int
    BY DEF TransactionsOK, NewTo, NewFrom
  <1> QED
    BY <1>1, <1>2, AmountIsInt

LEMMA BeganIsInt ==
    ASSUME OwnInv, NEW id
    PROVE  Began(id) \in Int
  <1> DEFINE d == [accounts |-> {a \in scene.db.accounts : a.id = id}]
  <1>1. AccountsOK(d)
    <2>1. Sound(scene.db)
      BY ScenesAssumption DEF OwnInv
    <2>2. d.accounts \subseteq scene.db.accounts
      OBVIOUS
    <2> QED
      BY <2>1, <2>2, FS_Subset DEF Sound, AccountsOK
  <1>2. MoneyOf(d.accounts) \in Int
    <2> HIDE DEF d
    <2> QED
      BY <1>1, MoneyIsInt
  <1> QED
    BY <1>2 DEF Began

\* Balances stay explained when a handler moves n to account id and the terms in flight
\* say so.
LEMMA ShiftExplained ==
    ASSUME LedgerInv, Balanced(db, calls), NEW id, NEW n \in Int, Shifted(db, db', id, n), scene' = scene,
           NEW i, \A x : /\ InFlight(calls[i], x) \in Int /\ Fly(calls, x) \in Int
                         /\ InFlight(calls'[i], x) = InFlight(calls[i], x) + (IF x = id THEN n ELSE 0)
                         /\ Fly(calls', x) = Fly(calls, x) - InFlight(calls[i], x) + InFlight(calls'[i], x)
    PROVE  Balanced(db', calls')
  <1> SUFFICES ASSUME NEW b \in db'.accounts PROVE b.balance = Explained(db', calls', b.id)
    BY DEF Balanced
  <1>1. PICK a \in db.accounts : b.id = a.id /\ b.balance = a.balance + (IF a.id = id THEN n ELSE 0)
    BY DEF Shifted
  <1> DEFINE x == a.id
             k == IF x = id THEN n ELSE 0
             p == AmountOf(NewTo(db, x))
             q == AmountOf(NewFrom(db, x))
             o == Began(x)
             f == Fly(calls, x)
             g == Fly(calls', x)
  <1>2. /\ NewTo(db', x) = NewTo(db, x) /\ NewFrom(db', x) = NewFrom(db, x)
    BY DEF Shifted, NewTo, NewFrom
  <1>3. p \in Int /\ q \in Int /\ o \in Int /\ k \in Int
    BY NewAmounts, BeganIsInt DEF LedgerInv, MoneyBase, RegInv
  <1>4. f \in Int /\ g = f + k
    <2>1. /\ InFlight(calls[i], x) \in Int /\ f \in Int
          /\ InFlight(calls'[i], x) = InFlight(calls[i], x) + k
          /\ g = f - InFlight(calls[i], x) + InFlight(calls'[i], x)
      OBVIOUS
    <2> HIDE DEF f, g, k, x
    <2> QED
      BY <1>3, <2>1
  <1>5. a.balance = o + p - q + f
    BY DEF Balanced, Explained
  <1>6. b.balance = o + p - q + g
    <2>1. b.balance = a.balance + k
      BY <1>1
    <2> HIDE DEF o, p, q, f, g, k
    <2> QED
      BY <1>3, <1>4, <1>5, <2>1
  <1>7. Explained(db', calls', b.id) = o + p - q + g
    BY <1>1, <1>2, Zenon DEF Explained
  <1> QED
    BY <1>6, <1>7

\* So they do when it leaves accounts and transactions alone.
LEMMA StillExplained ==
    ASSUME Balanced(db, calls), Unmoved, \A x : Fly(calls', x) = Fly(calls, x)
    PROVE  Balanced(db', calls')
  <1> SUFFICES ASSUME NEW b \in db'.accounts PROVE b.balance = Explained(db', calls', b.id)
    BY DEF Balanced
  <1>1. NewTo(db', b.id) = NewTo(db, b.id) /\ NewFrom(db', b.id) = NewFrom(db, b.id)
    BY DEF Unmoved, NewTo, NewFrom
  <1>2. b.balance = Explained(db, calls, b.id)
    BY DEF Balanced, Unmoved
  <1> QED
    BY <1>1, <1>2 DEF Explained

\* So they do when it puts on record what was in flight.
LEMMA RecordExplained ==
    ASSUME LedgerInv, Balanced(db, calls), NEW i, Records(i), RecordOf(i) \notin db.transactions, scene' = scene,
           RecordOf(i) \notin scene.db.transactions, calls[i].body.amount \in Int,
           \A x : /\ InFlight(calls[i], x) = (IF x = calls[i].body.from THEN -calls[i].body.amount ELSE 0)
                                             + (IF x = calls[i].body.to THEN calls[i].body.amount ELSE 0)
                  /\ InFlight(calls'[i], x) = 0 /\ Fly(calls, x) \in Int
                  /\ Fly(calls', x) = Fly(calls, x) - InFlight(calls[i], x) + InFlight(calls'[i], x)
    PROVE  Balanced(db', calls')
  <1> SUFFICES ASSUME NEW a \in db.accounts PROVE a.balance = Explained(db', calls', a.id)
    BY DEF Balanced, Records
  <1> DEFINE t == RecordOf(i)
             x == a.id
             n == calls[i].body.amount
             k == IF x = t.from THEN n ELSE 0
             m == IF x = t.to THEN n ELSE 0
             p == AmountOf(NewTo(db, x))
             q == AmountOf(NewFrom(db, x))
             pp == AmountOf(NewTo(db', x))
             qq == AmountOf(NewFrom(db', x))
             o == Began(x)
             f == Fly(calls, x)
             g == Fly(calls', x)
  <1>1. t.from = calls[i].body.from /\ t.to = calls[i].body.to /\ t.amount = n
    BY DEF RecordOf
  <1>2. p \in Int /\ q \in Int /\ o \in Int /\ n \in Int /\ k \in Int /\ m \in Int
    BY NewAmounts, BeganIsInt DEF LedgerInv, MoneyBase, RegInv
  <1>3. t \notin db.transactions /\ t \notin scene.db.transactions /\ db'.transactions = db.transactions \cup {t}
    BY DEF Records
  <1>4. /\ IsFiniteSet(NewTo(db, x)) /\ \A u \in NewTo(db, x) : u.amount \in Int
        /\ IsFiniteSet(NewFrom(db, x)) /\ \A u \in NewFrom(db, x) : u.amount \in Int
    BY NewAmounts DEF LedgerInv, MoneyBase
  <1>5. pp = p + m
    <2> HIDE DEF t, x
    <2>1. NewTo(db', x) = IF x = t.to THEN NewTo(db, x) \cup {t} ELSE NewTo(db, x)
      BY <1>3 DEF NewTo
    <2>2. t \notin NewTo(db, x) /\ t.amount \in Int
      BY <1>1, <1>2, <1>3 DEF NewTo
    <2>3. AmountOf(NewTo(db, x) \cup {t}) = p + n
      BY <1>1, <1>4, <2>2, AmountAdd
    <2> QED
      BY <1>2, <2>1, <2>3
  <1>6. qq = q + k
    <2> HIDE DEF t, x
    <2>1. NewFrom(db', x) = IF x = t.from THEN NewFrom(db, x) \cup {t} ELSE NewFrom(db, x)
      BY <1>3 DEF NewFrom
    <2>2. t \notin NewFrom(db, x) /\ t.amount \in Int
      BY <1>1, <1>2, <1>3 DEF NewFrom
    <2>3. AmountOf(NewFrom(db, x) \cup {t}) = q + n
      BY <1>1, <1>4, <2>2, AmountAdd
    <2> QED
      BY <1>2, <2>1, <2>3
  <1>7. f \in Int /\ g = f - (m - k)
    <2> DEFINE l == InFlight(calls[i], x)
               r == InFlight(calls'[i], x)
    <2>1. /\ f \in Int /\ r = 0 /\ g = f - l + r
          /\ l = (IF x = t.from THEN -n ELSE 0) + (IF x = t.to THEN n ELSE 0)
      BY <1>1
    <2>2. (IF x = t.from THEN -n ELSE 0) = -k
      BY <1>2
    <2> HIDE DEF f, g, t, x, n, l, r
    <2>3. l = (-k) + m
      BY <2>1, <2>2
    <2> HIDE DEF k, m
    <2> QED
      BY <1>2, <2>1, <2>3
  <1>8. a.balance = o + p - q + f
    BY DEF Balanced, Explained
  <1>9. a.balance = o + pp - qq + g
    <2> HIDE DEF o, p, q, f, g, k, m, pp, qq
    <2> QED
      BY <1>2, <1>5, <1>6, <1>7, <1>8
  <1> QED
    BY <1>9 DEF Explained

\* An account nobody has used yet.
LEMMA Untouched ==
    ASSUME MoneyBase, NEW i \in Nat, i \notin Ids(db)
    PROVE  Explained(db, calls, i) = 0
  <1>1. OwnInv /\ CallsOK /\ Sound(scene.db)
    BY ScenesAssumption DEF MoneyBase, RegInv, OwnInv
  <1>2. NewTo(db, i) = {} /\ NewFrom(db, i) = {} /\ {a \in scene.db.accounts : a.id = i} = {}
    BY <1>1 DEF NewTo, NewFrom, MoneyBase, TransactionsOK, Sound
  <1>3. Fly(calls, i) = 0
    <2>1. ASSUME NEW j \in DOMAIN calls PROVE InFlight(calls[j], i) = 0
      <3>1. CallMoney(db, calls[j])
        BY DEF MoneyBase
      <3>2. CASE Paying(calls[j])
        <4> DEFINE n == calls[j].body.amount
        <4>1. /\ calls[j].route = "POST/transfer" /\ n \in Int
              /\ i # calls[j].body.from /\ i # calls[j].body.to
          BY <3>1, <3>2 DEF CallMoney, Paying
        <4>2. PICK x, y : /\ InFlight(calls[j], i) = x + y
                          /\ x = IF calls[j].at \in {"add", "record"} /\ i = calls[j].body.from THEN -n ELSE 0
                          /\ y = IF calls[j].at = "record" /\ i = calls[j].body.to THEN n ELSE 0
          BY <4>1, FlightTerms
        <4>3. x = 0 /\ y = 0 /\ InFlight(calls[j], i) = x + y
          BY <4>1, <4>2
        <4> QED
          BY <4>3
      <3>3. CASE ~Paying(calls[j])
        BY <3>3, NotInFlight
      <3> QED
        BY <3>2, <3>3
    <2> QED
      BY <1>1, <2>1, NothingFlies
  <1>4. AmountOf({}) = 0 /\ MoneyOf({}) = 0
    BY SumEmpty DEF AmountOf, MoneyOf
  <1>5. Explained(db, calls, i) = 0 + 0 - 0 + 0
    BY <1>2, <1>3, <1>4, Zenon DEF Explained, Began
  <1> QED
    BY <1>5

\* So they do when it opens an account: nobody has paid it or been paid from it.
LEMMA OpensExplained ==
    ASSUME MoneyBase, Balanced(db, calls), NEW i \in DOMAIN calls, Opens(i), i \notin Ids(db),
           \A x : Fly(calls', x) = Fly(calls, x)
    PROVE  Balanced(db', calls')
  <1>1. \A x : Explained(db', calls', x) = Explained(db, calls, x)
    BY DEF Opens, Explained, NewTo, NewFrom
  <1>2. Explained(db, calls, i) = 0
    <2>1. CallsOK
      BY DEF MoneyBase, RegInv, OwnInv
    <2> QED
      BY <2>1, CallNumbers, Untouched
  <1>3. NewAccount(i).id = i /\ NewAccount(i).balance = 0
    BY DEF NewAccount
  <1>4. \A a \in db.accounts : a.balance = Explained(db, calls, a.id)
    BY DEF Balanced
  <1>5. db'.accounts = db.accounts \cup {NewAccount(i)}
    BY DEF Opens
  <1> QED
    BY <1>1, <1>2, <1>3, <1>4, <1>5 DEF Balanced

LEMMA InitLedger == Init => LedgerInv
  <1> SUFFICES ASSUME Init PROVE LedgerInv
    OBVIOUS
  <1>1. MoneyBase /\ CallsOK /\ db = scene.db /\ DOMAIN calls = {}
    BY InitMoney DEF MoneyBase, RegInv, OwnInv, Init
  <1>2. Sound(scene.db)
    BY ScenesAssumption DEF Init
  <1>3. ASSUME NEW a \in db.accounts PROVE a.balance = Explained(db, calls, a.id)
    <2>1. NewTo(db, a.id) = {} /\ NewFrom(db, a.id) = {}
      BY <1>1 DEF NewTo, NewFrom
    <2>2. AmountOf({}) = 0 /\ MoneyOf({}) = 0
      BY SumEmpty DEF AmountOf, MoneyOf
    <2>3. Fly(calls, a.id) = 0
      BY <1>1, NothingFlies
    <2>4. Began(a.id) = a.balance /\ a.balance \in Int
      <3> DEFINE f == ColumnOf({a}, "balance")
      <3>1. {b \in scene.db.accounts : b.id = a.id} = {} \cup {a} /\ a.balance \in Int
        BY <1>1, <1>2 DEF Sound
      <3>2. f[a] = a.balance /\ {} \cup {a} = {a}
        BY DEF ColumnOf
      <3>3. SumOf(f, {} \cup {a}) = f[a] + SumOf(f, {})
        <4> HIDE DEF f
        <4> QED
          BY <3>1, <3>2, FS_EmptySet, SumAdd
      <3>4. SumOf(f, {}) = 0
        <4> HIDE DEF f
        <4> QED
          BY SumEmpty
      <3>5. SumOf(f, {} \cup {a}) = a.balance
        BY <3>1, <3>2, <3>3, <3>4
      <3> QED
        BY <3>1, <3>2, <3>5 DEF Began, MoneyOf
    <2>5. Explained(db, calls, a.id) = a.balance + 0 - 0 + 0
      BY <2>1, <2>2, <2>3, <2>4, Zenon DEF Explained
    <2> QED
      BY <2>4, <2>5
  <1> QED
    BY <1>1, <1>3 DEF LedgerInv, Balanced

\* The terms of a transfer under way.
LEMMA TransferInFlight ==
    ASSUME NEW c, c.route = "POST/transfer", c.body.amount \in Int, NEW id
    PROVE  /\ c.at = "add" => InFlight(c, id) = IF id = c.body.from THEN -c.body.amount ELSE 0
           /\ c.at = "record" => InFlight(c, id) = (IF id = c.body.from THEN -c.body.amount ELSE 0)
                                                   + (IF id = c.body.to THEN c.body.amount ELSE 0)
           /\ c.at \notin {"add", "record"} => InFlight(c, id) = 0
  <1> DEFINE n == c.body.amount
  <1>1. PICK x, y : /\ InFlight(c, id) = x + y
                    /\ x = IF c.at \in {"add", "record"} /\ id = c.body.from THEN -n ELSE 0
                    /\ y = IF c.at = "record" /\ id = c.body.to THEN n ELSE 0
    BY FlightTerms
  <1>2. ASSUME c.at = "add" PROVE InFlight(c, id) = IF id = c.body.from THEN -n ELSE 0
    <2>1. c.at \in {"add", "record"} /\ c.at # "record"
      BY <1>2
    <2>2. x = (IF id = c.body.from THEN -n ELSE 0) /\ y = 0 /\ InFlight(c, id) = x + y
      BY <1>1, <2>1, Zenon
    <2> HIDE DEF n
    <2>3. x \in Int
      BY <2>2
    <2>4. InFlight(c, id) = x
      BY <2>2, <2>3
    <2> QED
      BY <2>2, <2>4
  <1>3. ASSUME c.at = "record" PROVE InFlight(c, id) = (IF id = c.body.from THEN -n ELSE 0) + (IF id = c.body.to THEN n ELSE 0)
    BY <1>1, <1>3
  <1>4. ASSUME c.at \notin {"add", "record"} PROVE InFlight(c, id) = 0
    BY <1>4, NotInFlight DEF Paying
  <1> QED
    BY <1>2, <1>3, <1>4

LEMMA FlightSteps ==
    ASSUME NEW c, NEW d, c.route = "POST/transfer", d.route = c.route, d.body = c.body, c.body.amount \in Int,
           NEW id
    PROVE  /\ c.at = "deduct" /\ d.at = "add" =>
                InFlight(d, id) = InFlight(c, id) + (IF id = c.body.from THEN -c.body.amount ELSE 0)
           /\ c.at = "add" /\ d.at = "record" =>
                InFlight(d, id) = InFlight(c, id) + (IF id = c.body.to THEN c.body.amount ELSE 0)
           /\ -c.body.amount \in Int
  <1> DEFINE n == c.body.amount
             p == IF id = c.body.from THEN -n ELSE 0
             q == IF id = c.body.to THEN n ELSE 0
  <1>1. /\ c.at = "deduct" => InFlight(c, id) = 0
        /\ c.at = "add" => InFlight(c, id) = p
        /\ d.at = "add" => InFlight(d, id) = p
        /\ d.at = "record" => InFlight(d, id) = p + q
    BY TransferInFlight
  <1>2. n \in Int
    OBVIOUS
  <1>3. p \in Int /\ q \in Int /\ -n \in Int
    <2> HIDE DEF n
    <2> QED
      BY <1>2
  <1>4. p = 0 + p
    <2> HIDE DEF p
    <2> QED
      BY <1>3
  <1> QED
    <2> HIDE DEF p, q, n
    <2>1. /\ c.at = "deduct" /\ d.at = "add" => InFlight(d, id) = InFlight(c, id) + p
          /\ c.at = "add" /\ d.at = "record" => InFlight(d, id) = InFlight(c, id) + q
      BY <1>1, <1>4, Zenon
    <2> QED
      BY <1>3, <2>1 DEF p, q, n

\* Everything a handler needs to know of what is in flight.
LEMMA HandlerFlights ==
    ASSUME MoneyBase, NEW i \in DOMAIN calls, Handle(i), UNCHANGED <<scene, tab>>, NEW x
    PROVE  /\ InFlight(calls[i], x) \in Int /\ InFlight(calls'[i], x) \in Int /\ Fly(calls, x) \in Int
           /\ Fly(calls', x) = Fly(calls, x) - InFlight(calls[i], x) + InFlight(calls'[i], x)
  <1>1. MoneyBase' /\ CallsOK /\ CallsOK'
    BY HandlerMoney DEF MoneyBase, RegInv, OwnInv
  <1>2. Reaches(i, calls'[i].at)
    BY <1>1, HandlerMoves DEF Moves, Advances
  <1>3. DOMAIN calls' = DOMAIN calls /\ \A j \in DOMAIN calls : j # i => calls'[j] = calls[j]
    BY <1>1, <1>2 DEF Reaches, CallsOK
  <1>4. \A j \in DOMAIN calls : CallMoney(db, calls[j]) /\ CallMoney(db', calls'[j])
    BY <1>1, <1>3 DEF MoneyBase
  <1>5. InFlight(calls[i], x) \in Int /\ InFlight(calls'[i], x) \in Int
    BY <1>4, FlightIsInt
  <1> QED
    BY <1>1, <1>3, <1>4, <1>5, FlyOfOne

\* What a transfer does as long as nothing fails.
LEMMA TransferExplained ==
    ASSUME LedgerInv, NEW i \in DOMAIN calls, Handle(i), PostTransfer(i), UNCHANGED <<scene, tab>>,
           faults' = scene.faults
    PROVE  Balanced(db', calls')
  <1> DEFINE c == calls[i]
             d == calls'[i]
             n == c.body.amount
             from == c.body.from
             to == c.body.to
  <1>1. MoneyBase /\ RegInv /\ OwnInv /\ CallsOK /\ AccountsOK(db) /\ CallMoney(db, c)
    BY DEF LedgerInv, MoneyBase, RegInv, OwnInv
  <1>2. TransferMoves(i) /\ c.route = "POST/transfer" /\ n \in Int
    <2>1. c.route = "POST/transfer"
      BY DEF PostTransfer, UndoTransfer, At, Authorized
    <2>2. n \in Int
      BY <1>1, <2>1 DEF CallMoney
    <2> QED
      BY <1>1, <2>1, <2>2, TransferMoney
  <1>3. faults \in Int /\ faults <= scene.faults /\ scene.faults \in Nat
    BY <1>1, ScenesAssumption DEF RegInv, OwnInv
  <1>4. d.route = c.route /\ d.body = c.body /\ (faults' = faults \/ faults' = faults - 1)
    BY <1>1, HandlerMoves DEF Moves, Advances, Reaches, SameRequest
  <1>5. faults' = faults /\ faults = scene.faults /\ faults' # faults - 1
    BY <1>3, <1>4
  <1>6. Balanced(db, calls) /\ c.at \notin {"undo-deduct", "undo-add"}
    BY <1>1, <1>2, <1>5 DEF LedgerInv, MoneyBase, Undoing
  <1>7. \A x : /\ InFlight(c, x) \in Int /\ Fly(calls, x) \in Int
               /\ Fly(calls', x) = Fly(calls, x) - InFlight(c, x) + InFlight(d, x)
    BY <1>1, HandlerFlights
  <1>12. LedgerInv /\ scene' = scene
    OBVIOUS
  <1>8. CASE c.at \in {"sent", "receiver"}
    <2>1. Unmoved /\ d.at \notin {"add", "record"}
      BY <1>2, <1>8 DEF TransferMoves
    <2>2. ASSUME NEW x PROVE Fly(calls', x) = Fly(calls, x)
      <3>1. InFlight(c, x) = 0 /\ InFlight(d, x) = 0
        BY <1>8, <2>1, NotInFlight DEF Paying
      <3>2. Fly(calls, x) \in Int /\ Fly(calls', x) = Fly(calls, x) - InFlight(c, x) + InFlight(d, x)
        BY <1>7
      <3> HIDE DEF c, d
      <3> QED
        BY <3>1, <3>2
    <2> QED
      BY <1>6, <2>1, <2>2, StillExplained
  <1>9. CASE c.at = "deduct"
    <2>1. Shifted(db, db', from, -n) /\ d.at = "add"
      BY <1>2, <1>5, <1>9 DEF TransferMoves, Attempt
    <2>2. /\ \A x : InFlight(d, x) = InFlight(c, x) + (IF x = from THEN -n ELSE 0)
          /\ -n \in Int
      BY <1>2, <1>4, <1>9, <2>1, FlightSteps
    <2> QED
      BY <1>6, <1>7, <1>12, <2>1, <2>2, ShiftExplained
  <1>10. CASE c.at = "add"
    <2>1. Shifted(db, db', to, n) /\ d.at = "record"
      BY <1>2, <1>5, <1>10 DEF TransferMoves, Attempt
    <2>2. \A x : InFlight(d, x) = InFlight(c, x) + (IF x = to THEN n ELSE 0)
      BY <1>2, <1>4, <1>10, <2>1, FlightSteps
    <2> QED
      BY <1>2, <1>6, <1>7, <1>12, <2>1, <2>2, ShiftExplained
  <1>11. CASE c.at = "record"
    <2>1. Records(i) /\ d.at = "answered"
      BY <1>2, <1>5, <1>11 DEF TransferMoves, Attempt
    <2>2. ASSUME NEW x
          PROVE  /\ InFlight(c, x) = (IF x = from THEN -n ELSE 0) + (IF x = to THEN n ELSE 0)
                 /\ InFlight(d, x) = 0
      BY <1>2, <1>4, <1>11, <2>1, TransferInFlight
    <2>3. RecordOf(i) \notin db.transactions
      BY <1>1, <1>2, <1>11, <2>1, RecordsKeeps
    <2>4. RecordOf(i) \notin scene.db.transactions
      <3>1. i \in Nat /\ RecordOf(i).id = i
        BY <1>1, CallNumbers DEF RecordOf
      <3>2. Sound(scene.db)
        BY <1>1, ScenesAssumption DEF OwnInv
      <3> QED
        BY <3>1, <3>2 DEF Sound
    <2> QED
      BY <1>2, <1>6, <1>7, <2>1, <2>2, <2>3, <2>4, RecordExplained
  <1> QED
    BY <1>2, <1>6, <1>8, <1>9, <1>10, <1>11 DEF TransferMoves

LEMMA HandlerLedger ==
    ASSUME LedgerInv, NEW i \in DOMAIN calls, Handle(i), UNCHANGED <<scene, tab>>, faults' = scene.faults
    PROVE  Balanced(db', calls')
  <1>1. MoneyBase /\ RegInv /\ OwnInv /\ CallsOK /\ TablesOK(db)
    BY DEF LedgerInv, MoneyBase, RegInv, OwnInv
  <1>2. Reaches(i, calls'[i].at) /\ Pending(i) /\ (faults' = faults \/ faults' = faults - 1)
    BY <1>1, HandlerMoves DEF Moves, Advances
  <1>3. Balanced(db, calls)
    <2>1. faults \in Int /\ faults <= scene.faults
      BY <1>1 DEF RegInv
    <2>2. faults = scene.faults
      BY <1>2, <2>1
    <2> QED
      BY <2>2 DEF LedgerInv
  <1>4. CASE PostTransfer(i)
    BY <1>4, TransferExplained
  <1>5. CASE ~PostTransfer(i)
    <2>1. calls[i].route # "POST/transfer" \/ (calls[i].at = "sent" /\ calls'[i].at = "answered")
      BY <1>1, <1>5, OnlyTransfers
    <2>2. ~Paying(calls[i]) /\ ~Paying(calls'[i])
      BY <1>2, <2>1 DEF Paying, Reaches, SameRequest
    <2>3. ASSUME NEW x PROVE Fly(calls', x) = Fly(calls, x)
      <3>1. InFlight(calls[i], x) = 0 /\ InFlight(calls'[i], x) = 0
        BY <2>2, NotInFlight
      <3>2. Fly(calls, x) \in Int /\ Fly(calls', x) = Fly(calls, x) - InFlight(calls[i], x) + InFlight(calls'[i], x)
        BY <1>1, HandlerFlights
      <3> QED
        BY <3>1, <3>2
    <2>4. CASE Unmoved
      BY <1>3, <2>3, <2>4, StillExplained
    <2>5. CASE Opens(i)
      <3>1. i \notin Ids(db)
        BY <1>1, <1>2, <2>5, RegistrationMoney
      <3> QED
        BY <1>1, <1>3, <2>3, <2>5, <3>1, OpensExplained
    <2> QED
      BY <1>1, <1>5, <2>4, <2>5, OthersUnmoved
  <1> QED
    BY <1>4, <1>5

LEMMA NextLedger == LedgerInv /\ [Next]_vars => LedgerInv'
  <1> SUFFICES ASSUME LedgerInv, [Next]_vars PROVE LedgerInv'
    OBVIOUS
  <1>1. MoneyBase' /\ MoneyBase
    BY NextMoney DEF LedgerInv
  <1>2. ASSUME scene' = scene, faults' = scene.faults => Balanced(db', calls') PROVE LedgerInv'
    <2>1. faults' = scene'.faults => Balanced(db, calls)'
      BY <1>2 DEF Balanced, Explained, NewTo, NewFrom, Began
    <2> QED
      BY <1>1, <2>1 DEF LedgerInv
  <1>3. ASSUME NEW i \in DOMAIN calls, Handle(i), UNCHANGED <<scene, tab>> PROVE LedgerInv'
    BY <1>2, <1>3, HandlerLedger
  <1>4. CASE Callback \/ User \/ OtherClient
    <2>1. PageStep
      BY <1>1, <1>4, CallbackSends, UserSends DEF MoneyBase, RegInv, OwnInv
    <2>2. Unmoved /\ scene' = scene /\ faults' = faults
      BY <2>1 DEF PageStep, Unmoved
    <2>3. \A x : Fly(calls', x) = Fly(calls, x)
      BY <1>1, <2>1, FlyOfPage
    <2>4. Balanced(db, calls) => Balanced(db', calls')
      BY <2>2, <2>3, StillExplained
    <2> QED
      BY <1>2, <2>2, <2>4 DEF LedgerInv
  <1>5. ASSUME NEW i \in DOMAIN calls, ConnectionFails(i) PROVE LedgerInv'
    <2>1. faults' # scene'.faults
      BY <1>1, <1>5, LostConnectionMoney
    <2> QED
      BY <1>1, <2>1 DEF LedgerInv
  <1>6. CASE UNCHANGED vars
    <2>1. db' = db /\ calls' = calls /\ faults' = faults /\ scene' = scene
      BY <1>6 DEF vars, apiVars
    <2> QED
      BY <1>2, <2>1 DEF LedgerInv
  <1> QED
    BY <1>3, <1>4, <1>5, <1>6 DEF Next, Serve

\* The sums of the property are the sums of the proof.
LEMMA SameSums ==
    ASSUME MoneyBase, NEW id
    PROVE  /\ Opening(id) = Began(id)
           /\ Received(id) = AmountOf(NewTo(db, id))
           /\ Paid(id) = AmountOf(NewFrom(db, id))
           /\ MapThenSumSet(LAMBDA i : InFlight(calls[i], id), DOMAIN calls) = Fly(calls, id)
  <1>1. CallsOK /\ Sound(scene.db) /\ TransactionsOK(db)
    BY ScenesAssumption DEF MoneyBase, RegInv, OwnInv
  <1>2. IsFiniteSet({a \in scene.db.accounts : a.id = id})
    BY <1>1, FS_Subset DEF Sound
  <1>3. IsFiniteSet(NewTo(db, id)) /\ IsFiniteSet(NewFrom(db, id))
    BY <1>1, NewAmounts
  <1>4. Opening(id) = Began(id)
    BY <1>2, SumOfColumn DEF Opening, Began, MoneyOf
  <1>5. Received(id) = AmountOf(NewTo(db, id)) /\ Paid(id) = AmountOf(NewFrom(db, id))
    BY <1>3, SumOfColumn DEF Received, Paid, NewTo, NewFrom, AmountOf
  <1>6. MapThenSumSet(LAMBDA i : InFlight(calls[i], id), DOMAIN calls) = Fly(calls, id)
    BY <1>1, SumOfFlights DEF Fly
  <1> QED
    BY <1>4, <1>5, <1>6

\* transfer/route.ts: while no statement has failed, the recorded transfers and the steps
\* transfers under way have taken account for every balance, for any number of transfers,
\* accounts and registrations interleaved: a balance is updated by an amount and never
\* set from a value read in an earlier step.
THEOREM HistoryExplainsBalances == Spec => []LedgerBalanced
  <1>1. LedgerInv => LedgerBalanced
    <2> SUFFICES ASSUME LedgerInv, faults = scene.faults, NEW a \in db.accounts
                 PROVE  a.balance = Opening(a.id) + Received(a.id) - Paid(a.id)
                          + MapThenSumSet(LAMBDA i : InFlight(calls[i], a.id), DOMAIN calls)
      BY DEF LedgerBalanced
    <2>1. a.balance = Explained(db, calls, a.id)
      BY DEF LedgerInv, Balanced
    <2>2. /\ Opening(a.id) = Began(a.id)
          /\ Received(a.id) = AmountOf(NewTo(db, a.id))
          /\ Paid(a.id) = AmountOf(NewFrom(db, a.id))
          /\ MapThenSumSet(LAMBDA i : InFlight(calls[i], a.id), DOMAIN calls) = Fly(calls, a.id)
      BY SameSums DEF LedgerInv
    <2> QED
      BY <2>1, <2>2, Zenon DEF Explained
  <1> QED
    BY <1>1, InitLedger, NextLedger, PTL DEF Spec

-----------------------------------------------------------------------------
(* The total.                                                                *)

\* What transfer c has taken out of the total so far, or put in too much.
Mid(c) ==
  IF c.route = "POST/transfer" /\ c.at = "add" THEN -c.body.amount
  ELSE IF c.route = "POST/transfer" /\ c.at = "undo-add" THEN c.body.amount
  ELSE 0
Middles(cs) == [i \in DOMAIN cs |-> Mid(cs[i])]
Mids(cs) == SumOf(Middles(cs), DOMAIN cs)

\* What is missing from the total or there too much, for no transfer under way.
Gap(d, cs) == MoneyOf(d.accounts) - MoneyOf(scene.db.accounts) - Mids(cs)

LEMMA MidIsInt ==
    ASSUME NEW d, NEW c, CallMoney(d, c)
    PROVE  Mid(c) \in Int
  <1>1. CASE c.route = "POST/transfer"
    <2> DEFINE n == c.body.amount
    <2>1. n \in Int
      BY <1>1 DEF CallMoney
    <2>2. Mid(c) = -n \/ Mid(c) = n \/ Mid(c) = 0
      BY <1>1 DEF Mid
    <2> HIDE DEF n
    <2> QED
      BY <2>1, <2>2
  <1>2. CASE c.route # "POST/transfer"
    <2>1. Mid(c) = 0
      BY <1>2 DEF Mid
    <2> QED
      BY <2>1
  <1> QED
    BY <1>1, <1>2

\* The sum changes by what one request adds or takes away.
LEMMA MidsOfOne ==
    ASSUME CallsOK, NEW i \in DOMAIN calls, DOMAIN calls' = DOMAIN calls,
           \A j \in DOMAIN calls : j # i => calls'[j] = calls[j],
           NEW d, NEW e, \A j \in DOMAIN calls : CallMoney(d, calls[j]) /\ CallMoney(e, calls'[j])
    PROVE  /\ Mids(calls) \in Int
           /\ Mids(calls') = Mids(calls) - Mid(calls[i]) + Mid(calls'[i])
  <1> DEFINE D == DOMAIN calls
             f == Middles(calls)
             g == Middles(calls')
  <1>1. IsFiniteSet(D)
    BY SumOfFlights
  <1>2. \A j \in D : f[j] = Mid(calls[j]) /\ g[j] = Mid(calls'[j])
    BY DEF Middles
  <1>3. \A j \in D : f[j] \in Int /\ g[j] \in Int
    BY <1>2, MidIsInt
  <1>4. \A j \in D \ {i} : f[j] = g[j]
    BY <1>2
  <1>5. SumOf(f, D) \in Int /\ SumOf(g, D) = SumOf(f, D) - f[i] + g[i]
    <2> HIDE DEF f, g, D
    <2>1. i \in D
      BY DEF D
    <2> QED
      BY <1>1, <1>3, <1>4, <2>1, SumChange
  <1> QED
    BY <1>2, <1>5 DEF Mids

\* A page changes nothing of it.
LEMMA MidsOfPage ==
    ASSUME MoneyBase, PageStep
    PROVE  Mids(calls') = Mids(calls)
  <1> DEFINE D == DOMAIN calls
             R == DOMAIN calls' \ D
             f == Middles(calls)
             g == Middles(calls')
  <1>1. CallsOK /\ CallsOK'
    BY DEF PageStep, Sends, MoneyBase, RegInv, OwnInv
  <1>2. /\ DOMAIN calls \subseteq DOMAIN calls'
        /\ \A j \in DOMAIN calls : Leaves(calls[j], calls'[j])
        /\ \A j \in R : Fresh(calls'[j])
    BY <1>1 DEF PageStep, Sends, CallsOK
  <1>3. IsFiniteSet(D) /\ IsFiniteSet(R)
    <2>1. IsFiniteSet(D)
      BY <1>1, SumOfFlights
    <2>2. DOMAIN calls' = 1..Len(calls') /\ Len(calls') \in Nat
      BY <1>1 DEF CallsOK
    <2>3. IsFiniteSet(DOMAIN calls')
      BY <2>2, FS_Interval
    <2> QED
      BY <2>1, <2>3, FS_Subset
  <1>4. ASSUME NEW j \in D PROVE f[j] = g[j] /\ f[j] \in Int
    <2>1. f[j] = Mid(calls[j]) /\ g[j] = Mid(calls'[j])
      BY <1>2 DEF Middles
    <2>2. Leaves(calls[j], calls'[j]) /\ CallMoney(db, calls[j])
      BY <1>2 DEF MoneyBase
    <2>3. Mid(calls'[j]) = Mid(calls[j])
      BY <2>2 DEF Leaves, Mid
    <2> QED
      BY <2>1, <2>2, <2>3, MidIsInt
  <1>5. ASSUME NEW j \in R PROVE g[j] = 0
    <2>1. g[j] = Mid(calls'[j]) /\ Fresh(calls'[j])
      BY <1>2 DEF Middles
    <2> QED
      BY <2>1 DEF Fresh, Mid
  <1>6. SumOf(g, D \cup R) = SumOf(f, D)
    <2>1. D \cap R = {}
      OBVIOUS
    <2> HIDE DEF f, g, D, R
    <2> QED
      BY <1>3, <1>4, <1>5, <2>1, SumZeros
  <1>7. D \cup R = DOMAIN calls'
    BY <1>2
  <1> QED
    BY <1>6, <1>7 DEF Mids

\* It is zero when no transfer is in the middle of something.
LEMMA NothingMissing ==
    ASSUME CallsOK, \A j \in DOMAIN calls : Mid(calls[j]) = 0
    PROVE  Mids(calls) = 0
  <1> DEFINE D == DOMAIN calls
             g == Middles(calls)
             f == [x \in {} |-> 0]
  <1>1. IsFiniteSet(D) /\ IsFiniteSet({})
    BY SumOfFlights, FS_EmptySet
  <1>2. \A j \in D : g[j] = 0
    BY DEF Middles
  <1>3. SumOf(g, {} \cup D) = SumOf(f, {})
    <2> HIDE DEF g, D
    <2>1. {} \cap D = {} /\ \A x \in {} : f[x] = g[x] /\ f[x] \in Int
      OBVIOUS
    <2> HIDE DEF f
    <2> QED
      BY <1>1, <1>2, <2>1, SumZeros
  <1>4. SumOf(f, {}) = 0
    <2> HIDE DEF f
    <2> QED
      BY SumEmpty
  <1>5. {} \cup D = D
    OBVIOUS
  <1> QED
    BY <1>3, <1>4, <1>5 DEF Mids

LEMMA OpeningMoney ==
    ASSUME OwnInv
    PROVE  MoneyOf(scene.db.accounts) \in Int
  <1>1. Sound(scene.db)
    BY ScenesAssumption DEF OwnInv
  <1>2. AccountsOK(scene.db)
    BY <1>1 DEF Sound, AccountsOK
  <1> QED
    BY <1>2, MoneyIsInt

\* Transfer k has lost its amount: it failed and is not in the history.
Lost(d, cs, k) ==
  /\ k \in DOMAIN cs /\ cs[k].route = "POST/transfer"
  /\ \/ cs[k].at \in {"undo-deduct", "undo-add"}
     \/ cs[k].at \in {"answered", "done"} /\ cs[k].answer.status # 200
  /\ \A t \in d.transactions : t.id # k

OneFailureInv ==
  /\ MoneyBase
  /\ faults = scene.faults => Gap(db, calls) = 0
  /\ faults = scene.faults - 1 =>
       \/ Gap(db, calls) = 0
       \/ \E k : Lost(db, calls, k) /\ Gap(db, calls) = -calls[k].body.amount

LEMMA HandlerMids ==
    ASSUME MoneyBase, NEW i \in DOMAIN calls, Handle(i), UNCHANGED <<scene, tab>>
    PROVE  /\ Mid(calls[i]) \in Int /\ Mid(calls'[i]) \in Int /\ Mids(calls) \in Int
           /\ Mids(calls') = Mids(calls) - Mid(calls[i]) + Mid(calls'[i])
           /\ MoneyOf(db.accounts) \in Int /\ MoneyOf(scene.db.accounts) \in Int
  <1>1. MoneyBase' /\ CallsOK /\ CallsOK'
    BY HandlerMoney DEF MoneyBase, RegInv, OwnInv
  <1>2. Reaches(i, calls'[i].at)
    BY <1>1, HandlerMoves DEF Moves, Advances
  <1>3. DOMAIN calls' = DOMAIN calls /\ \A j \in DOMAIN calls : j # i => calls'[j] = calls[j]
    BY <1>1, <1>2 DEF Reaches, CallsOK
  <1>4. \A j \in DOMAIN calls : CallMoney(db, calls[j]) /\ CallMoney(db', calls'[j])
    BY <1>1, <1>3 DEF MoneyBase
  <1>5. Mid(calls[i]) \in Int /\ Mid(calls'[i]) \in Int
    BY <1>4, MidIsInt
  <1>6. Mids(calls) \in Int /\ Mids(calls') = Mids(calls) - Mid(calls[i]) + Mid(calls'[i])
    BY <1>1, <1>3, <1>4, MidsOfOne
  <1>7. MoneyOf(db.accounts) \in Int /\ MoneyOf(scene.db.accounts) \in Int
    BY MoneyIsInt, OpeningMoney DEF MoneyBase, RegInv
  <1> QED
    BY <1>5, <1>6, <1>7

\* What a handler's step does to the gap, from what it does to the money.
LEMMA HandlerGap ==
    ASSUME MoneyBase, NEW i \in DOMAIN calls, Handle(i), UNCHANGED <<scene, tab>>, NEW n \in Int,
           MoneyOf(db'.accounts) = MoneyOf(db.accounts) + n
    PROVE  /\ Gap(db, calls) \in Int
           /\ Gap(db', calls') = Gap(db, calls) + n + Mid(calls[i]) - Mid(calls'[i])
  <1>1. /\ Mid(calls[i]) \in Int /\ Mid(calls'[i]) \in Int /\ Mids(calls) \in Int
        /\ Mids(calls') = Mids(calls) - Mid(calls[i]) + Mid(calls'[i])
        /\ MoneyOf(db.accounts) \in Int /\ MoneyOf(scene.db.accounts) \in Int
    BY HandlerMids
  <1> QED
    BY <1>1 DEF Gap

\* Without a failure the gap stays; with one that leads into the undoing it may become
\* wider by the amount of the transfer.
LEMMA TransferGap ==
    ASSUME MoneyBase, NEW i \in DOMAIN calls, Handle(i), PostTransfer(i), UNCHANGED <<scene, tab>>
    PROVE  /\ faults' = faults => Gap(db', calls') = Gap(db, calls)
           /\ faults' = faults - 1 /\ ~Undoing(calls[i]) =>
                \/ Gap(db', calls') = Gap(db, calls)
                \/ /\ Gap(db', calls') = Gap(db, calls) - calls[i].body.amount
                   /\ calls[i].at \in {"deduct", "add"} /\ calls'[i].at = "undo-deduct"
  <1> DEFINE c == calls[i]
             d == calls'[i]
             n == c.body.amount
             from == c.body.from
             to == c.body.to
             g == Gap(db, calls)
             h == Gap(db', calls')
             M == MoneyOf(db.accounts)
             N == MoneyOf(db'.accounts)
  <1>1. MoneyBase /\ RegInv /\ OwnInv /\ CallsOK /\ AccountsOK(db) /\ CallMoney(db, c)
    BY DEF MoneyBase, RegInv, OwnInv
  <1>2. TransferMoves(i) /\ c.route = "POST/transfer" /\ n \in Int
    <2>1. c.route = "POST/transfer"
      BY DEF PostTransfer, UndoTransfer, At, Authorized
    <2>2. n \in Int
      BY <1>1, <2>1 DEF CallMoney
    <2> QED
      BY <1>1, <2>1, <2>2, TransferMoney
  <1>3. d.route = c.route /\ d.body = c.body /\ faults \in Int
    BY <1>1, HandlerMoves DEF Moves, Advances, Reaches, SameRequest, RegInv
  <1>4. /\ Unmoved \/ Records(i) => N = M
        /\ from \in Ids(db) /\ Shifted(db, db', from, -n) => N = M + (-n)
        /\ from \in Ids(db) /\ Shifted(db, db', from, n) => N = M + n
        /\ to \in Ids(db) /\ Shifted(db, db', to, -n) => N = M + (-n)
        /\ to \in Ids(db) /\ Shifted(db, db', to, n) => N = M + n
    BY DEF Unmoved, Records, Shifted
  <1>5. c.at \in {"deduct", "add", "record", "undo-deduct", "undo-add"} => from \in Ids(db) /\ to \in Ids(db)
    BY <1>1, <1>2 DEF CallMoney
  <1>6. /\ Mid(c) = IF c.at = "add" THEN -n ELSE IF c.at = "undo-add" THEN n ELSE 0
        /\ Mid(d) = IF d.at = "add" THEN -n ELSE IF d.at = "undo-add" THEN n ELSE 0
    BY <1>2, <1>3 DEF Mid
  <1>7. g \in Int /\ Mid(c) \in Int /\ Mid(d) \in Int /\ M \in Int
    <2>1. /\ Mid(c) \in Int /\ Mid(d) \in Int /\ Mids(calls) \in Int
          /\ M \in Int /\ MoneyOf(scene.db.accounts) \in Int
      BY <1>1, HandlerMids
    <2> QED
      BY <2>1 DEF Gap
  <1>8. \A k \in Int : N = M + k => h = g + k + Mid(c) - Mid(d)
    BY <1>1, HandlerGap
  <1>9. N = M => h = g + Mid(c) - Mid(d)
    <2>1. M + 0 = M /\ g + 0 = g
      BY <1>7
    <2> HIDE DEF g, h, M, N, c, d
    <2> QED
      BY <1>7, <1>8, <2>1
  <1>10. -n \in Int
    BY <1>2
  <1>11. faults' = faults => faults' # faults - 1
    BY <1>3
  <1>12. CASE c.at \in {"sent", "receiver"}
    <2>1. N = M /\ d.at \in {"answered", "receiver", "deduct"}
      BY <1>2, <1>4, <1>12 DEF TransferMoves
    <2>2. Mid(c) = 0 /\ Mid(d) = 0
      BY <1>6, <1>12, <2>1
    <2> HIDE DEF g, h, M, N, c, d
    <2>3. h = g
      BY <1>7, <1>9, <2>1, <2>2
    <2> QED
      BY <2>3 DEF g, h
  <1>13. CASE c.at = "deduct"
    <2>1. \/ N = M + (-n) /\ d.at = "add" /\ faults' = faults
          \/ (N = M + (-n) \/ N = M) /\ d.at = "undo-deduct" /\ faults' = faults - 1
      BY <1>2, <1>4, <1>5, <1>13 DEF TransferMoves, Attempt
    <2>2. Mid(c) = 0 /\ (d.at = "add" => Mid(d) = -n) /\ (d.at = "undo-deduct" => Mid(d) = 0)
      BY <1>6, <1>13
    <2>3. c.at \in {"deduct", "add"}
      BY <1>13
    <2> HIDE DEF g, h, M, N, c, d, n
    <2>4. N = M + (-n) /\ Mid(d) = 0 => h = g - n
      BY <1>2, <1>7, <1>8, <1>10, <2>2
    <2>5. N = M + (-n) /\ Mid(d) = -n => h = g
      BY <1>2, <1>7, <1>8, <1>10, <2>2
    <2>6. N = M /\ Mid(d) = 0 => h = g
      BY <1>7, <1>9, <2>2
    <2>7. \/ h = g /\ faults' = faults
          \/ (h = g \/ h = g - n) /\ d.at = "undo-deduct" /\ faults' = faults - 1
      BY <2>1, <2>2, <2>4, <2>5, <2>6
    <2> QED
      BY <1>11, <2>3, <2>7 DEF g, h, c, d, n
  <1>14. CASE c.at = "add"
    <2>1. \/ N = M + n /\ d.at = "record" /\ faults' = faults
          \/ (N = M + n \/ N = M) /\ d.at = "undo-deduct" /\ faults' = faults - 1
      BY <1>2, <1>4, <1>5, <1>14 DEF TransferMoves, Attempt
    <2>2. Mid(c) = -n /\ (d.at \in {"record", "undo-deduct"} => Mid(d) = 0)
      BY <1>6, <1>14
    <2>3. c.at \in {"deduct", "add"}
      BY <1>14
    <2> HIDE DEF g, h, M, N, c, d, n
    <2>4. N = M + n /\ Mid(d) = 0 => h = g
      BY <1>2, <1>7, <1>8, <2>2
    <2>5. N = M /\ Mid(d) = 0 => h = g - n
      BY <1>2, <1>7, <1>9, <2>2
    <2>6. \/ h = g /\ faults' = faults
          \/ (h = g \/ h = g - n) /\ d.at = "undo-deduct" /\ faults' = faults - 1
      BY <2>1, <2>2, <2>4, <2>5
    <2> QED
      BY <1>11, <2>3, <2>6 DEF g, h, c, d, n
  <1>15. CASE c.at = "record"
    <2>1. N = M /\ d.at \in {"answered", "undo-deduct"}
      BY <1>2, <1>4, <1>15 DEF TransferMoves, Attempt
    <2>2. Mid(c) = 0 /\ Mid(d) = 0
      BY <1>6, <1>15, <2>1
    <2> HIDE DEF g, h, M, N, c, d
    <2>3. h = g
      BY <1>7, <1>9, <2>1, <2>2
    <2> QED
      BY <2>3 DEF g, h
  <1>16. CASE c.at = "undo-deduct"
    <2>1. /\ (N = M + n /\ d.at = "undo-add") \/ faults' = faults - 1
          /\ Undoing(c)
      BY <1>2, <1>4, <1>5, <1>16 DEF TransferMoves, Attempt, Undoing
    <2>2. Mid(c) = 0 /\ (d.at = "undo-add" => Mid(d) = n)
      BY <1>6, <1>16
    <2> HIDE DEF g, h, M, N, c, d, n
    <2>3. h = g \/ faults' = faults - 1
      BY <1>2, <1>7, <1>8, <2>1, <2>2
    <2> QED
      BY <1>11, <2>1, <2>3 DEF g, h, c
  <1>17. CASE c.at = "undo-add"
    <2>1. /\ (N = M + (-n) /\ d.at = "answered") \/ faults' = faults - 1
          /\ Undoing(c)
      BY <1>2, <1>4, <1>5, <1>17 DEF TransferMoves, Attempt, Undoing
    <2>2. Mid(c) = n /\ (d.at = "answered" => Mid(d) = 0)
      BY <1>6, <1>17
    <2> HIDE DEF g, h, M, N, c, d, n
    <2>3. h = g \/ faults' = faults - 1
      BY <1>2, <1>7, <1>8, <1>10, <2>1, <2>2
    <2> QED
      BY <1>11, <2>1, <2>3 DEF g, h, c
  <1> QED
    BY <1>2, <1>12, <1>13, <1>14, <1>15, <1>16, <1>17 DEF TransferMoves

LEMMA InitOneFailure == Init => OneFailureInv
  <1> SUFFICES ASSUME Init PROVE OneFailureInv
    OBVIOUS
  <1>1. MoneyBase /\ CallsOK /\ OwnInv /\ db = scene.db /\ DOMAIN calls = {} /\ faults = scene.faults /\ faults \in Int
    BY InitMoney DEF MoneyBase, RegInv, OwnInv, Init
  <1>2. Mids(calls) = 0 /\ MoneyOf(scene.db.accounts) \in Int
    BY <1>1, NothingMissing, OpeningMoney
  <1>3. Gap(db, calls) = 0
    BY <1>1, <1>2 DEF Gap
  <1>4. faults # scene.faults - 1
    BY <1>1
  <1> QED
    BY <1>1, <1>3, <1>4 DEF OneFailureInv

\* A transfer that has lost its amount never gets into the history.
LEMMA LostStaysLost ==
    ASSUME MoneyBase, NEW i \in DOMAIN calls, Handle(i), UNCHANGED <<scene, tab>>, NEW k, Lost(db, calls, k)
    PROVE  Lost(db', calls', k) /\ calls'[k].body = calls[k].body
  <1>1. CallsOK /\ CallsOK' /\ OwnInv /\ AccountsOK(db) /\ TablesOK(db) /\ MoneyBase'
    BY HandlerMoney DEF MoneyBase, RegInv, OwnInv
  <1>2. Reaches(i, calls'[i].at) /\ Pending(i)
    BY <1>1, HandlerMoves DEF Moves, Advances
  <1>3. /\ DOMAIN calls' = DOMAIN calls /\ calls'[k].body = calls[k].body /\ calls'[k].route = calls[k].route
        /\ k # i => calls'[k] = calls[k]
    BY <1>1, <1>2 DEF Reaches, SameRequest, CallsOK, Lost
  <1>4. ASSUME PostTransfer(i)
        PROVE  /\ TransferMoves(i)
               /\ calls[i].at # "record" /\ calls'[i].at = "answered" => calls'[i].answer.status # 200
    <2>1. calls[i].route = "POST/transfer"
      BY <1>4 DEF PostTransfer, UndoTransfer, At, Authorized
    <2>2. calls[i].body.amount \in Int
      BY <2>1 DEF MoneyBase, CallMoney
    <2> QED
      BY <1>1, <1>4, <2>1, <2>2, TransferMoney
  <1>5. \A t \in db'.transactions : t.id # k
    <2>1. CASE PostTransfer(i)
      <3>1. Unmoved \/ (\E id, n : Shifted(db, db', id, n)) \/ (Records(i) /\ calls[i].at = "record")
        BY <1>4, <2>1, TransferGoesOn
      <3>2. calls[i].at = "record" => i # k
        BY DEF Lost
      <3>3. RecordOf(i).id = i
        BY DEF RecordOf
      <3> QED
        BY <3>1, <3>2, <3>3 DEF Lost, Unmoved, Shifted, Records
    <2>2. CASE ~PostTransfer(i)
      BY <1>1, <2>2, OthersUnmoved DEF Unmoved, Opens, Lost
    <2> QED
      BY <2>1, <2>2
  <1>6. CASE i # k
    BY <1>3, <1>5, <1>6 DEF Lost
  <1>7. CASE i = k
    <2>1. calls[i].at \in {"undo-deduct", "undo-add"}
      BY <1>2, <1>7 DEF Lost, Pending
    <2>2. PostTransfer(i)
      BY <1>1, <2>1, OnlyTransfers
    <2>3. calls'[i].at \in {"undo-add", "answered"}
      BY <1>4, <2>1, <2>2 DEF TransferMoves, Attempt
    <2>4. calls'[i].at = "answered" => calls'[i].answer.status # 200
      BY <1>4, <2>1, <2>2
    <2> QED
      BY <1>3, <1>5, <1>7, <2>3, <2>4 DEF Lost
  <1> QED
    BY <1>6, <1>7

LEMMA HandlerOneFailure ==
    ASSUME OneFailureInv, NEW i \in DOMAIN calls, Handle(i), UNCHANGED <<scene, tab>>
    PROVE  OneFailureInv'
  <1> DEFINE g == Gap(db, calls)
             h == Gap(db', calls')
  <1>1. MoneyBase /\ MoneyBase' /\ RegInv /\ OwnInv /\ CallsOK /\ CallsOK' /\ TablesOK(db)
    BY HandlerMoney DEF OneFailureInv, MoneyBase, RegInv, OwnInv
  <1>2. /\ Reaches(i, calls'[i].at) /\ Pending(i) /\ (faults' = faults \/ faults' = faults - 1)
        /\ calls'[i].route = calls[i].route
    BY <1>1, HandlerMoves DEF Moves, Advances, Reaches, SameRequest
  <1>3. faults \in Int /\ faults <= scene.faults /\ scene.faults \in Int
    BY <1>1, ScenesAssumption DEF RegInv, OwnInv
  <1>4. DOMAIN calls' = DOMAIN calls /\ calls'[i].body = calls[i].body
    BY <1>1, <1>2 DEF Reaches, SameRequest, CallsOK
  <1>5. g \in Int
    <2>1. Mids(calls) \in Int /\ MoneyOf(db.accounts) \in Int /\ MoneyOf(scene.db.accounts) \in Int
      BY <1>1, HandlerMids
    <2> QED
      BY <2>1 DEF Gap
  <1>6. /\ faults' = faults => h = g
        /\ faults' = faults - 1 /\ ~Undoing(calls[i]) =>
             \/ h = g
             \/ h = g - calls[i].body.amount /\ calls[i].at \in {"deduct", "add"} /\ calls'[i].at = "undo-deduct"
                /\ PostTransfer(i)
    <2>1. CASE PostTransfer(i)
      BY <1>1, <2>1, TransferGap
    <2>2. CASE ~PostTransfer(i)
      <3>1. calls[i].route # "POST/transfer" \/ (calls[i].at = "sent" /\ calls'[i].at = "answered")
        BY <1>1, <2>2, OnlyTransfers
      <3>2. Mid(calls[i]) = 0 /\ Mid(calls'[i]) = 0
        BY <1>2, <3>1 DEF Mid
      <3>3. MoneyOf(db'.accounts) = MoneyOf(db.accounts)
        <4>1. CASE Opens(i)
          BY <1>1, <1>2, <4>1, RegistrationMoney
        <4> QED
          BY <1>1, <2>2, <4>1, OthersUnmoved DEF Unmoved
      <3>4. MoneyOf(db.accounts) \in Int
        BY <1>1, HandlerMids
      <3>5. MoneyOf(db'.accounts) = MoneyOf(db.accounts) + 0
        BY <3>3, <3>4
      <3>6. h = g + 0 + Mid(calls[i]) - Mid(calls'[i])
        BY <1>1, <3>5, HandlerGap
      <3>7. h = g
        <4> HIDE DEF g, h
        <4> QED
          BY <1>5, <3>2, <3>6
      <3> QED
        BY <3>7
    <2> QED
      BY <2>1, <2>2
  <1>7. \A k : Lost(db, calls, k) => Lost(db', calls', k) /\ calls'[k].body = calls[k].body
    BY <1>1, LostStaysLost
  <1>8. ASSUME faults' = scene.faults PROVE h = 0
    <2>1. faults' = faults /\ faults = scene.faults
      BY <1>2, <1>3, <1>8
    <2> QED
      BY <1>6, <2>1 DEF OneFailureInv
  <1>9. ASSUME faults' = scene.faults - 1
        PROVE  h = 0 \/ \E k : Lost(db', calls', k) /\ h = -calls'[k].body.amount
    <2>1. CASE faults' = faults
      <3>1. faults = scene.faults - 1 /\ h = g
        BY <1>6, <1>9, <2>1
      <3>2. CASE g = 0
        BY <3>1, <3>2
      <3>3. ASSUME NEW k, Lost(db, calls, k), g = -calls[k].body.amount
            PROVE  Lost(db', calls', k) /\ h = -calls'[k].body.amount
        BY <1>7, <3>1, <3>3
      <3> QED
        BY <3>1, <3>2, <3>3 DEF OneFailureInv
    <2>2. CASE faults' = faults - 1
      <3>1. faults = scene.faults
        BY <1>3, <1>9, <2>2
      <3>2. g = 0 /\ ~Undoing(calls[i])
        BY <1>1, <3>1 DEF OneFailureInv, MoneyBase
      <3>3. CASE h = g
        BY <3>2, <3>3
      <3>4. CASE /\ h = g - calls[i].body.amount /\ calls[i].at \in {"deduct", "add"} /\ calls'[i].at = "undo-deduct"
                 /\ PostTransfer(i)
        <4>1. calls[i].route = "POST/transfer"
          BY <3>4 DEF PostTransfer, UndoTransfer, At, Authorized
        <4>2. calls[i].body.amount \in Int
          BY <1>1, <4>1 DEF MoneyBase, CallMoney
        <4>3. h = -calls'[i].body.amount
          <5> HIDE DEF g, h
          <5> QED
            BY <1>4, <3>2, <3>4, <4>2
        <4>4. \A t \in db.transactions : t.id # i
          <5>1. i \in Nat
            BY <1>1, CallNumbers
          <5> QED
            BY <1>1, <3>4, <5>1 DEF MoneyBase, MadeBy, PastRecord
        <4>5. db'.transactions = db.transactions
          <5>1. TransferMoves(i)
            BY <1>1, <3>4, <4>2, TransferMoney DEF MoneyBase
          <5> QED
            BY <3>4, <5>1 DEF TransferMoves, Attempt, Shifted, Unmoved
        <4>6. Lost(db', calls', i)
          BY <1>2, <1>4, <3>4, <4>1, <4>4, <4>5 DEF Lost
        <4> QED
          BY <4>3, <4>6
      <3> QED
        BY <1>6, <2>2, <3>2, <3>3, <3>4
    <2> QED
      BY <1>2, <2>1, <2>2
  <1>10. Gap(db, calls)' = h
    BY DEF Gap
  <1> QED
    BY <1>1, <1>8, <1>9, <1>10 DEF OneFailureInv

LEMMA PageOneFailure ==
    ASSUME OneFailureInv, PageStep, MoneyBase'
    PROVE  OneFailureInv'
  <1>1. db' = db /\ scene' = scene /\ faults' = faults /\ CallsOK /\ CallsOK'
    BY DEF PageStep, Sends, OneFailureInv, MoneyBase, RegInv, OwnInv
  <1>2. Mids(calls') = Mids(calls)
    BY MidsOfPage DEF OneFailureInv
  <1>3. Gap(db, calls)' = Gap(db, calls)
    BY <1>1, <1>2 DEF Gap
  <1>4. ASSUME NEW k, Lost(db, calls, k) PROVE Lost(db', calls', k) /\ calls'[k].body = calls[k].body
    <2>1. k \in DOMAIN calls' /\ Leaves(calls[k], calls'[k])
      BY <1>1, <1>4 DEF PageStep, Sends, CallsOK, Lost
    <2>2. NoAnswer.status # 200
      BY DEF NoAnswer
    <2> QED
      BY <1>1, <1>4, <2>1, <2>2 DEF Lost, Leaves
  <1>5. ASSUME faults' = scene'.faults - 1, Gap(db, calls)' # 0
        PROVE  \E k : Lost(db', calls', k) /\ Gap(db, calls)' = -calls'[k].body.amount
    <2>1. PICK k : Lost(db, calls, k) /\ Gap(db, calls) = -calls[k].body.amount
      BY <1>1, <1>3, <1>5 DEF OneFailureInv
    <2>2. Gap(db, calls)' = -calls'[k].body.amount
      BY <1>3, <1>4, <2>1
    <2> QED
      BY <1>4, <2>1, <2>2
  <1> QED
    BY <1>1, <1>3, <1>5 DEF OneFailureInv

LEMMA LostConnectionOneFailure ==
    ASSUME OneFailureInv, NEW i \in DOMAIN calls, ConnectionFails(i)
    PROVE  OneFailureInv'
  <1>1. MoneyBase /\ RegInv /\ OwnInv /\ CallsOK /\ MoneyBase' /\ faults' # scene'.faults
    BY LostConnectionMoney DEF OneFailureInv, MoneyBase, RegInv, OwnInv
  <1>2. /\ Answers(i, -1, {}) /\ calls[i].at \in {"sent", "answered"}
        /\ faults' = faults - 1 /\ db' = db /\ scene' = scene
    BY <1>1, ConnectionFailsEffect
  <1>3. faults \in Int /\ faults <= scene.faults /\ scene.faults \in Int
    BY <1>1, ScenesAssumption DEF RegInv, OwnInv
  <1>4. ASSUME faults' = scene'.faults - 1 PROVE Gap(db, calls)' = 0
    <2>1. faults = scene.faults
      BY <1>2, <1>3, <1>4
    <2>2. Gap(db, calls) = 0
      BY <2>1 DEF OneFailureInv
    <2>3. /\ DOMAIN calls' = DOMAIN calls /\ calls'[i].at = "answered"
          /\ \A j \in DOMAIN calls : j # i => calls'[j] = calls[j]
      BY <1>1, <1>2 DEF Answers, Reaches, CallsOK
    <2>4. CallsOK' /\ \A j \in DOMAIN calls : CallMoney(db, calls[j]) /\ CallMoney(db', calls'[j])
      BY <1>1, <2>3 DEF MoneyBase, RegInv, OwnInv
    <2>5. Mids(calls) \in Int /\ Mids(calls') = Mids(calls) - Mid(calls[i]) + Mid(calls'[i])
      BY <1>1, <2>3, <2>4, MidsOfOne
    <2>6. Mid(calls[i]) = 0 /\ Mid(calls'[i]) = 0
      BY <1>2, <2>3 DEF Mid
    <2>7. Mids(calls') = Mids(calls)
      BY <2>5, <2>6
    <2> QED
      BY <1>2, <2>2, <2>7 DEF Gap
  <1> QED
    BY <1>1, <1>4 DEF OneFailureInv

LEMMA NextOneFailure == OneFailureInv /\ [Next]_vars => OneFailureInv'
  <1> SUFFICES ASSUME OneFailureInv, [Next]_vars PROVE OneFailureInv'
    OBVIOUS
  <1>1. MoneyBase' /\ MoneyBase
    BY NextMoney DEF OneFailureInv
  <1>2. ASSUME NEW i \in DOMAIN calls, Handle(i), UNCHANGED <<scene, tab>> PROVE OneFailureInv'
    BY <1>2, HandlerOneFailure
  <1>3. CASE Callback \/ User \/ OtherClient
    <2>1. PageStep
      BY <1>1, <1>3, CallbackSends, UserSends DEF MoneyBase, RegInv, OwnInv
    <2> QED
      BY <1>1, <2>1, PageOneFailure
  <1>4. ASSUME NEW i \in DOMAIN calls, ConnectionFails(i) PROVE OneFailureInv'
    BY <1>4, LostConnectionOneFailure
  <1>5. CASE UNCHANGED vars
    <2>1. db' = db /\ calls' = calls /\ faults' = faults /\ scene' = scene
      BY <1>5 DEF vars, apiVars
    <2>2. Gap(db, calls)' = Gap(db, calls)
      BY <2>1 DEF Gap
    <2> QED
      BY <1>1, <2>1, <2>2 DEF OneFailureInv
  <1> QED
    BY <1>2, <1>3, <1>4, <1>5 DEF Next, Serve

\* transfer/route.ts:85-97: of all statements of all requests one fails, at any moment.
\* When transfers have come to their ends, the total is as at the beginning, or short of
\* the amount of one transfer that was not answered with a success and left no record:
\* what the handlers undo after a failure never gives money twice.
THEOREM OneFailureKeepsTotal == Spec => []OneFailureCreatesNoMoney
  <1>1. OneFailureInv => OneFailureCreatesNoMoney
    <2> DEFINE M == MoneyOf(db.accounts)
               Z == MoneyOf(scene.db.accounts)
               g == Gap(db, calls)
    <2>1. SUFFICES ASSUME OneFailureInv, faults = scene.faults - 1, \A i \in DOMAIN calls : ~Pending(i)
                   PROVE  \/ Money(db.accounts) = Money(scene.db.accounts)
                          \/ \E i \in DOMAIN calls :
                               /\ calls[i].route = "POST/transfer" /\ calls[i].answer.status # 200
                               /\ \A t \in db.transactions : t.id # i
                               /\ Money(db.accounts) = Money(scene.db.accounts) - calls[i].body.amount
      BY DEF OneFailureCreatesNoMoney
    <2>2. MoneyBase /\ OwnInv /\ CallsOK /\ AccountsOK(db) /\ Sound(scene.db)
      BY <2>1, ScenesAssumption DEF OneFailureInv, MoneyBase, RegInv, OwnInv
    <2>3. Money(db.accounts) = M /\ Money(scene.db.accounts) = Z
      BY <2>2, SumOfColumn DEF Money, MoneyOf, AccountsOK, Sound
    <2>4. M \in Int /\ Z \in Int
      BY <2>2, MoneyIsInt, OpeningMoney
    <2>5. Mids(calls) = 0
      <3>1. \A j \in DOMAIN calls : Mid(calls[j]) = 0
        BY <2>1 DEF Pending, Mid
      <3> QED
        BY <2>2, <3>1, NothingMissing
    <2>6. g = M - Z
      BY <2>4, <2>5 DEF Gap
    <2>7. CASE g = 0
      <3>1. M = Z
        <4> HIDE DEF M, Z, g
        <4> QED
          BY <2>4, <2>6, <2>7
      <3> QED
        BY <2>3, <3>1
    <2>8. ASSUME NEW k, Lost(db, calls, k), g = -calls[k].body.amount
          PROVE  /\ k \in DOMAIN calls /\ calls[k].route = "POST/transfer" /\ calls[k].answer.status # 200
                 /\ \A t \in db.transactions : t.id # k
                 /\ Money(db.accounts) = Money(scene.db.accounts) - calls[k].body.amount
      <3> DEFINE n == calls[k].body.amount
      <3>1. k \in DOMAIN calls /\ calls[k].route = "POST/transfer" /\ \A t \in db.transactions : t.id # k
        BY <2>8 DEF Lost
      <3>2. calls[k].answer.status # 200
        BY <2>1, <2>8, <3>1 DEF Lost, Pending
      <3>3. n \in Int
        BY <2>2, <3>1 DEF MoneyBase, CallMoney
      <3>4. M = Z - n
        <4>1. g = -n
          BY <2>8
        <4> HIDE DEF M, Z, g, n
        <4> QED
          BY <2>4, <2>6, <3>3, <4>1
      <3> QED
        BY <2>3, <3>1, <3>2, <3>4
    <2> QED
      BY <2>1, <2>7, <2>8 DEF OneFailureInv
  <1> QED
    BY <1>1, InitOneFailure, NextOneFailure, PTL DEF Spec

-----------------------------------------------------------------------------
(* What a page shows.                                                        *)

PageFields == {"name", "loading", "data", "list", "more", "settings", "open", "error", "success", "overlap",
               "opened"}

TabOK == DOMAIN tab = TabFields /\ DOMAIN tab.page = PageFields /\ tab.page.name \in Pages

\* All that page p may show is about user u.
Belongs(d, p, u) ==
  /\ \A x \in p.list \cup p.more : RowConcerns(d, x.row, u)
  /\ p.name = "profile" /\ p.data # None => RowConcerns(d, p.data.row, u)

\* A request that a callback waits for was sent with the token there is, and the list
\* its callback has captured is the user's.
WaitsFor(d, c, token) ==
  ~Auth(c) /\ c.then # None =>
    /\ c.user = token
    /\ token # None /\ c.route # "PUT/settings" => \A x \in c.seen : RowConcerns(d, x.row, token)

\* Of a success of these the page takes the first row.
HasRow(c) ==
  c.route \in {"GET/profile", "PUT/profile"} /\ c.at = "answered" /\ c.answer.status = 200 => c.answer.rows # {}

\* While the page waits for what it fetches it waits for all of it.
Complete(name, cs) ==
  (\E i \in DOMAIN cs : cs[i].then = "load") =>
     name \in Dashboards /\ \A k \in DOMAIN Fetches(name) :
       \E i \in DOMAIN cs : cs[i].then = "load" /\ cs[i].route = Fetches(name)[k]

ShowInv ==
  /\ OwnInv /\ TabOK
  /\ \A j \in DOMAIN calls : HasRow(calls[j]) /\ (calls[j].then = "load" => calls[j].route \in Fetched)
  /\ Complete(tab.page.name, calls)
  /\ ~tab.crossed =>
       /\ \A j \in DOMAIN calls : WaitsFor(db, calls[j], tab.token)
       /\ tab.token # None => Belongs(db, tab.page, tab.token)

LEMMA GrowsConcerns ==
    ASSUME NEW d, NEW e, Grows(d, e)
    PROVE  /\ \A r, u : RowConcerns(d, r, u) => RowConcerns(e, r, u)
           /\ \A p, u : Belongs(d, p, u) => Belongs(e, p, u)
           /\ \A c, u : WaitsFor(d, c, u) => WaitsFor(e, c, u)
  <1>1. \A r, u : RowConcerns(d, r, u) => RowConcerns(e, r, u)
    BY DEF Grows, RowConcerns
  <1> QED
    BY <1>1 DEF Belongs, WaitsFor

LEMMA ProfileByRoute ==
    ASSUME NEW i, Handle(i)
    PROVE  /\ calls[i].route = "GET/profile" => Unauthorized(i) \/ GetProfile(i)
           /\ calls[i].route = "PUT/profile" => Unauthorized(i) \/ PutProfile(i)
  <1> USE DEF At, Authorized
  <1>1. CASE PostRegister(i) \/ PostLogin(i)
    BY <1>1 DEF PostRegister, PostLogin
  <1>2. CASE Unauthorized(i) \/ GetAccounts(i) \/ GetCards(i) \/ GetTransactions(i) \/ GetStats(i)
    BY <1>2 DEF GetAccounts, GetCards, GetTransactions, GetStats
  <1>3. CASE GetLoans(i) \/ GetLoanPayments(i) \/ GetBeneficiaries(i) \/ PostBeneficiary(i) \/ DeleteBeneficiary(i)
    BY <1>3 DEF GetLoans, GetLoanPayments, GetBeneficiaries, PostBeneficiary, DeleteBeneficiary
  <1>4. CASE GetTickets(i) \/ PostTicket(i) \/ GetProfile(i) \/ PutProfile(i) \/ GetSettings(i) \/ PutSettings(i)
    BY <1>4 DEF GetTickets, PostTicket, GetProfile, PutProfile, GetSettings, PutSettings
  <1>5. CASE GetSecurityLogs(i) \/ PostTransfer(i)
    BY <1>5 DEF GetSecurityLogs, PostTransfer, UndoTransfer
  <1> QED
    BY <1>1, <1>2, <1>3, <1>4, <1>5 DEF Handle

LEMMA ProfileHasRow ==
    ASSUME CallsOK, NEW i \in DOMAIN calls, Handle(i)
    PROVE  HasRow(calls'[i])
  <1> DEFINE found == {u \in db.users : u.owner = calls[i].user}
             echo == [owner |-> calls[i].user, email |-> calls[i].body.email, phone |-> calls[i].body.phone]
  <1>1. ASSUME NEW status, NEW rows, Answers(i, status, rows), status # 200 \/ rows # {} PROVE HasRow(calls'[i])
    BY <1>1 DEF Answers, HasRow
  <1>2. ASSUME NEW status \in {401, 404, 500}, Respond(i, status) PROVE HasRow(calls'[i])
    BY <1>1, <1>2, StepEnds
  <1>3. ASSUME NEW rows, RespondRows(i, Plain(rows)), rows # {} PROVE HasRow(calls'[i])
    <2>1. Plain(rows) # {}
      BY <1>3 DEF Plain
    <2> QED
      BY <1>1, <1>3, <2>1, StepEnds
  <1>4. CASE Unauthorized(i)
    BY <1>2, <1>4 DEF Unauthorized
  <1>5. CASE GetProfile(i)
    <2> HIDE DEF found
    <2>1. ExecuteQuery(IF found = {} THEN Respond(i, 404) ELSE RespondRows(i, Plain(found)), Respond(i, 500))
      BY <1>5 DEF GetProfile, found
    <2>2. Respond(i, 404) \/ Respond(i, 500) \/ (found # {} /\ RespondRows(i, Plain(found)))
      BY <2>1 DEF ExecuteQuery
    <2> QED
      BY <1>2, <1>3, <2>2
  <1>6. CASE PutProfile(i)
    <2>1. RespondRows(i, Plain({echo})) \/ Respond(i, 500)
      BY <1>6 DEF PutProfile, ExecuteWriteQuery
    <2> HIDE DEF echo
    <2> QED
      BY <1>2, <1>3, <2>1
  <1>7. CASE calls[i].route \notin {"GET/profile", "PUT/profile"}
    <2>1. calls'[i].route = calls[i].route
      BY HandlerMoves DEF Moves, Advances, Reaches, SameRequest
    <2> QED
      BY <1>7, <2>1 DEF HasRow
  <1> QED
    BY <1>4, <1>5, <1>6, <1>7, ProfileByRoute

\* A step of request i, whatever page there is.
LEMMA ServingShows ==
    ASSUME ShowInv, OwnInv', NEW i \in DOMAIN calls, Advances(i), Grows(db, db'), HasRow(calls'[i]), tab' = tab
    PROVE  ShowInv'
  <1>1. CallsOK /\ CallsOK' /\ DOMAIN calls' = DOMAIN calls
    BY DEF ShowInv, OwnInv, Advances, Reaches, CallsOK
  <1>2. ASSUME NEW j \in DOMAIN calls
        PROVE  /\ calls'[j].route = calls[j].route /\ calls'[j].user = calls[j].user
               /\ calls'[j].then = calls[j].then /\ calls'[j].seen = calls[j].seen
               /\ HasRow(calls'[j])
    BY DEF Advances, Reaches, SameRequest, ShowInv
  <1>3. \A j \in DOMAIN calls' : HasRow(calls'[j]) /\ (calls'[j].then = "load" => calls'[j].route \in Fetched)
    BY <1>1, <1>2 DEF ShowInv
  <1>4. Complete(tab'.page.name, calls')
    BY <1>1, <1>2 DEF ShowInv, Complete
  <1>5. ASSUME ~tab.crossed, NEW j \in DOMAIN calls PROVE WaitsFor(db', calls'[j], tab.token)
    <2>1. WaitsFor(db', calls[j], tab.token)
      BY <1>5, GrowsConcerns DEF ShowInv
    <2> QED
      BY <1>2, <2>1 DEF WaitsFor, Auth
  <1>6. ~tab.crossed /\ tab.token # None => Belongs(db', tab.page, tab.token)
    BY GrowsConcerns DEF ShowInv
  <1>7. TabOK'
    BY DEF ShowInv, TabOK
  <1> QED
    BY <1>1, <1>3, <1>4, <1>5, <1>6, <1>7 DEF ShowInv

LEMMA HandlerShows ==
    ASSUME ShowInv, NEW i \in DOMAIN calls, Handle(i), UNCHANGED <<scene, tab>>
    PROVE  ShowInv'
  <1>1. OwnInv' /\ Advances(i) /\ Grows(db, db')
    BY HandlerKeepsOwn, HandlerMoves, HandlerTables DEF ShowInv, OwnInv, Moves
  <1>2. HasRow(calls'[i])
    BY ProfileHasRow DEF ShowInv, OwnInv
  <1> QED
    BY <1>1, <1>2, ServingShows

LEMMA ConnectionShows ==
    ASSUME ShowInv, OwnInv', NEW i \in DOMAIN calls, ConnectionFails(i)
    PROVE  ShowInv'
  <1>1. Answers(i, -1, {}) /\ db' = db /\ tab' = tab
    BY ConnectionFailsEffect DEF ShowInv, OwnInv
  <1>2. Advances(i) /\ HasRow(calls'[i])
    BY <1>1 DEF Answers, Advances, Reaches, HasRow
  <1>3. Grows(db, db')
    BY <1>1 DEF Grows
  <1> QED
    BY <1>1, <1>2, <1>3, ServingShows

\* A callback is waited for as before, or no longer.
Keeps(c, d) == (d.then = c.then /\ d.seen = c.seen) \/ d.then = None

\* A request the page sends, or another client.
Sent(c) ==
  /\ c.then # "load"
  /\ c.then # None => Auth(c) \/ (c.user = tab.token /\ (c.seen = tab.page.list \/ c.route = "PUT/settings"))

SamePage ==
  DOMAIN tab' = TabFields /\ DOMAIN tab'.page = PageFields /\ tab'.page.name = tab.page.name
  /\ tab'.token = tab.token /\ tab'.crossed = tab.crossed

\* What a step that stays on the page does to requests.
Stay ==
  /\ \A j \in DOMAIN calls : Keeps(calls[j], calls'[j])
  /\ \A j \in DOMAIN calls' : j > Len(calls) => Sent(calls'[j])
  /\ \/ \A j \in DOMAIN calls : calls'[j].then # "load"
     \/ \A j \in DOMAIN calls : calls[j].then = "load" => calls'[j].then = "load"

LEMMA PageHasRow ==
    ASSUME ShowInv, PageStep
    PROVE  OwnInv' /\ \A j \in DOMAIN calls' : HasRow(calls'[j])
  <1>1. OwnInv'
    BY PageOwns DEF ShowInv
  <1>2. ASSUME NEW j \in DOMAIN calls' PROVE HasRow(calls'[j])
    <2>1. CASE j \in DOMAIN calls
      <3>1. Leaves(calls[j], calls'[j]) /\ HasRow(calls[j])
        BY <2>1 DEF PageStep, Sends, ShowInv
      <3> QED
        BY <3>1 DEF Leaves, HasRow
    <2>2. CASE j \notin DOMAIN calls
      <3>1. Fresh(calls'[j])
        BY <1>2, <2>2 DEF PageStep, Sends, ShowInv, OwnInv, CallsOK
      <3> QED
        BY <3>1 DEF Fresh, HasRow
    <2> QED
      BY <2>1, <2>2
  <1> QED
    BY <1>1, <1>2

\* What does not depend on the token.
LEMMA StayControl ==
    ASSUME ShowInv, PageStep, Stay, tab'.page.name = tab.page.name
    PROVE  /\ OwnInv' /\ db' = db
           /\ \A j \in DOMAIN calls' : HasRow(calls'[j]) /\ (calls'[j].then = "load" => calls'[j].route \in Fetched)
           /\ Complete(tab'.page.name, calls')
           /\ \A j \in DOMAIN calls : j \in DOMAIN calls' /\ Leaves(calls[j], calls'[j])
           /\ \A j \in DOMAIN calls' : j \in DOMAIN calls \/ j > Len(calls)
  <1>1. /\ OwnInv' /\ \A j \in DOMAIN calls' : HasRow(calls'[j])
        /\ db' = db
    BY PageHasRow DEF PageStep
  <1>2. /\ \A j \in DOMAIN calls : j \in DOMAIN calls' /\ Leaves(calls[j], calls'[j])
        /\ \A j \in DOMAIN calls' : j \in DOMAIN calls \/ j > Len(calls)
    BY DEF PageStep, Sends, ShowInv, OwnInv, CallsOK
  <1>3. \A j \in DOMAIN calls' : calls'[j].then = "load" =>
          j \in DOMAIN calls /\ calls[j].then = "load" /\ calls'[j].route = calls[j].route
    BY <1>2, CallbacksAssumption DEF Stay, Sent, Keeps, Leaves
  <1>4. Complete(tab'.page.name, calls')
    <2>1. CASE \A j \in DOMAIN calls : calls'[j].then # "load"
      BY <1>3, <2>1 DEF Complete
    <2>2. CASE \A j \in DOMAIN calls : calls[j].then = "load" => calls'[j].then = "load"
      <3>1. \A j \in DOMAIN calls : calls[j].then = "load" =>
              j \in DOMAIN calls' /\ calls'[j].then = "load" /\ calls'[j].route = calls[j].route
        BY <1>2, <2>2 DEF Leaves
      <3> QED
        BY <1>3, <3>1 DEF Complete, ShowInv
    <2> QED
      BY <2>1, <2>2 DEF Stay
  <1> QED
    BY <1>1, <1>2, <1>3, <1>4 DEF ShowInv

LEMMA StayShows ==
    ASSUME ShowInv, PageStep, SamePage, Stay,
           ~tab.crossed /\ tab.token # None => Belongs(db, tab'.page, tab.token)
    PROVE  ShowInv'
  <1>1. tab'.crossed = tab.crossed /\ tab'.token = tab.token /\ tab'.page.name = tab.page.name /\ TabOK'
    BY DEF SamePage, TabOK, ShowInv
  <1>2. ASSUME ~tab.crossed, NEW j \in DOMAIN calls' PROVE WaitsFor(db, calls'[j], tab.token)
    <2>1. CASE j \in DOMAIN calls
      <3>1. Keeps(calls[j], calls'[j]) /\ Leaves(calls[j], calls'[j]) /\ WaitsFor(db, calls[j], tab.token)
        BY <1>1, <1>2, <2>1, StayControl DEF Stay, ShowInv
      <3> QED
        BY <3>1 DEF Keeps, Leaves, WaitsFor, Auth
    <2>2. CASE j > Len(calls)
      <3>1. Sent(calls'[j])
        BY <2>2 DEF Stay
      <3>2. tab.token # None => \A x \in tab.page.list : RowConcerns(db, x.row, tab.token)
        BY <1>2 DEF ShowInv, Belongs
      <3> QED
        BY <3>1, <3>2 DEF Sent, WaitsFor
    <2> QED
      BY <1>1, <2>1, <2>2, StayControl
  <1> QED
    BY <1>1, <1>2, StayControl DEF ShowInv

\* The dashboard stays under a new token.
LEMMA CrossedShows ==
    ASSUME ShowInv, PageStep, Stay, TabOK', tab'.page.name = tab.page.name, tab'.crossed = TRUE
    PROVE  ShowInv'
  BY StayControl DEF ShowInv

\* Another page, with a token that may be another.
LEMMA MountShows ==
    ASSUME ShowInv, PageStep, NEW name \in Pages, NEW t, DOMAIN t = TabFields,
           NEW cs, CallList(cs), Len(cs) = Len(calls), \A j \in DOMAIN calls : Leaves(calls[j], cs[j]),
           Mount(name, t, cs)
    PROVE  ShowInv'
  <1> DEFINE n == Len(calls)
             m == Len(Fetches(name))
             fetch(k) == Request(Fetches(name)[k], t.token, None, "load", {})
  <1>1. OwnInv' /\ CallsOK' /\ db' = db /\ \A j \in DOMAIN calls' : HasRow(calls'[j])
    BY PageHasRow DEF PageStep, OwnInv
  <1>2. m \in Nat /\ n \in Nat /\ DOMAIN Fetches(name) = 1..m /\ DOMAIN calls = 1..n /\ DOMAIN cs = 1..n
    BY FetchesLength DEF ShowInv, OwnInv, CallsOK, CallList
  <1>3. /\ Len(calls') = n + m
        /\ \A j \in 1..n : calls'[j] = Unmount(cs[j]) /\ DOMAIN cs[j] = CallFields
        /\ \A k \in 1..m : calls'[n + k] = fetch(k)
    BY <1>2, MountEffect DEF CallList
  <1>4. DOMAIN calls' = 1..(n + m)
    BY <1>1, <1>3 DEF CallsOK
  <1>5. /\ DOMAIN tab' = TabFields /\ tab'.page = Mounted(name) /\ tab'.crossed = FALSE /\ tab'.token = t.token
        /\ DOMAIN Mounted(name) = PageFields /\ Mounted(name).name = name
        /\ Mounted(name).list = {} /\ Mounted(name).more = {} /\ Mounted(name).data = None
    BY DEF Mount, TabFields, Mounted, PageFields
  <1>6. ASSUME NEW k \in 1..m
        PROVE  /\ fetch(k).then = "load" /\ ~Auth(fetch(k)) /\ fetch(k).user = t.token /\ fetch(k).seen = {}
               /\ fetch(k).route = Fetches(name)[k] /\ fetch(k).route \in Fetched /\ name \in Dashboards
    BY <1>2, FetchesAreReads DEF Request, Auth
  <1>7. ASSUME NEW j \in 1..n
        PROVE  calls'[j].then # "load" /\ (~Auth(calls'[j]) => calls'[j].then = None)
    <2>1. calls'[j] = Unmount(cs[j]) /\ DOMAIN cs[j] = CallFields
      BY <1>3
    <2> QED
      BY <2>1, CallbacksAssumption DEF Unmount, CallFields, Auth
  <1>8. \A j \in DOMAIN calls' : j \in 1..n \/ \E k \in 1..m : j = n + k
    <2>1. \A j \in 1..(n + m) : j \in 1..n \/ (j - n \in 1..m /\ j = n + (j - n))
      BY <1>2
    <2> QED
      BY <1>4, <2>1
  <1> HIDE DEF fetch, n, m
  <1>9. \A j \in DOMAIN calls' : /\ calls'[j].then = "load" => calls'[j].route \in Fetched
                                 /\ WaitsFor(db, calls'[j], t.token)
    <2>1. ASSUME NEW j \in 1..n
          PROVE  /\ calls'[j].then = "load" => calls'[j].route \in Fetched
                 /\ WaitsFor(db, calls'[j], t.token)
      BY <1>7 DEF WaitsFor
    <2>2. ASSUME NEW k \in 1..m
          PROVE  /\ calls'[n + k].then = "load" => calls'[n + k].route \in Fetched
                 /\ WaitsFor(db, calls'[n + k], t.token)
      BY <1>3, <1>6 DEF WaitsFor
    <2> QED
      BY <1>8, <2>1, <2>2
  <1>10. Complete(name, calls')
    <2>1. ASSUME NEW k \in 1..m
          PROVE  n + k \in DOMAIN calls' /\ calls'[n + k].then = "load" /\ calls'[n + k].route = Fetches(name)[k]
      <3>1. n + k \in 1..(n + m) /\ calls'[n + k] = fetch(k)
        BY <1>2, <1>3
      <3> QED
        BY <1>4, <1>6, <3>1
    <2>2. \A j \in 1..n : calls'[j].then # "load"
      BY <1>7
    <2>3. (\E j \in DOMAIN calls' : calls'[j].then = "load") => name \in Dashboards
      BY <1>6, <1>8, <2>2
    <2> QED
      BY <1>2, <2>1, <2>3 DEF Complete
  <1>11. Belongs(db, Mounted(name), t.token)
    BY <1>5 DEF Belongs
  <1>12. TabOK'
    BY <1>5 DEF TabOK
  <1> HIDE DEF ShowInv
  <1> QED
    BY <1>1, <1>5, <1>9, <1>10, <1>11, <1>12 DEF ShowInv

\* The page changes, but not in what it may show.
LEMMA SameRowsShow ==
    ASSUME ShowInv, PageStep, SamePage, Stay,
           tab'.page.list = tab.page.list, tab'.page.more = tab.page.more, tab'.page.data = tab.page.data
    PROVE  ShowInv'
  <1>1. ~tab.crossed /\ tab.token # None => Belongs(db, tab'.page, tab.token)
    BY DEF ShowInv, Belongs, SamePage
  <1> QED
    BY <1>1, StayShows

LEMMA ForgetStays ==
    ASSUME ShowInv, NEW i \in DOMAIN calls, calls[i].then # "load", calls' = Forget(i)
    PROVE  Stay
  <1>1. CallsOK /\ DOMAIN calls = 1..Len(calls) /\ Len(calls) \in Nat
    BY DEF ShowInv, OwnInv, CallsOK
  <1>2. /\ DOMAIN calls' = DOMAIN calls /\ calls'[i].then = None
        /\ \A j \in DOMAIN calls : j # i => calls'[j] = calls[j]
    BY <1>1, ForgetEffect
  <1> QED
    BY <1>1, <1>2 DEF Stay, Keeps

LEMMA SendStays ==
    ASSUME ShowInv, NEW r, DOMAIN r = CallFields, DOMAIN r.answer = AnswerFields, Sent(r), Send(r)
    PROVE  Stay
  <1>1. /\ CallsOK' /\ Len(calls') = Len(calls) + 1 /\ calls'[Len(calls) + 1] = r
        /\ \A j \in DOMAIN calls : calls'[j] = calls[j]
    BY SendEffect DEF ShowInv, OwnInv
  <1>2. \A j \in DOMAIN calls' : j > Len(calls) => j = Len(calls) + 1
    BY <1>1 DEF CallsOK, ShowInv, OwnInv
  <1> QED
    BY <1>1, <1>2 DEF Stay, Keeps

LEMMA SameStays == ASSUME ShowInv, calls' = calls PROVE Stay
  BY DEF Stay, Keeps, ShowInv, OwnInv, CallsOK

LEMMA SendShows ==
    ASSUME ShowInv, PageStep, SamePage, NEW r, DOMAIN r = CallFields, DOMAIN r.answer = AnswerFields, Sent(r), Send(r),
           tab'.page.list = tab.page.list, tab'.page.more = tab.page.more, tab'.page.data = tab.page.data
    PROVE  ShowInv'
  <1>1. Stay
    BY SendStays
  <1> QED
    BY <1>1, SameRowsShow

\* A step that sets a flag of the page, or the timers, stays on the page and changes no row.
LEMMA FlagsStay ==
    ASSUME TabOK
    PROVE  LET Same == /\ SamePage /\ tab'.page.list = tab.page.list /\ tab'.page.more = tab.page.more
                       /\ tab'.page.data = tab.page.data IN
           /\ tab' = tab => Same
           /\ \A a, b : tab' = [tab EXCEPT !.page.loading = a, !.page.error = b] => Same
           /\ \A a : tab' = [tab EXCEPT !.page.error = a] => Same
           /\ \A a : tab' = [tab EXCEPT !.page.overlap = a] => Same
           /\ \A a : tab' = [tab EXCEPT !.page.open = a] => Same
           /\ \A a : tab' = [tab EXCEPT !.page.settings = a] => Same
           /\ \A a, b, c : tab' = [tab EXCEPT !.page.loading = a, !.page.success = b, !.timers = c] => Same
           /\ \A a : tab' = [tab EXCEPT !.timers = a] => Same
  <1> DEFINE Same == /\ SamePage /\ tab'.page.list = tab.page.list /\ tab'.page.more = tab.page.more
                     /\ tab'.page.data = tab.page.data
  <1> USE DEF TabOK, SamePage, TabFields, PageFields
  <1>1. tab' = tab => Same
    OBVIOUS
  <1>2. ASSUME NEW a, NEW b, tab' = [tab EXCEPT !.page.loading = a, !.page.error = b] PROVE Same
    <2> DEFINE t == [tab EXCEPT !.page.loading = a]
    <2>1. /\ DOMAIN t = TabFields /\ DOMAIN t.page = PageFields /\ t.token = tab.token /\ t.crossed = tab.crossed
          /\ t.page.name = tab.page.name /\ t.page.list = tab.page.list /\ t.page.more = tab.page.more
          /\ t.page.data = tab.page.data
      OBVIOUS
    <2>2. tab' = [t EXCEPT !.page.error = b]
      BY <1>2
    <2> HIDE DEF t
    <2> QED
      BY <2>1, <2>2
  <1>3. \A a : tab' = [tab EXCEPT !.page.error = a] => Same
    OBVIOUS
  <1>4. \A a : tab' = [tab EXCEPT !.page.overlap = a] => Same
    OBVIOUS
  <1>5. \A a : tab' = [tab EXCEPT !.page.open = a] => Same
    OBVIOUS
  <1>6. \A a : tab' = [tab EXCEPT !.page.settings = a] => Same
    OBVIOUS
  <1>7. ASSUME NEW a, NEW b, NEW c, tab' = [tab EXCEPT !.page.loading = a, !.page.success = b, !.timers = c] PROVE Same
    <2> DEFINE t == [tab EXCEPT !.page.loading = a]
               v == [t EXCEPT !.page.success = b]
    <2>1. /\ DOMAIN t = TabFields /\ DOMAIN t.page = PageFields /\ t.token = tab.token /\ t.crossed = tab.crossed
          /\ t.page.name = tab.page.name /\ t.page.list = tab.page.list /\ t.page.more = tab.page.more
          /\ t.page.data = tab.page.data
      OBVIOUS
    <2>2. tab' = [v EXCEPT !.timers = c]
      BY <1>7
    <2> HIDE DEF t
    <2>3. /\ DOMAIN v = TabFields /\ DOMAIN v.page = PageFields /\ v.token = t.token /\ v.crossed = t.crossed
          /\ v.page.name = t.page.name /\ v.page.list = t.page.list /\ v.page.more = t.page.more
          /\ v.page.data = t.page.data
      BY <2>1
    <2> HIDE DEF v
    <2> QED
      BY <2>1, <2>2, <2>3
  <1>8. \A a : tab' = [tab EXCEPT !.timers = a] => Same
    OBVIOUS
  <1> QED
    BY <1>1, <1>2, <1>3, <1>4, <1>5, <1>6, <1>7, <1>8

LEMMA RequestStays ==
    ASSUME NEW route, NEW user, NEW body, NEW then, NEW seen, then # "load",
           \/ then = None \/ route \in {"POST/register", "POST/login"}
           \/ user = tab.token /\ seen = tab.page.list
    PROVE  Sent(Request(route, user, body, then, seen))
  BY DEF Sent, Request, Auth

LEMMA AnySendShows ==
    ASSUME ShowInv, PageStep, SamePage,
           tab'.page.list = tab.page.list, tab'.page.more = tab.page.more, tab'.page.data = tab.page.data,
           NEW route, NEW user, NEW body, NEW then, NEW seen, then # "load",
           \/ then = None \/ route \in {"POST/register", "POST/login"}
           \/ user = tab.token /\ seen = tab.page.list,
           Send(Request(route, user, body, then, seen))
    PROVE  ShowInv'
  <1> DEFINE r == Request(route, user, body, then, seen)
  <1>1. DOMAIN r = CallFields /\ DOMAIN r.answer = AnswerFields /\ Sent(r) /\ Send(r)
    BY RequestFields, RequestStays
  <1> HIDE DEF r
  <1> QED
    BY <1>1, SendShows

LEMMA NoLogoutOnLogin == Offers("logout") => tab.page.name # "login"
  BY DEF Offers, View, LoginView, Shows

LEMMA UserShows ==
    ASSUME ShowInv, User \/ OtherClient
    PROVE  ShowInv'
  <1>1. PageStep
    BY UserSends DEF ShowInv, OwnInv
  <1>2. TabOK /\ DOMAIN tab = TabFields
    BY DEF ShowInv, TabOK
  <1>3. CallList(calls) /\ \A j \in DOMAIN calls : Leaves(calls[j], calls[j])
    BY DEF CallList, CallsOK, Leaves, ShowInv, OwnInv
  <1>4. ASSUME NEW name \in Pages, Follow(name) PROVE ShowInv'
    <2>1. Mount(name, tab, calls)
      BY <1>4 DEF Follow, Push
    <2> QED
      BY <1>1, <1>2, <1>3, <2>1, MountShows
  <1>5. ASSUME NEW name \in Pages, Open(name) PROVE ShowInv'
    <2> DEFINE cs == [i \in DOMAIN calls |-> [calls[i] EXCEPT !.then = None]]
               t == [tab EXCEPT !.timers = 0]
    <2>1. CallsOK /\ DOMAIN calls = 1..Len(calls) /\ Len(calls) \in Nat
      BY DEF ShowInv, OwnInv, CallsOK
    <2>2. Len(cs) = Len(calls)
      BY <2>1
    <2>3. CallList(cs) /\ \A j \in DOMAIN calls : Leaves(calls[j], cs[j])
      BY <2>1, <2>2 DEF CallList, CallsOK, CallFields, Leaves
    <2>4. Mount(name, t, cs) /\ DOMAIN t = TabFields
      BY <1>2, <1>5 DEF Open
    <2> HIDE DEF cs, t
    <2> QED
      BY <1>1, <2>2, <2>3, <2>4, MountShows
  <1>6. CASE Logout
    <2> DEFINE t == [tab EXCEPT !.token = None]
    <2>1. DOMAIN t = TabFields /\ t.page.name # "login"
      BY <1>2, <1>6, NoLogoutOnLogin DEF Logout, TabFields
    <2>2. Push("login", t, calls)
      BY <1>6 DEF Logout
    <2> HIDE DEF t
    <2>3. Mount("login", t, calls) /\ "login" \in Pages
      BY <2>1, <2>2 DEF Push, Pages, AuthPages
    <2> QED
      BY <1>1, <1>3, <2>1, <2>3, MountShows
  <1>7. CASE Toggle
    <2>1. PICK a : tab' = [tab EXCEPT !.page.open = a]
      BY <1>7 DEF Toggle
    <2>2. Stay
      BY <1>7, SameStays DEF Toggle
    <2> QED
      BY <1>1, <1>2, <2>1, <2>2, FlagsStay, SameRowsShow
  <1>8. CASE SubmitLogin
    <2>1. tab' = [tab EXCEPT !.page.loading = TRUE, !.page.error = FALSE]
      BY <1>8 DEF SubmitLogin
    <2>2. PICK body : Send(Request("POST/login", None, body, "answer", {}))
      BY <1>8 DEF SubmitLogin
    <2> QED
      BY <1>1, <1>2, <2>1, <2>2, FlagsStay, AnySendShows
  <1>9. CASE SubmitRegister
    <2>1. CASE UNCHANGED calls
      <3>1. PICK a, b : tab' = [tab EXCEPT !.page.loading = a, !.page.error = b] \/ tab' = [tab EXCEPT !.page.error = b]
        BY <1>9 DEF SubmitRegister
      <3>2. Stay
        BY <2>1, SameStays
      <3> QED
        BY <1>1, <1>2, <3>1, <3>2, FlagsStay, SameRowsShow
    <2>2. CASE calls' # calls
      <3>1. tab' = [tab EXCEPT !.page.loading = TRUE, !.page.error = FALSE]
        BY <1>9, <2>2 DEF SubmitRegister
      <3>2. PICK body : Send(Request("POST/register", None, body, "answer", {}))
        BY <1>9, <2>2 DEF SubmitRegister
      <3> QED
        BY <1>1, <1>2, <3>1, <3>2, FlagsStay, AnySendShows
    <2> QED
      BY <2>1, <2>2
  <1>10. CASE AddBeneficiary \/ RemoveBeneficiary \/ CreateTicket
    <2>1. PICK a : tab' = [tab EXCEPT !.page.overlap = a]
      BY <1>10 DEF AddBeneficiary, RemoveBeneficiary, CreateTicket
    <2>2. PICK route, body : Send(AuthFetch(route, body))
      BY <1>10 DEF AddBeneficiary, RemoveBeneficiary, CreateTicket
    <2> QED
      BY <1>1, <1>2, <2>1, <2>2, FlagsStay, AnySendShows DEF AuthFetch
  <1>11. CASE SaveProfile
    <2>1. PICK body : Send(AuthFetch("PUT/profile", body))
      BY <1>11 DEF SaveProfile
    <2>2. tab' = tab
      BY <1>11 DEF SaveProfile
    <2> QED
      BY <1>1, <1>2, <2>1, <2>2, FlagsStay, AnySendShows DEF AuthFetch
  <1>12. CASE ChangeSetting
    <2> DEFINE body == [complete |-> TRUE, name |-> "alerts", value |-> ~GetSetting(tab.page.settings, "alerts")]
               q == AuthFetch("PUT/settings", body)
               r == [q EXCEPT !.seen = tab.page.settings]
    <2>1. Sent(q) /\ q.route = "PUT/settings" /\ q.user = tab.token /\ q.then = "answer"
          /\ DOMAIN q = CallFields /\ DOMAIN q.answer = AnswerFields
      <3>1. q = Request("PUT/settings", tab.token, body, "answer", tab.page.list)
        BY DEF AuthFetch
      <3> HIDE DEF q, body
      <3>2. q.route = "PUT/settings" /\ q.user = tab.token /\ q.then = "answer"
        BY <3>1 DEF Request
      <3> QED
        BY <3>1, <3>2, RequestFields DEF Sent
    <2>2. Send(r) /\ tab' = tab
      BY <1>12 DEF ChangeSetting
    <2> HIDE DEF q
    <2>3. DOMAIN r = CallFields /\ DOMAIN r.answer = AnswerFields /\ Sent(r)
      BY <2>1 DEF Sent, CallFields, Auth
    <2> HIDE DEF r
    <2> QED
      BY <1>1, <1>2, <2>2, <2>3, FlagsStay, SendShows
  <1>13. CASE SubmitTransfer
    <2>1. tab' = [tab EXCEPT !.page.loading = TRUE, !.page.error = FALSE]
      BY <1>13 DEF SubmitTransfer
    <2>2. PICK body : Send(AuthFetch("POST/transfer", body))
      BY <1>13 DEF SubmitTransfer
    <2> QED
      BY <1>1, <1>2, <2>1, <2>2, FlagsStay, AnySendShows DEF AuthFetch
  <1>14. CASE OtherClient
    <2>1. PICK r \in scene.direct : Send(Request(r.route, r.user, r.body, None, {}))
      BY <1>14 DEF OtherClient
    <2>2. tab' = tab
      BY <1>14 DEF OtherClient
    <2> QED
      BY <1>1, <1>2, <2>1, <2>2, FlagsStay, AnySendShows, CallbacksAssumption
  <1> QED
    BY <1>4, <1>5, <1>6, <1>7, <1>8, <1>9, <1>10, <1>11, <1>12, <1>13, <1>14 DEF User

\* The answers the page has waited for have rows of its user.
LEMMA GotOwn ==
    ASSUME ShowInv, ~tab.crossed, \A i \in Waiting : calls[i].at = "answered",
           NEW k \in DOMAIN Fetches(tab.page.name), Waiting # {}, NEW route, route = Fetches(tab.page.name)[k]
    PROVE  /\ \A x \in Got(route).rows : RowConcerns(db, x.row, tab.token)
           /\ route = "GET/profile" /\ Ok(route) => Got(route).rows # {}
  <1>1. \E i \in Waiting : calls[i].route = route
    BY DEF ShowInv, Complete, Waiting
  <1>2. PICK i \in Waiting : calls[i].route = route /\ Got(route) = calls[i].answer
    BY <1>1 DEF Got
  <1>3. /\ i \in DOMAIN calls /\ calls[i].then = "load" /\ calls[i].at = "answered"
        /\ calls[i].route \in Fetched /\ HasRow(calls[i]) /\ RowsOwn(db, calls[i])
        /\ WaitsFor(db, calls[i], tab.token)
    BY <1>2 DEF Waiting, ShowInv, OwnInv
  <1>4. ~Auth(calls[i]) /\ calls[i].then # None
    BY <1>3, CallbacksAssumption DEF Fetched, Auth
  <1>5. calls[i].user = tab.token
    BY <1>3, <1>4 DEF WaitsFor
  <1>6. \A x \in calls[i].answer.rows : RowConcerns(db, x.row, tab.token)
    BY <1>3, <1>4, <1>5 DEF RowsOwn
  <1>7. route = "GET/profile" /\ calls[i].answer.status = 200 => calls[i].answer.rows # {}
    BY <1>2, <1>3 DEF HasRow
  <1> QED
    BY <1>2, <1>6, <1>7 DEF Ok

\* What a page may be once its answers are in.
Takes(p, q) == DOMAIN q = PageFields /\ q.name = p.name /\ q.overlap = p.overlap /\ q.opened = p.opened

LEMMA LoadedTakes ==
    ASSUME NEW p, DOMAIN p = PageFields, p.name \in Dashboards
    PROVE  Takes(p, Loaded(p)) /\ Takes(p, LoadingDone(Loaded(p))) /\ Takes(p, LoadingDone(p))
  <1>1. ASSUME NEW q, Takes(p, q) PROVE Takes(p, LoadingDone(q))
    BY <1>1 DEF LoadingDone, Takes, PageFields
  <1>2. Takes(p, Loaded(p))
    <2> USE DEF Takes, PageFields
    <2>1. CASE p.name = "dashboard"
      BY <2>1 DEF Loaded, DashboardLoaded
    <2>2. CASE p.name = "accounts"
      BY <2>2 DEF Loaded, AccountsLoaded
    <2>3. CASE p.name = "transactions"
      BY <2>3 DEF Loaded, TransactionsLoaded
    <2>4. CASE p.name = "cards"
      BY <2>4 DEF Loaded, CardsLoaded
    <2>5. CASE p.name = "loans"
      BY <2>5 DEF Loaded, LoansLoaded
    <2>6. CASE p.name = "beneficiaries"
      BY <2>6 DEF Loaded, BeneficiariesLoaded
    <2>7. CASE p.name = "support"
      BY <2>7 DEF Loaded, SupportLoaded
    <2>8. CASE p.name = "profile"
      BY <2>8 DEF Loaded, ProfileLoaded
    <2>9. CASE p.name = "transfer"
      BY <2>9 DEF Loaded, TransferLoaded
    <2> QED
      BY <2>1, <2>2, <2>3, <2>4, <2>5, <2>6, <2>7, <2>8, <2>9 DEF Dashboards, NavItems
  <1> QED
    BY <1>1, <1>2 DEF Takes

LEMMA LoadedOwn ==
    ASSUME ShowInv, ~tab.crossed, tab.token # None, \A i \in Waiting : calls[i].at = "answered", Waiting # {}
    PROVE  Belongs(db, LoadingDone(Loaded(tab.page)), tab.token)
  <1> DEFINE p == tab.page
             Mine(rows) == \A x \in rows : RowConcerns(db, x.row, tab.token)
  <1>1. DOMAIN p = PageFields /\ p.name \in Dashboards /\ Belongs(db, p, tab.token)
    BY DEF ShowInv, TabOK, Complete, Waiting
  <1>2. Mine(p.list) /\ Mine(p.more)
    BY <1>1 DEF Belongs
  <1>3. ASSUME NEW route, NEW k \in DOMAIN Fetches(p.name), route = Fetches(p.name)[k]
        PROVE  Mine(Got(route).rows) /\ (route = "GET/profile" /\ Ok(route) => Got(route).rows # {})
    BY <1>3, GotOwn
  <1> HIDE DEF Mine
  <1>4. ASSUME NEW route, NEW old, Mine(old), Mine(Got(route).rows) PROVE Mine(RowsIf(route, old))
    BY <1>4 DEF RowsIf
  <1>5. ASSUME NEW q, DOMAIN q = PageFields, q.name = p.name, Belongs(db, q, tab.token)
        PROVE  Belongs(db, LoadingDone(q), tab.token)
    BY <1>5 DEF Belongs, LoadingDone, PageFields
  <1>6. ASSUME NEW q, q.name = p.name, q.name # "profile", Mine(q.list), Mine(q.more)
        PROVE  Belongs(db, q, tab.token)
    BY <1>6 DEF Belongs, Mine
  <1>7. CASE p.name = "dashboard"
    <2>1. Mine(Got("GET/stats").rows) /\ Mine(Got("GET/accounts").rows)
      <3>1. Fetches(p.name) = <<"GET/stats", "GET/accounts">>
        BY <1>7 DEF Fetches
      <3> HIDE DEF p
      <3>2. 1 \in DOMAIN Fetches(p.name) /\ 2 \in DOMAIN Fetches(p.name) /\ Fetches(p.name)[1] = "GET/stats" /\ Fetches(p.name)[2] = "GET/accounts"
        BY <3>1
      <3> QED
        BY <1>3, <3>2
    <2>2. Loaded(p) = DashboardLoaded(p)
      BY <1>7 DEF Loaded
    <2> HIDE DEF p
    <2>3. Loaded(p) = p \/ (Loaded(p).list = Got("GET/accounts").rows /\ Loaded(p).more = Got("GET/stats").rows)
      BY <1>1, <2>2 DEF DashboardLoaded, PageFields
    <2>4. Belongs(db, LoadingDone(Loaded(p)), tab.token)
      BY <1>1, <1>2, <1>5, <1>6, <1>7, <2>1, <2>3, LoadedTakes DEF Takes
    <2> QED
      BY <2>4 DEF p
  <1>8. ASSUME NEW route, Fetches(p.name) = <<route>>, p.name # "profile",
               Loaded(p) = [p EXCEPT !.list = RowsIf(route, @)]
        PROVE  Belongs(db, LoadingDone(Loaded(p)), tab.token)
    <2> HIDE DEF p
    <2>1. 1 \in DOMAIN Fetches(p.name) /\ Fetches(p.name)[1] = route
      BY <1>8
    <2>2. Mine(RowsIf(route, p.list))
      BY <1>2, <1>3, <1>4, <2>1
    <2>3. Loaded(p).list = RowsIf(route, p.list) /\ Loaded(p).more = p.more
      BY <1>1, <1>8 DEF PageFields
    <2> QED
      BY <1>1, <1>2, <1>5, <1>6, <1>8, <2>2, <2>3, LoadedTakes DEF Takes
  <1>9. CASE p.name \in {"accounts", "transactions", "cards", "loans", "beneficiaries", "support"}
    <2>1. CASE p.name = "accounts"
      BY <1>8, <2>1 DEF Loaded, AccountsLoaded, Fetches
    <2>2. CASE p.name = "transactions"
      BY <1>8, <2>2 DEF Loaded, TransactionsLoaded, Fetches
    <2>3. CASE p.name = "cards"
      BY <1>8, <2>3 DEF Loaded, CardsLoaded, Fetches
    <2>4. CASE p.name = "loans"
      BY <1>8, <2>4 DEF Loaded, LoansLoaded, Fetches
    <2>5. CASE p.name = "beneficiaries"
      BY <1>8, <2>5 DEF Loaded, BeneficiariesLoaded, Fetches
    <2>6. CASE p.name = "support"
      BY <1>8, <2>6 DEF Loaded, SupportLoaded, Fetches
    <2> QED
      BY <1>9, <2>1, <2>2, <2>3, <2>4, <2>5, <2>6
  <1>10. CASE p.name = "transfer"
    <2>1. Fetches(p.name) = <<"GET/accounts", "GET/beneficiaries">> /\ Loaded(p) = TransferLoaded(p)
      BY <1>10 DEF Fetches, Loaded
    <2> HIDE DEF p
    <2>2. /\ 1 \in DOMAIN Fetches(p.name) /\ Fetches(p.name)[1] = "GET/accounts"
          /\ 2 \in DOMAIN Fetches(p.name) /\ Fetches(p.name)[2] = "GET/beneficiaries"
      BY <2>1
    <2>3. Mine(RowsIf("GET/accounts", p.list)) /\ Mine(RowsIf("GET/beneficiaries", p.more))
      BY <1>2, <1>3, <1>4, <2>2
    <2>4. Loaded(p).list = RowsIf("GET/accounts", p.list) /\ Loaded(p).more = RowsIf("GET/beneficiaries", p.more)
      BY <1>1, <2>1 DEF TransferLoaded, PageFields
    <2>5. Belongs(db, LoadingDone(Loaded(p)), tab.token)
      BY <1>1, <1>5, <1>6, <1>10, <2>3, <2>4, LoadedTakes DEF Takes
    <2> QED
      BY <2>5 DEF p
  <1>11. CASE p.name = "profile"
    <2> DEFINE q == Loaded(p)
               first == CHOOSE x \in Got("GET/profile").rows : TRUE
    <2>1. Fetches(p.name) = <<"GET/profile", "GET/security-logs", "GET/settings">> /\ q = ProfileLoaded(p)
      BY <1>11 DEF Fetches, Loaded
    <2> HIDE DEF p
    <2>2. /\ 1 \in DOMAIN Fetches(p.name) /\ Fetches(p.name)[1] = "GET/profile"
          /\ 2 \in DOMAIN Fetches(p.name) /\ Fetches(p.name)[2] = "GET/security-logs"
      BY <2>1
    <2>3. /\ Mine(Got("GET/profile").rows) /\ (Ok("GET/profile") => Got("GET/profile").rows # {})
          /\ Mine(RowsIf("GET/security-logs", p.more))
      BY <1>2, <1>3, <1>4, <2>2
    <2>4. Ok("GET/profile") => RowConcerns(db, first.row, tab.token)
      BY <2>3 DEF Mine
    <2>5. /\ q.list = p.list /\ q.more = RowsIf("GET/security-logs", p.more)
          /\ q.data = IF Ok("GET/profile") THEN first ELSE p.data
      BY <1>1, <2>1 DEF ProfileLoaded, PageFields
    <2>6. DOMAIN q = PageFields /\ q.name = p.name
      BY <1>1, LoadedTakes DEF Takes
    <2> HIDE DEF q, first
    <2>7. Belongs(db, q, tab.token)
      BY <1>1, <1>2, <2>3, <2>4, <2>5, <2>6 DEF Belongs, Mine
    <2>9. Belongs(db, LoadingDone(Loaded(p)), tab.token)
      BY <1>5, <2>6, <2>7 DEF q
    <2> QED
      BY <2>9 DEF p
  <1> QED
    BY <1>1, <1>7, <1>9, <1>10, <1>11 DEF Dashboards, NavItems

LEMMA LoadShows ==
    ASSUME ShowInv, PageStep, LoadAnswered
    PROVE  ShowInv'
  <1> DEFINE p == tab.page
  <1>1. DOMAIN tab = TabFields /\ DOMAIN p = PageFields /\ p.name \in Dashboards /\ Waiting # {}
    BY DEF ShowInv, TabOK, Complete, Waiting, LoadAnswered
  <1>2. DOMAIN calls' = DOMAIN calls /\ \A j \in DOMAIN calls : calls[j].then # "load" \/ j \in Waiting
    BY DEF LoadAnswered, Waiting
  <1>3. Stay
    <2>1. ASSUME NEW j \in DOMAIN calls PROVE (calls'[j] = calls[j] /\ j \notin Waiting) \/ calls'[j].then = None
      <3>1. Forget(j)[j].then = None /\ DOMAIN calls[j] = CallFields
        BY ForgetEffect DEF ShowInv, OwnInv, CallsOK
      <3> QED
        BY <3>1 DEF LoadAnswered, CallFields
    <2>2. \A j \in DOMAIN calls' : ~(j > Len(calls))
      BY <1>2 DEF ShowInv, OwnInv, CallsOK
    <2> QED
      BY <1>2, <2>1, <2>2, CallbacksAssumption DEF Stay, Keeps
  <1>4. CASE /\ \A i \in Waiting : calls[i].at = "answered"
             /\ tab' = [tab EXCEPT !.page = LoadingDone(Loaded(@))]
    <2>1. tab'.page = LoadingDone(Loaded(p)) /\ DOMAIN tab' = TabFields /\ tab'.token = tab.token /\ tab'.crossed = tab.crossed
      BY <1>1, <1>4 DEF TabFields
    <2>2. SamePage
      BY <1>1, <2>1, LoadedTakes DEF SamePage, Takes
    <2> QED
      BY <1>1, <1>3, <1>4, <2>1, <2>2, LoadedOwn, StayShows
  <1>5. CASE tab' = [tab EXCEPT !.page = LoadingDone(@)]
    <2>1. tab'.page = LoadingDone(p) /\ DOMAIN tab' = TabFields /\ tab'.token = tab.token /\ tab'.crossed = tab.crossed
      BY <1>1, <1>5 DEF TabFields
    <2>2. SamePage
      BY <1>1, <2>1, LoadedTakes DEF SamePage, Takes
    <2>3. LoadingDone(p).list = p.list /\ LoadingDone(p).more = p.more /\ LoadingDone(p).data = p.data
      BY <1>1 DEF LoadingDone, PageFields
    <2> QED
      BY <1>3, <2>1, <2>2, <2>3, SameRowsShow
  <1> QED
    BY <1>4, <1>5 DEF LoadAnswered

\* What callback i has at hand: rows of the answer and those it has captured.
LEMMA CallbackOwn ==
    ASSUME ShowInv, ~tab.crossed, tab.token # None, NEW i \in DOMAIN calls,
           calls[i].at = "answered", calls[i].then # None, ~Auth(calls[i]), calls[i].route # "PUT/settings"
    PROVE  \A x \in calls[i].answer.rows \cup calls[i].seen : RowConcerns(db, x.row, tab.token)
  <1>1. WaitsFor(db, calls[i], tab.token) /\ RowsOwn(db, calls[i])
    BY DEF ShowInv, OwnInv
  <1> QED
    BY <1>1 DEF WaitsFor, RowsOwn

LEMMA PageOpens ==
    ASSUME NEW t, DOMAIN t = TabFields, DOMAIN t.page = PageFields, NEW open
    PROVE  LET u == [t EXCEPT !.page.open = open] IN
           /\ DOMAIN u = TabFields /\ DOMAIN u.page = PageFields /\ u.token = t.token /\ u.crossed = t.crossed
           /\ u.page.name = t.page.name /\ u.page.list = t.page.list /\ u.page.more = t.page.more
           /\ u.page.data = t.page.data
  BY DEF TabFields, PageFields

\* A callback that gives the page another list.
LEMMA ListShows ==
    ASSUME ShowInv, PageStep, Stay, NEW list, NEW open, tab' = [tab EXCEPT !.page.list = list, !.page.open = open],
           ~tab.crossed /\ tab.token # None => \A x \in list : RowConcerns(db, x.row, tab.token)
    PROVE  ShowInv'
  <1> DEFINE t == [tab EXCEPT !.page.list = list]
  <1>1. DOMAIN tab = TabFields /\ DOMAIN tab.page = PageFields
    BY DEF ShowInv, TabOK
  <1>2. /\ DOMAIN t = TabFields /\ DOMAIN t.page = PageFields /\ t.token = tab.token /\ t.crossed = tab.crossed
        /\ t.page.name = tab.page.name /\ t.page.list = list /\ t.page.more = tab.page.more
        /\ t.page.data = tab.page.data
    BY <1>1 DEF TabFields, PageFields
  <1> DEFINE u == [t EXCEPT !.page.open = open]
  <1>3. tab' = u
    OBVIOUS
  <1> HIDE DEF t
  <1>6. /\ DOMAIN u = TabFields /\ DOMAIN u.page = PageFields /\ u.token = t.token /\ u.crossed = t.crossed
        /\ u.page.name = t.page.name /\ u.page.list = t.page.list /\ u.page.more = t.page.more
        /\ u.page.data = t.page.data
    BY <1>2, PageOpens
  <1> HIDE DEF u
  <1>4. SamePage /\ tab'.page.list = list /\ tab'.page.more = tab.page.more /\ tab'.page.data = tab.page.data
    BY <1>2, <1>3, <1>6, Zenon DEF SamePage
  <1>5. ~tab.crossed /\ tab.token # None => Belongs(db, tab'.page, tab.token)
    BY <1>4 DEF ShowInv, Belongs, SamePage
  <1> QED
    BY <1>4, <1>5, StayShows

LEMMA RemovedShows ==
    ASSUME ShowInv, PageStep, Stay, NEW list, tab' = [tab EXCEPT !.page.list = list],
           ~tab.crossed /\ tab.token # None => \A x \in list : RowConcerns(db, x.row, tab.token)
    PROVE  ShowInv'
  <1>1. DOMAIN tab = TabFields /\ DOMAIN tab.page = PageFields
    BY DEF ShowInv, TabOK
  <1>2. SamePage /\ tab'.page.list = list /\ tab'.page.more = tab.page.more /\ tab'.page.data = tab.page.data
    BY <1>1 DEF SamePage, TabFields, PageFields
  <1>3. ~tab.crossed /\ tab.token # None => Belongs(db, tab'.page, tab.token)
    BY <1>2 DEF ShowInv, Belongs, SamePage
  <1> QED
    BY <1>2, <1>3, StayShows

LEMMA SavedShows ==
    ASSUME ShowInv, PageStep, Stay, NEW data, NEW open, tab' = [tab EXCEPT !.page.data = data, !.page.open = open],
           ~tab.crossed /\ tab.token # None => RowConcerns(db, data.row, tab.token)
    PROVE  ShowInv'
  <1> DEFINE t == [tab EXCEPT !.page.data = data]
  <1>1. DOMAIN tab = TabFields /\ DOMAIN tab.page = PageFields
    BY DEF ShowInv, TabOK
  <1>2. /\ DOMAIN t = TabFields /\ DOMAIN t.page = PageFields /\ t.token = tab.token /\ t.crossed = tab.crossed
        /\ t.page.name = tab.page.name /\ t.page.list = tab.page.list /\ t.page.more = tab.page.more
        /\ t.page.data = data
    BY <1>1 DEF TabFields, PageFields
  <1> DEFINE u == [t EXCEPT !.page.open = open]
  <1>3. tab' = u
    OBVIOUS
  <1> HIDE DEF t
  <1>6. /\ DOMAIN u = TabFields /\ DOMAIN u.page = PageFields /\ u.token = t.token /\ u.crossed = t.crossed
        /\ u.page.name = t.page.name /\ u.page.list = t.page.list /\ u.page.more = t.page.more
        /\ u.page.data = t.page.data
    BY <1>2, PageOpens
  <1> HIDE DEF u
  <1>4. SamePage /\ tab'.page.list = tab.page.list /\ tab'.page.more = tab.page.more /\ tab'.page.data = data
    BY <1>2, <1>3, <1>6, Zenon DEF SamePage
  <1>5. ~tab.crossed /\ tab.token # None => Belongs(db, tab'.page, tab.token)
    BY <1>4 DEF ShowInv, Belongs, SamePage
  <1> QED
    BY <1>4, <1>5, StayShows

LEMMA SignedInShows ==
    ASSUME ShowInv, PageStep, NEW i \in DOMAIN calls, SignedIn(i)
    PROVE  ShowInv'
  <1> DEFINE t == [tab EXCEPT !.token = NamedBy(i), !.crossed = TRUE]
  <1>1. TabOK /\ calls[i].at = "answered" /\ calls[i].then # "load"
    <2>1. calls[i].route \in {"POST/register", "POST/login"} /\ calls[i].at = "answered"
      BY DEF SignedIn, Answered
    <2> QED
      BY <2>1 DEF ShowInv, Fetched
  <1>2. DOMAIN t = TabFields /\ t.page = tab.page /\ t.crossed = TRUE
    BY <1>1 DEF TabOK, TabFields
  <1>3. CASE calls[i].answer.status # 200
    <2>1. calls' = Forget(i) /\ (tab' = [tab EXCEPT !.page.loading = FALSE, !.page.error = TRUE] \/ tab' = tab)
      BY <1>3 DEF SignedIn, Succeeded
    <2>2. Stay
      BY <1>1, <2>1, ForgetStays
    <2> QED
      BY <1>1, <2>1, <2>2, FlagsStay, SameRowsShow
  <1>4. CASE calls[i].answer.status = 200
    <2>1. Push("dashboard", t, Forget(i))
      BY <1>4 DEF SignedIn, Succeeded, NamedBy
    <2> HIDE DEF t
    <2>2. CASE tab.page.name = "dashboard"
      <3>1. tab' = t /\ calls' = Forget(i)
        BY <1>2, <2>1, <2>2 DEF Push
      <3>2. Stay
        BY <1>1, <3>1, ForgetStays
      <3>3. TabOK' /\ tab'.page.name = tab.page.name /\ tab'.crossed = TRUE
        BY <1>1, <1>2, <3>1 DEF TabOK
      <3> QED
        BY <3>2, <3>3, CrossedShows
    <2>3. CASE tab.page.name # "dashboard"
      <3>1. Mount("dashboard", t, Forget(i)) /\ "dashboard" \in Pages
        BY <1>2, <2>1, <2>3 DEF Push, Pages, Dashboards, NavItems
      <3>2. /\ CallList(Forget(i)) /\ Len(Forget(i)) = Len(calls)
            /\ \A j \in DOMAIN calls : Leaves(calls[j], Forget(i)[j])
        BY <1>1, ForgetLeaves DEF ShowInv, OwnInv
      <3> QED
        BY <1>2, <3>1, <3>2, MountShows
    <2> QED
      BY <2>2, <2>3
  <1> QED
    BY <1>3, <1>4

LEMMA CallbackShows ==
    ASSUME ShowInv, Callback
    PROVE  ShowInv'
  <1>1. PageStep
    BY CallbackSends DEF ShowInv, OwnInv
  <1>2. TabOK /\ DOMAIN tab = TabFields
    BY DEF ShowInv, TabOK
  <1>3. CASE LoadAnswered
    BY <1>1, <1>3, LoadShows
  <1>4. CASE TimerFires
    <2> DEFINE t == [tab EXCEPT !.timers = @ - 1]
    <2>1. Push("transactions", t, calls)
      BY <1>4 DEF TimerFires
    <2>2. DOMAIN t = TabFields
      BY <1>2 DEF TabFields
    <2>3. CASE Mount("transactions", t, calls)
      <3>1. CallList(calls) /\ \A j \in DOMAIN calls : Leaves(calls[j], calls[j])
        BY DEF CallList, CallsOK, Leaves, ShowInv, OwnInv
      <3>2. "transactions" \in Pages
        BY DEF Pages, Dashboards, NavItems
      <3> HIDE DEF t
      <3> QED
        BY <1>1, <2>2, <2>3, <3>1, <3>2, MountShows
    <2>4. CASE tab' = t /\ calls' = calls
      <3>1. Stay
        BY <2>4, SameStays
      <3> QED
        BY <1>1, <1>2, <2>4, <3>1, FlagsStay, SameRowsShow
    <2> QED
      BY <2>1, <2>3, <2>4 DEF Push
  <1>5. ASSUME NEW i \in DOMAIN calls, SignedIn(i) PROVE ShowInv'
    BY <1>1, <1>5, SignedInShows
  <1>6. ASSUME NEW i \in DOMAIN calls, NEW route, Answered(i, route), calls' = Forget(i),
               route \in {"POST/beneficiaries", "DELETE/beneficiaries", "POST/support", "PUT/profile",
                          "PUT/settings", "POST/transfer"}
        PROVE  /\ Stay /\ calls[i].at = "answered" /\ calls[i].then # None /\ ~Auth(calls[i]) /\ calls[i].route = route
    <2>1. calls[i].route = route /\ calls[i].at = "answered" /\ calls[i].then # None /\ ~Auth(calls[i])
      BY <1>6 DEF Answered, Auth
    <2>2. calls[i].then # "load"
      BY <1>6, <2>1 DEF ShowInv, Fetched
    <2> QED
      BY <1>6, <2>1, <2>2, ForgetStays
  <1>7. ASSUME NEW i \in DOMAIN calls, NEW route, Answered(i, route), calls' = Forget(i), tab' = tab,
               route \in {"POST/beneficiaries", "DELETE/beneficiaries", "POST/support", "PUT/profile",
                          "PUT/settings", "POST/transfer"}
        PROVE  ShowInv'
    BY <1>1, <1>2, <1>6, <1>7, FlagsStay, SameRowsShow
  <1>8. ASSUME NEW i \in DOMAIN calls, BeneficiaryAdded(i) PROVE ShowInv'
    <2>1. Answered(i, "POST/beneficiaries") /\ calls' = Forget(i)
      BY <1>8 DEF BeneficiaryAdded
    <2>2. CASE Succeeded(i)
      <3>1. tab' = [tab EXCEPT !.page.list = calls[i].seen \cup calls[i].answer.rows, !.page.open = FALSE]
        BY <1>8, <2>2 DEF BeneficiaryAdded
      <3>2. ~tab.crossed /\ tab.token # None => \A x \in calls[i].seen \cup calls[i].answer.rows : RowConcerns(db, x.row, tab.token)
        BY <1>6, <2>1, CallbackOwn
      <3>3. Stay
        BY <1>6, <2>1
      <3> QED
        BY <1>1, <3>1, <3>2, <3>3, ListShows
    <2> QED
      BY <1>7, <1>8, <2>1, <2>2 DEF BeneficiaryAdded
  <1>9. ASSUME NEW i \in DOMAIN calls, BeneficiaryDeleted(i) PROVE ShowInv'
    <2>1. Answered(i, "DELETE/beneficiaries") /\ calls' = Forget(i)
      BY <1>9 DEF BeneficiaryDeleted
    <2>2. CASE Succeeded(i)
      <3> DEFINE list == {x \in calls[i].seen : Field(x, "id") # calls[i].body.id}
      <3>1. tab' = [tab EXCEPT !.page.list = list]
        BY <1>9, <2>2 DEF BeneficiaryDeleted
      <3>2. list \subseteq calls[i].seen
        OBVIOUS
      <3> HIDE DEF list
      <3> QED
        BY <1>1, <1>6, <2>1, <3>1, <3>2, CallbackOwn, RemovedShows
    <2> QED
      BY <1>7, <1>9, <2>1, <2>2 DEF BeneficiaryDeleted
  <1>10. ASSUME NEW i \in DOMAIN calls, TicketCreated(i) PROVE ShowInv'
    <2>1. Answered(i, "POST/support") /\ calls' = Forget(i)
      BY <1>10 DEF TicketCreated
    <2>2. CASE Succeeded(i)
      <3>1. tab' = [tab EXCEPT !.page.list = calls[i].answer.rows \cup calls[i].seen, !.page.open = FALSE]
        BY <1>10, <2>2 DEF TicketCreated
      <3>2. ~tab.crossed /\ tab.token # None => \A x \in calls[i].answer.rows \cup calls[i].seen : RowConcerns(db, x.row, tab.token)
        BY <1>6, <2>1, CallbackOwn
      <3>3. Stay
        BY <1>6, <2>1
      <3> QED
        BY <1>1, <3>1, <3>2, <3>3, ListShows
    <2> QED
      BY <1>7, <1>10, <2>1, <2>2 DEF TicketCreated
  <1>11. ASSUME NEW i \in DOMAIN calls, ProfileSaved(i) PROVE ShowInv'
    <2> DEFINE first == CHOOSE x \in calls[i].answer.rows : TRUE
    <2>1. Answered(i, "PUT/profile") /\ calls' = Forget(i)
      BY <1>11 DEF ProfileSaved
    <2>2. CASE Succeeded(i)
      <3>1. tab' = [tab EXCEPT !.page.data = first, !.page.open = FALSE]
        BY <1>11, <2>2 DEF ProfileSaved
      <3>2. calls[i].answer.rows # {}
        BY <1>6, <2>1, <2>2 DEF Succeeded, HasRow, ShowInv
      <3>3. first \in calls[i].answer.rows
        BY <3>2
      <3> HIDE DEF first
      <3>4. ~tab.crossed /\ tab.token # None => RowConcerns(db, first.row, tab.token)
        BY <1>6, <2>1, <3>3, CallbackOwn
      <3>5. Stay
        BY <1>6, <2>1
      <3> QED
        BY <1>1, <3>1, <3>4, <3>5, SavedShows
    <2> QED
      BY <1>7, <1>11, <2>1, <2>2 DEF ProfileSaved
  <1>12. ASSUME NEW i \in DOMAIN calls, SettingChanged(i) PROVE ShowInv'
    <2>1. Answered(i, "PUT/settings") /\ calls' = Forget(i)
      BY <1>12 DEF SettingChanged
    <2>2. PICK a : tab' = [tab EXCEPT !.page.settings = a] \/ tab' = tab
      BY <1>12 DEF SettingChanged
    <2> QED
      BY <1>1, <1>2, <1>6, <2>1, <2>2, FlagsStay, SameRowsShow
  <1>13. ASSUME NEW i \in DOMAIN calls, TransferAnswered(i) PROVE ShowInv'
    <2>1. Answered(i, "POST/transfer") /\ calls' = Forget(i)
      BY <1>13 DEF TransferAnswered
    <2>2. CASE Succeeded(i)
      <3>1. PICK n : tab' = [tab EXCEPT !.page.loading = FALSE, !.page.success = TRUE, !.timers = n]
        BY <1>13, <2>2 DEF TransferAnswered
      <3> QED
        BY <1>1, <1>2, <1>6, <2>1, <3>1, FlagsStay, SameRowsShow
    <2>3. CASE ~Succeeded(i)
      <3>1. tab' = [tab EXCEPT !.page.loading = FALSE, !.page.error = TRUE]
        BY <1>13, <2>3 DEF TransferAnswered
      <3> QED
        BY <1>1, <1>2, <1>6, <2>1, <3>1, FlagsStay, SameRowsShow
    <2> QED
      BY <2>2, <2>3
  <1> QED
    BY <1>3, <1>4, <1>5, <1>8, <1>9, <1>10, <1>11, <1>12, <1>13 DEF Callback

LEMMA InitShow == Init => ShowInv
  <1> SUFFICES ASSUME Init PROVE ShowInv
    OBVIOUS
  <1>1. OwnInv /\ DOMAIN calls = {}
    BY InitOwn DEF Init
  <1>2. /\ DOMAIN tab = TabFields /\ tab.page = Mounted("landing") /\ DOMAIN Mounted("landing") = PageFields
        /\ Mounted("landing").name = "landing" /\ Mounted("landing").list = {} /\ Mounted("landing").more = {}
        /\ "landing" \in Pages
    BY DEF Init, TabFields, Mounted, PageFields, Pages
  <1> QED
    BY <1>1, <1>2 DEF ShowInv, TabOK, Complete, Belongs

LEMMA NextShow == ShowInv /\ [Next]_vars => ShowInv'
  <1> SUFFICES ASSUME ShowInv, [Next]_vars PROVE ShowInv'
    OBVIOUS
  <1>1. OwnInv'
    BY NextOwn DEF ShowInv
  <1>2. CASE Serve
    BY <1>2, HandlerShows DEF Serve
  <1>3. CASE Callback
    BY <1>3, CallbackShows
  <1>4. CASE User \/ OtherClient
    BY <1>4, UserShows
  <1>5. CASE \E i \in DOMAIN calls : ConnectionFails(i)
    BY <1>1, <1>5, ConnectionShows
  <1>6. CASE UNCHANGED vars
    BY <1>1, <1>6 DEF vars, apiVars, ShowInv, TabOK
  <1> QED
    BY <1>2, <1>3, <1>4, <1>5, <1>6 DEF Next

\* What a page shows is in its lists, or the profile it has.
LEMMA ViewRows ==
    ASSUME NEW p, p.name \in Pages, NEW x \in View(p).rows
    PROVE  \/ \E y \in p.list \cup p.more : x.row = y.row
           \/ p.name = "profile" /\ p.data # None /\ x = p.data
  <1> USE DEF Shows, Spinner, Blank, Crashed
  <1>1. CASE p.name = "landing"
    BY <1>1 DEF View, LandingView
  <1>2. CASE p.name = "login"
    BY <1>2 DEF View, LoginView
  <1>3. CASE p.name = "register"
    BY <1>3 DEF View, RegisterView
  <1>4. CASE p.name = "dashboard"
    BY <1>4 DEF View, DashboardView, AccountCard
  <1>5. CASE p.name = "accounts"
    BY <1>5 DEF View, AccountsView, AccountCard
  <1>6. CASE p.name = "transactions"
    BY <1>6 DEF View, TransactionsView
  <1>7. CASE p.name = "cards"
    BY <1>7 DEF View, CardsView
  <1>8. CASE p.name = "loans"
    BY <1>8 DEF View, LoansView
  <1>9. CASE p.name = "beneficiaries"
    BY <1>9 DEF View, BeneficiariesView
  <1>10. CASE p.name = "support"
    BY <1>10 DEF View, SupportView
  <1>11. CASE p.name = "profile"
    BY <1>11 DEF View, ProfileView
  <1>12. CASE p.name = "transfer"
    BY <1>12 DEF View, TransferView
  <1> QED
    BY <1>1, <1>2, <1>3, <1>4, <1>5, <1>6, <1>7, <1>8, <1>9, <1>10, <1>11, <1>12
    DEF Pages, AuthPages, Dashboards, NavItems

\* Whatever is answered late, however the user goes from page to page and whoever signs
\* in meanwhile: a page shows rows of the token's user only, because a callback that was
\* sent with another token has gone with its page. (The dashboard that stays under a new
\* token is left out by the property.)
THEOREM PagesShowOwn == Spec => []ShownOwnData
  <1>1. ShowInv => ShownOwnData
    <2> SUFFICES ASSUME ShowInv, tab.token # None, ~tab.crossed, NEW x \in View(tab.page).rows
                 PROVE  Concerns(x.row, tab.token)
      BY DEF ShownOwnData
    <2>1. Belongs(db, tab.page, tab.token) /\ tab.page.name \in Pages
      BY DEF ShowInv, TabOK
    <2>2. RowConcerns(db, x.row, tab.token)
      BY <2>1, ViewRows DEF Belongs
    <2> QED
      BY <2>2, ConcernsIn
  <1> QED
    BY <1>1, InitShow, NextShow, PTL DEF Spec


-----------------------------------------------------------------------------
(* The lists of the pages that write and the tables behind them.            *)

ListPages == {"beneficiaries", "support"}
WritesOf(name) == IF name = "support" THEN {"POST/support"} ELSE {"POST/beneficiaries", "DELETE/beneficiaries"}
FetchOf(name) == IF name = "support" THEN "GET/support" ELSE "GET/beneficiaries"

StoredIn(d, name, u) == {r \in (IF name = "support" THEN d.tickets ELSE d.beneficiaries) : r.owner = u}
IdsOf(rows) == {r.id : r \in rows}
RowIds(list) == {x.row.id : x \in list}
RowOf(i, u) == [id |-> i, owner |-> u]

\* Neither table of a list changes.
ListsSame == db'.beneficiaries = db.beneficiaries /\ db'.tickets = db.tickets

LEMMA ListsByRoute ==
    ASSUME NEW i, Handle(i), calls[i].user # None
    PROVE  /\ calls[i].route = "POST/beneficiaries" => PostBeneficiary(i)
           /\ calls[i].route = "DELETE/beneficiaries" => DeleteBeneficiary(i)
           /\ calls[i].route = "POST/support" => PostTicket(i)
           /\ calls[i].route = "GET/beneficiaries" => GetBeneficiaries(i)
           /\ calls[i].route = "GET/support" => GetTickets(i)
  <1> USE DEF At, Authorized
  <1>1. CASE PostRegister(i) \/ PostLogin(i)
    BY <1>1 DEF PostRegister, PostLogin
  <1>2. CASE Unauthorized(i) \/ GetAccounts(i) \/ GetCards(i) \/ GetTransactions(i) \/ GetStats(i)
    BY <1>2 DEF Unauthorized, GetUserIdFromRequest, GetAccounts, GetCards, GetTransactions, GetStats
  <1>3. CASE GetLoans(i) \/ GetLoanPayments(i) \/ GetBeneficiaries(i) \/ PostBeneficiary(i) \/ DeleteBeneficiary(i)
    BY <1>3 DEF GetLoans, GetLoanPayments, GetBeneficiaries, PostBeneficiary, DeleteBeneficiary
  <1>4. CASE GetTickets(i) \/ PostTicket(i) \/ GetProfile(i) \/ PutProfile(i) \/ GetSettings(i) \/ PutSettings(i)
    BY <1>4 DEF GetTickets, PostTicket, GetProfile, PutProfile, GetSettings, PutSettings
  <1>5. CASE GetSecurityLogs(i) \/ PostTransfer(i)
    BY <1>5 DEF GetSecurityLogs, PostTransfer, UndoTransfer
  <1> QED
    BY <1>1, <1>2, <1>3, <1>4, <1>5 DEF Handle

\* The writes to the lists; nothing else changes their tables.
ListsMove(i) ==
  \/ ListsSame
  \/ /\ PostBeneficiary(i) /\ calls'[i].at = "answered"
     /\ db'.beneficiaries = db.beneficiaries \cup {RowOf(i, calls[i].user)} /\ db'.tickets = db.tickets
  \/ /\ PostTicket(i) /\ calls'[i].at = "answered"
     /\ db'.tickets = db.tickets \cup {RowOf(i, calls[i].user)} /\ db'.beneficiaries = db.beneficiaries
  \/ /\ DeleteBeneficiary(i) /\ calls[i].at = "delete"
     /\ db'.beneficiaries = {b \in db.beneficiaries : ~(b.id = calls[i].body.id /\ b.owner = calls[i].user)}
     /\ db'.tickets = db.tickets

LEMMA HandlerLists ==
    ASSUME TablesOK(db), CallsOK, NEW i \in DOMAIN calls, Handle(i)
    PROVE  ListsMove(i)
  <1>1. CASE db' = db
    BY <1>1 DEF ListsMove, ListsSame
  <1>2. ASSUME NEW s \in Tables \ {"beneficiaries", "tickets"}, NEW X, db' = [db EXCEPT ![s] = X] PROVE ListsMove(i)
    <2>1. db'.beneficiaries = db.beneficiaries /\ db'.tickets = db.tickets
      BY <1>2 DEF TablesOK, Tables
    <2> QED
      BY <2>1 DEF ListsMove, ListsSame
  <1>3. CASE ReadOnly(i)
    BY <1>1, <1>3, ReadsChangeNothing
  <1>4. CASE PostRegister(i)
    <2>1. \/ db' = db \/ \E X : db' = [db EXCEPT !["users"] = X]
          \/ \E X : db' = [db EXCEPT !["accounts"] = X]
      BY <1>4 DEF PostRegister, ExecuteQuery, ExecuteWriteQuery, Refuse
    <2> QED
      BY <1>1, <1>2, <2>1 DEF Tables
  <1>5. CASE PutProfile(i)
    <2>1. db' = db \/ \E X : db' = [db EXCEPT !["users"] = X]
      BY <1>5 DEF PutProfile, ExecuteWriteQuery
    <2> QED
      BY <1>1, <1>2, <2>1 DEF Tables
  <1>6. CASE PostTransfer(i)
    <2>1. \/ db' = db \/ \E X : db' = [db EXCEPT !["accounts"] = X]
          \/ \E X : db' = [db EXCEPT !["transactions"] = X]
      BY <1>6, TransferSteps DEF TransferStep, Write, Moved
    <2> QED
      BY <1>1, <1>2, <2>1 DEF Tables
  <1>7. /\ \A status : Respond(i, status) => calls'[i].at = "answered"
        /\ \A rows : RespondRows(i, rows) => calls'[i].at = "answered"
    BY StepEnds DEF Answers, Reaches
  <1>8. CASE PostBeneficiary(i)
    <2>1. \/ db' = db
          \/ db' = [db EXCEPT !.beneficiaries = @ \cup {NewRow(i)}] /\ calls'[i].at = "answered"
      BY <1>7, <1>8 DEF PostBeneficiary, ExecuteWriteQuery, Refuse
    <2> QED
      BY <1>1, <1>8, <2>1 DEF ListsMove, NewRow, RowOf, TablesOK, Tables
  <1>9. CASE PostTicket(i)
    <2>1. \/ db' = db
          \/ db' = [db EXCEPT !.tickets = @ \cup {NewRow(i)}] /\ calls'[i].at = "answered"
      BY <1>7, <1>9 DEF PostTicket, ExecuteWriteQuery, Refuse
    <2> QED
      BY <1>1, <1>9, <2>1 DEF ListsMove, NewRow, RowOf, TablesOK, Tables
  <1>10. CASE DeleteBeneficiary(i)
    <2> DEFINE mine == {b \in db.beneficiaries : b.id = calls[i].body.id /\ b.owner = calls[i].user}
    <2>1. \/ db' = db
          \/ db' = [db EXCEPT !.beneficiaries = @ \ mine] /\ calls[i].at = "delete"
      BY <1>10 DEF DeleteBeneficiary, ExecuteQuery, ExecuteWriteQuery, Refuse, At
    <2>2. db.beneficiaries \ mine = {b \in db.beneficiaries : ~(b.id = calls[i].body.id /\ b.owner = calls[i].user)}
      OBVIOUS
    <2> HIDE DEF mine
    <2>3. db' = db \/ /\ db'.beneficiaries = db.beneficiaries \ mine /\ db'.tickets = db.tickets
                      /\ calls[i].at = "delete"
      BY <2>1 DEF TablesOK, Tables
    <2> QED
      BY <1>1, <1>10, <2>2, <2>3 DEF ListsMove
  <1> QED
    BY <1>3, <1>4, <1>5, <1>6, <1>8, <1>9, <1>10 DEF Handle, ReadOnly

\* A write under another name, or to the other table, is not seen on the page.
LEMMA StoredElsewhere ==
    ASSUME NEW i, ListsMove(i), NEW name \in ListPages, NEW u,
           calls[i].user # u \/ calls[i].route \notin WritesOf(name)
    PROVE  StoredIn(db', name, u) = StoredIn(db, name, u)
  <1>1. CASE ListsSame
    BY <1>1 DEF ListsSame, StoredIn
  <1>2. CASE /\ PostBeneficiary(i)
             /\ db'.beneficiaries = db.beneficiaries \cup {RowOf(i, calls[i].user)} /\ db'.tickets = db.tickets
    <2>1. calls[i].route = "POST/beneficiaries"
      BY <1>2 DEF PostBeneficiary, Authorized, At
    <2>2. RowOf(i, calls[i].user).owner = calls[i].user
      BY DEF RowOf
    <2> QED
      BY <1>2, <2>1, <2>2 DEF StoredIn, WritesOf, ListPages
  <1>3. CASE /\ PostTicket(i)
             /\ db'.tickets = db.tickets \cup {RowOf(i, calls[i].user)} /\ db'.beneficiaries = db.beneficiaries
    <2>1. calls[i].route = "POST/support"
      BY <1>3 DEF PostTicket, Authorized, At
    <2>2. RowOf(i, calls[i].user).owner = calls[i].user
      BY DEF RowOf
    <2> QED
      BY <1>3, <2>1, <2>2 DEF StoredIn, WritesOf, ListPages
  <1>4. CASE /\ DeleteBeneficiary(i)
             /\ db'.beneficiaries = {b \in db.beneficiaries : ~(b.id = calls[i].body.id /\ b.owner = calls[i].user)}
             /\ db'.tickets = db.tickets
    <2>1. calls[i].route = "DELETE/beneficiaries"
      BY <1>4 DEF DeleteBeneficiary, Authorized, At
    <2> QED
      BY <1>4, <2>1 DEF StoredIn, WritesOf, ListPages
  <1> QED
    BY <1>1, <1>2, <1>3, <1>4 DEF ListsMove

\* What a write of the page's own comes to when nothing fails.
OwnWrite(stored, new, u, i) ==
  \/ new = stored /\ calls'[i].at = "answered" /\ calls'[i].answer.status # 200
  \/ /\ new = stored /\ calls'[i].at = "delete"
     /\ calls[i].route = "DELETE/beneficiaries" /\ calls[i].body.id # Undefined
  \/ /\ calls[i].route # "DELETE/beneficiaries" /\ calls[i].at = "sent"
     /\ new = stored \cup {RowOf(i, u)}
     /\ calls'[i].at = "answered" /\ calls'[i].answer.status = 200 /\ calls'[i].answer.rows = Plain({RowOf(i, u)})
  \/ /\ calls[i].route = "DELETE/beneficiaries" /\ calls[i].at = "delete"
     /\ new = {r \in stored : r.id # calls[i].body.id}
     /\ calls'[i].at = "answered" /\ calls'[i].answer.status = 200

LEMMA OwnWrites ==
    ASSUME TablesOK(db), CallsOK, NEW i \in DOMAIN calls, Handle(i), NEW name \in ListPages, NEW u, u # None,
           calls[i].user = u, calls[i].route \in WritesOf(name), faults \in Int, faults' = faults
    PROVE  OwnWrite(StoredIn(db, name, u), StoredIn(db', name, u), u, i)
  <1>1. /\ \A status : Respond(i, status) => calls'[i].at = "answered" /\ calls'[i].answer.status = status
        /\ \A rows : RespondRows(i, rows) =>
             calls'[i].at = "answered" /\ calls'[i].answer.status = 200 /\ calls'[i].answer.rows = rows
        /\ \A at, loc : GoOn(i, at, loc) => calls'[i].at = at
    BY StepEnds DEF Answers, Continues, Reaches
  <1>2. ~Fault
    BY DEF Fault
  <1>3. NewRow(i) = RowOf(i, u)
    BY DEF NewRow, RowOf
  <1>4. CASE calls[i].route = "POST/beneficiaries"
    <2>1. PostBeneficiary(i) /\ calls[i].at = "sent" /\ name = "beneficiaries"
      BY <1>4, ListsByRoute DEF PostBeneficiary, Authorized, At, WritesOf, ListPages
    <2>2. \/ db' = db /\ Respond(i, 400)
          \/ db' = [db EXCEPT !.beneficiaries = @ \cup {RowOf(i, u)}] /\ RespondRows(i, Plain({RowOf(i, u)}))
      BY <1>2, <1>3, <2>1 DEF PostBeneficiary, ExecuteWriteQuery, Refuse
    <2>3. CASE db' = db /\ Respond(i, 400)
      BY <1>1, <2>3 DEF OwnWrite
    <2>4. CASE db' = [db EXCEPT !.beneficiaries = @ \cup {RowOf(i, u)}] /\ RespondRows(i, Plain({RowOf(i, u)}))
      <3>1. db'.beneficiaries = db.beneficiaries \cup {RowOf(i, u)} /\ RowOf(i, u).owner = u
        BY <2>4 DEF TablesOK, Tables, RowOf
      <3>2. StoredIn(db', name, u) = StoredIn(db, name, u) \cup {RowOf(i, u)}
        BY <2>1, <3>1 DEF StoredIn
      <3> QED
        BY <1>1, <1>4, <2>1, <2>4, <3>2 DEF OwnWrite
    <2> QED
      BY <2>2, <2>3, <2>4
  <1>5. CASE calls[i].route = "POST/support"
    <2>1. PostTicket(i) /\ calls[i].at = "sent" /\ name = "support"
      BY <1>5, ListsByRoute DEF PostTicket, Authorized, At, WritesOf, ListPages
    <2>2. \/ db' = db /\ Respond(i, 400)
          \/ db' = [db EXCEPT !.tickets = @ \cup {RowOf(i, u)}] /\ RespondRows(i, Plain({RowOf(i, u)}))
      BY <1>2, <1>3, <2>1 DEF PostTicket, ExecuteWriteQuery, Refuse
    <2>3. CASE db' = db /\ Respond(i, 400)
      BY <1>1, <2>3 DEF OwnWrite
    <2>4. CASE db' = [db EXCEPT !.tickets = @ \cup {RowOf(i, u)}] /\ RespondRows(i, Plain({RowOf(i, u)}))
      <3>1. db'.tickets = db.tickets \cup {RowOf(i, u)} /\ RowOf(i, u).owner = u
        BY <2>4 DEF TablesOK, Tables, RowOf
      <3>2. StoredIn(db', name, u) = StoredIn(db, name, u) \cup {RowOf(i, u)}
        BY <2>1, <3>1 DEF StoredIn
      <3> QED
        BY <1>1, <1>5, <2>1, <2>4, <3>2 DEF OwnWrite
    <2> QED
      BY <2>2, <2>3, <2>4
  <1>6. CASE calls[i].route = "DELETE/beneficiaries"
    <2> DEFINE id == calls[i].body.id
               mine == {b \in db.beneficiaries : b.id = id /\ b.owner = u}
    <2>1. DeleteBeneficiary(i) /\ name = "beneficiaries"
      BY <1>6, ListsByRoute DEF WritesOf, ListPages
    <2>2. \/ db' = db /\ (Respond(i, 400) \/ Respond(i, 404))
          \/ db' = db /\ id # Undefined /\ GoOn(i, "delete", None)
          \/ calls[i].at = "delete" /\ db' = [db EXCEPT !.beneficiaries = @ \ mine] /\ RespondRows(i, {})
      BY <1>2, <2>1 DEF DeleteBeneficiary, ExecuteQuery, ExecuteWriteQuery, Refuse, At
    <2>3. CASE db' = db /\ (Respond(i, 400) \/ Respond(i, 404))
      BY <1>1, <2>3 DEF OwnWrite
    <2>4. CASE db' = db /\ id # Undefined /\ GoOn(i, "delete", None)
      BY <1>1, <1>6, <2>4 DEF OwnWrite
    <2>5. CASE calls[i].at = "delete" /\ db' = [db EXCEPT !.beneficiaries = @ \ mine] /\ RespondRows(i, {})
      <3>1. db'.beneficiaries = db.beneficiaries \ mine
        BY <2>5 DEF TablesOK, Tables
      <3>2. StoredIn(db', name, u) = {r \in StoredIn(db, name, u) : r.id # id}
        BY <2>1, <3>1 DEF StoredIn
      <3> QED
        BY <1>1, <1>6, <2>5, <3>2 DEF OwnWrite
    <2> QED
      BY <2>2, <2>3, <2>4, <2>5
  <1> QED
    BY <1>4, <1>5, <1>6 DEF WritesOf, ListPages

\* The list a page fetches is the stored one when nothing fails.
LEMMA OwnFetch ==
    ASSUME CallsOK, NEW i \in DOMAIN calls, Handle(i), NEW name \in ListPages, NEW u, u # None,
           calls[i].user = u, calls[i].route = FetchOf(name), faults \in Int, faults' = faults
    PROVE  /\ calls[i].at = "sent" /\ db' = db /\ calls'[i].at = "answered"
           /\ calls'[i].answer.status = 200 /\ calls'[i].answer.rows = Star(StoredIn(db, name, u))
  <1>1. \A rows : RespondRows(i, rows) =>
          calls'[i].at = "answered" /\ calls'[i].answer.status = 200 /\ calls'[i].answer.rows = rows
    BY StepEnds DEF Answers, Reaches
  <1>2. ~Fault
    BY DEF Fault
  <1>3. CASE name = "beneficiaries"
    <2>1. GetBeneficiaries(i)
      BY <1>3, ListsByRoute DEF FetchOf
    <2>2. StoredIn(db, name, u) = {b \in db.beneficiaries : b.owner = calls[i].user}
      BY <1>3 DEF StoredIn
    <2>3. calls[i].at = "sent" /\ db' = db /\ RespondRows(i, Star(StoredIn(db, name, u)))
      BY <1>2, <2>1, <2>2 DEF GetBeneficiaries, AnswersRows, ExecuteQuery, Authorized, At
    <2> QED
      BY <1>1, <2>3
  <1>4. CASE name = "support"
    <2>1. GetTickets(i)
      BY <1>4, ListsByRoute DEF FetchOf
    <2>2. StoredIn(db, name, u) = {b \in db.tickets : b.owner = calls[i].user}
      BY <1>4 DEF StoredIn
    <2>3. calls[i].at = "sent" /\ db' = db /\ RespondRows(i, Star(StoredIn(db, name, u)))
      BY <1>2, <2>1, <2>2 DEF GetTickets, AnswersRows, ExecuteQuery, Authorized, At
    <2> QED
      BY <1>1, <2>3
  <1> QED
    BY <1>3, <1>4 DEF ListPages

-----------------------------------------------------------------------------
(* A list in step, followed from the form to the row and back.              *)

\* What was loaded has other ids than what was added to the page later.
TwoKinds(list) == \A x, y \in list : x.star /\ ~y.star => x.row.id # y.row.id

\* How far the one write under way has got, and what the page must still make of it.
Underway(stored, list, u, i, c) ==
  \/ /\ c.at \in {"sent", "delete"} \/ (c.at = "answered" /\ c.answer.status # 200)
     /\ RowIds(list) = IdsOf(stored)
  \/ /\ c.at = "answered" /\ c.answer.status = 200 /\ c.route # "DELETE/beneficiaries"
     /\ c.answer.rows = Plain({RowOf(i, u)})
     /\ IdsOf(stored) = RowIds(list) \cup {i} /\ i \notin RowIds(list)
  \/ /\ c.at = "answered" /\ c.answer.status = 200 /\ c.route = "DELETE/beneficiaries"
     /\ IdsOf(stored) = RowIds(list) \ {c.body.id}

\* A removal names a row of the list by a plain id.
NamesRow(list, c) ==
  c.route = "DELETE/beneficiaries" =>
    /\ \E x \in list : c.body.id = Field(x, "id")
    /\ c.at = "delete" \/ (c.at = "answered" /\ c.answer.status = 200) => c.body.id # Undefined

LoadOk(stored, name, u, c) ==
  /\ c.route = FetchOf(name) /\ c.user = u
  /\ \/ c.at = "sent" /\ c.answer = NoAnswer
     \/ c.at = "answered" /\ c.answer.status = 200 /\ c.answer.rows = Star(stored)

CallInStep(stored, p, u, i, c) ==
  /\ c.then \in {None, "answer", "load"} \/ Auth(c)
  /\ c.at \notin {"answered", "done"} /\ c.route \in ListWrites /\ c.user = u => c.then = "answer"
  /\ c.then = "load" => p.loading /\ LoadOk(stored, p.name, u, c)
  /\ c.then = "answer" =>
       /\ ~p.loading /\ c.user = u /\ c.seen = p.list /\ c.route \in WritesOf(p.name)
       /\ Underway(stored, p.list, u, i, c) /\ NamesRow(p.list, c)

InStep(stored, p, u, cs) ==
  /\ \A i \in DOMAIN cs : CallInStep(stored, p, u, i, cs[i])
  /\ \A i, j \in DOMAIN cs : cs[i].then = "answer" /\ cs[j].then = "answer" => i = j
  /\ ~p.loading /\ (\A i \in DOMAIN cs : cs[i].then # "answer") => RowIds(p.list) = IdsOf(stored)
  /\ TwoKinds(p.list)

\* Ids of requests are those of rows only once the request is answered.
RowsKnown(d, cs) ==
  \A r \in d.beneficiaries \cup d.tickets :
    r.id \in Nat => r.id \in DOMAIN cs /\ cs[r.id].at \in {"answered", "done"}

\* A list whose user is the only one to write it, one write at a time.
Alone ==
  /\ tab.page.name \in ListPages /\ ~tab.page.overlap
  /\ faults = scene.faults /\ tab.token # None
  /\ \A r \in scene.direct : r.route \in ListWrites => r.user # tab.token

ListAgrees == Alone => InStep(StoredIn(db, tab.page.name, tab.token), tab.page, tab.token, calls)

ListInv == ShowInv /\ RegInv /\ RowsKnown(db, calls) /\ ListAgrees

LEMMA InitList == Init => ListInv
  <1> SUFFICES ASSUME Init PROVE ListInv
    OBVIOUS
  <1>1. tab.page.name = "landing"
    BY DEF Init, Mounted
  <1>2. RowsKnown(db, calls)
    BY ScenesAssumption DEF Init, Sound, RowsKnown
  <1> QED
    BY <1>1, <1>2, InitShow, InitReg DEF ListInv, ListAgrees, Alone, ListPages

\* Rows that are there have come from requests that are answered.
LEMMA PageKeepsKnown ==
    ASSUME CallsOK, RowsKnown(db, calls), PageStep
    PROVE  RowsKnown(db', calls')
  <1>1. \A j \in DOMAIN calls : j \in DOMAIN calls' /\ Leaves(calls[j], calls'[j])
    BY DEF PageStep, Sends, CallsOK
  <1>2. \A j \in DOMAIN calls : calls[j].at \in {"answered", "done"} => calls'[j].at \in {"answered", "done"}
    BY <1>1 DEF Leaves
  <1> QED
    BY <1>1, <1>2 DEF RowsKnown, PageStep

LEMMA HandlerKeepsKnown ==
    ASSUME CallsOK, TablesOK(db), RowsKnown(db, calls), NEW i \in DOMAIN calls, Handle(i)
    PROVE  RowsKnown(db', calls') /\ \A r \in db.beneficiaries \cup db.tickets : r.id # i
  <1>1. /\ DOMAIN calls' = DOMAIN calls /\ i \in Nat /\ Pending(i)
        /\ \A j \in DOMAIN calls : j # i => calls'[j] = calls[j]
    BY HandlerMoves DEF Moves, Advances, Reaches, CallsOK
  <1>2. \A r \in db.beneficiaries \cup db.tickets : r.id # i
    BY <1>1 DEF RowsKnown, Pending
  <1>3. RowsKnown(db, calls')
    BY <1>1, <1>2 DEF RowsKnown
  <1>4. ListsMove(i)
    BY HandlerLists
  <1>5. RowOf(i, calls[i].user).id = i
    BY DEF RowOf
  <1>6. \A r \in db'.beneficiaries \cup db'.tickets :
          r \in db.beneficiaries \cup db.tickets \/ (r.id = i /\ calls'[i].at = "answered")
    BY <1>4, <1>5 DEF ListsMove, ListsSame
  <1> QED
    BY <1>1, <1>2, <1>3, <1>6 DEF RowsKnown

LEMMA IdsAdded ==
    ASSUME NEW stored, NEW i, NEW u
    PROVE  IdsOf(stored \cup {RowOf(i, u)}) = IdsOf(stored) \cup {i}
  <1>1. RowOf(i, u).id = i
    BY DEF RowOf
  <1> HIDE DEF RowOf
  <1>2. \A x : x \in IdsOf(stored \cup {RowOf(i, u)}) <=> x \in IdsOf(stored) \/ x = RowOf(i, u).id
    BY DEF IdsOf
  <1> QED
    BY <1>1, <1>2

LEMMA IdsLoaded ==
    ASSUME NEW stored
    PROVE  RowIds(Star(stored)) = IdsOf(stored) /\ TwoKinds(Star(stored))
  <1>1. \A x : x \in RowIds(Star(stored)) <=> \E r \in stored : x = r.id
    <2> DEFINE s(r) == [row |-> r, star |-> TRUE]
    <2>1. Star(stored) = {s(r) : r \in stored} /\ \A r : s(r).row = r
      BY DEF Star
    <2> HIDE DEF s
    <2> QED
      BY <2>1 DEF RowIds
  <1>2. \A x : x \in IdsOf(stored) <=> \E r \in stored : x = r.id
    BY DEF IdsOf
  <1>3. \A y \in Star(stored) : y.star
    BY DEF Star
  <1> QED
    BY <1>1, <1>2, <1>3 DEF TwoKinds

LEMMA ListAdded ==
    ASSUME NEW list, NEW i, NEW u, TwoKinds(list), i \notin RowIds(list)
    PROVE  /\ RowIds(list \cup Plain({RowOf(i, u)})) = RowIds(list) \cup {i}
           /\ TwoKinds(list \cup Plain({RowOf(i, u)}))
  <1> DEFINE y == [row |-> RowOf(i, u), star |-> FALSE]
  <1>1. Plain({RowOf(i, u)}) = {y} /\ y.row.id = i /\ ~y.star
    BY DEF Plain, RowOf
  <1> HIDE DEF y
  <1>2. \A x : x \in RowIds(list \cup {y}) <=> x \in RowIds(list) \/ x = i
    BY <1>1 DEF RowIds
  <1>3. \A x \in list : x.row.id # i
    BY DEF RowIds
  <1>4. TwoKinds(list \cup {y})
    BY <1>1, <1>3 DEF TwoKinds
  <1> QED
    BY <1>1, <1>2, <1>4

LEMMA ListRemoved ==
    ASSUME NEW list, TwoKinds(list), NEW id, id # Undefined, \E x \in list : id = Field(x, "id")
    PROVE  LET kept == {x \in list : Field(x, "id") # id} IN
           RowIds(kept) = RowIds(list) \ {id} /\ TwoKinds(kept)
  <1> DEFINE kept == {x \in list : Field(x, "id") # id}
  <1>1. PICK y \in list : ~y.star /\ y.row.id = id
    BY DEF Field
  <1>2. ASSUME NEW x \in list PROVE Field(x, "id") # id <=> x.row.id # id
    <2>1. CASE x.star
      BY <1>1, <2>1 DEF Field, TwoKinds
    <2>2. CASE ~x.star
      BY <2>2 DEF Field
    <2> QED
      BY <2>1, <2>2
  <1>3. kept = {x \in list : x.row.id # id}
    BY <1>2
  <1>4. RowIds(kept) = RowIds(list) \ {id}
    BY <1>3 DEF RowIds
  <1>5. TwoKinds(kept)
    BY DEF TwoKinds
  <1> QED
    BY <1>4, <1>5

\* One step of one handler under the page.
LEMMA HandlerInStep ==
    ASSUME ListInv, Alone, NEW i \in DOMAIN calls, Handle(i), UNCHANGED <<scene, tab>>, faults' = faults
    PROVE  InStep(StoredIn(db', tab.page.name, tab.token), tab.page, tab.token, calls')
  <1> DEFINE p == tab.page
             u == tab.token
             stored == StoredIn(db, p.name, u)
             new == StoredIn(db', p.name, u)
             c == calls[i]
             e == calls'[i]
  <1>1. /\ CallsOK /\ TablesOK(db) /\ faults \in Int /\ RowsKnown(db, calls)
        /\ p.name \in ListPages /\ u # None /\ InStep(stored, p, u, calls)
    BY DEF ListInv, ListAgrees, ShowInv, OwnInv, RegInv, Alone
  <1>2. /\ DOMAIN calls' = DOMAIN calls /\ c.at \notin {"answered", "done"}
        /\ \A j \in DOMAIN calls : j # i => calls'[j] = calls[j]
        /\ e.route = c.route /\ e.user = c.user /\ e.body = c.body /\ e.then = c.then /\ e.seen = c.seen
    BY <1>1, HandlerMoves DEF Moves, Advances, Reaches, SameRequest, CallsOK, Pending
  <1>3. ListsMove(i)
    BY <1>1, HandlerLists
  <1>4. CallInStep(stored, p, u, i, c)
    BY <1>1 DEF InStep
  <1>5. CASE c.then = "answer"
    <2>1. /\ c.user = u /\ c.route \in WritesOf(p.name) /\ ~p.loading /\ c.seen = p.list
          /\ Underway(stored, p.list, u, i, c) /\ NamesRow(p.list, c)
      BY <1>4, <1>5 DEF CallInStep
    <2>2. OwnWrite(stored, new, u, i)
      BY <1>1, <2>1, OwnWrites
    <2>3. RowIds(p.list) = IdsOf(stored) /\ c.at \in {"sent", "delete"}
      BY <1>2, <2>1 DEF Underway
    <2>4. i \notin IdsOf(stored)
      BY <1>1, HandlerKeepsKnown DEF IdsOf, StoredIn
    <2>5. Underway(new, p.list, u, i, e) /\ NamesRow(p.list, e)
      <3>1. CASE new = stored /\ e.at = "answered" /\ e.answer.status # 200
        BY <1>2, <2>1, <2>3, <3>1 DEF Underway, NamesRow
      <3>2. CASE /\ new = stored /\ e.at = "delete"
                 /\ c.route = "DELETE/beneficiaries" /\ c.body.id # Undefined
        BY <1>2, <2>1, <2>3, <3>2 DEF Underway, NamesRow
      <3>3. CASE /\ c.route # "DELETE/beneficiaries" /\ c.at = "sent"
                 /\ new = stored \cup {RowOf(i, u)}
                 /\ e.at = "answered" /\ e.answer.status = 200 /\ e.answer.rows = Plain({RowOf(i, u)})
        <4>1. IdsOf(new) = IdsOf(stored) \cup {i}
          <5> HIDE DEF stored, new, u
          <5> QED
            BY <3>3, IdsAdded
        <4> QED
          BY <1>2, <2>1, <2>3, <2>4, <3>3, <4>1 DEF Underway, NamesRow
      <3>4. CASE /\ c.route = "DELETE/beneficiaries" /\ c.at = "delete"
                 /\ new = {r \in stored : r.id # c.body.id}
                 /\ e.at = "answered" /\ e.answer.status = 200
        <4>1. IdsOf(new) = IdsOf(stored) \ {c.body.id}
          <5> HIDE DEF stored, new
          <5> QED
            BY <3>4 DEF IdsOf
        <4> QED
          BY <1>2, <2>1, <2>3, <3>4, <4>1 DEF Underway, NamesRow
      <3> QED
        BY <2>2, <3>1, <3>2, <3>3, <3>4 DEF OwnWrite
    <2>6. CallInStep(new, p, u, i, e)
      BY <1>2, <1>4, <1>5, <2>1, <2>5, CallbacksAssumption DEF CallInStep, Auth
    <2>7. ASSUME NEW j \in DOMAIN calls, j # i PROVE CallInStep(new, p, u, j, calls[j])
      <3>1. CallInStep(stored, p, u, j, calls[j]) /\ calls[j].then # "answer"
        BY <1>1, <1>5, <2>7 DEF InStep
      <3>2. calls[j].then # "load"
        BY <2>1, <3>1 DEF CallInStep
      <3> QED
        BY <3>1, <3>2 DEF CallInStep
    <2>8. InStep(new, p, u, calls')
      <3> HIDE DEF p, u, stored, new
      <3> QED
        BY <1>1, <1>2, <1>5, <2>6, <2>7 DEF InStep
    <2> QED
      BY <2>8
  <1>6. CASE c.then # "answer"
    <2>1. c.user = u => c.route \notin ListWrites
      BY <1>2, <1>4, <1>6 DEF CallInStep
    <2>2. new = stored
      <3>1. WritesOf(p.name) \subseteq ListWrites
        BY DEF WritesOf, ListWrites
      <3> HIDE DEF p, u
      <3> QED
        BY <1>1, <1>3, <2>1, <3>1, StoredElsewhere
    <2>3. CallInStep(stored, p, u, i, e)
      <3>1. c.then = "load" => LoadOk(stored, p.name, u, e)
        <4> SUFFICES ASSUME c.then = "load" PROVE LoadOk(stored, p.name, u, e)
          OBVIOUS
        <4>1. c.user = u /\ c.route = FetchOf(p.name)
          BY <1>4 DEF CallInStep, LoadOk
        <4>2. e.at = "answered" /\ e.answer.status = 200 /\ e.answer.rows = Star(stored)
          BY <1>1, <4>1, OwnFetch
        <4> QED
          BY <1>2, <4>1, <4>2 DEF LoadOk
      <3>2. e.then \in {None, "answer", "load"} \/ Auth(e)
        BY <1>2, <1>4 DEF CallInStep, Auth
      <3> QED
        BY <1>2, <1>4, <1>6, <2>1, <3>1, <3>2 DEF CallInStep
    <2>4. InStep(new, p, u, calls')
      <3> HIDE DEF p, u, stored, new
      <3> QED
        BY <1>1, <1>2, <2>2, <2>3 DEF InStep
    <2> QED
      BY <2>4
  <1> QED
    BY <1>5, <1>6

\* A page with the same list.
SameList(p, q) == q.name = p.name /\ q.loading = p.loading /\ q.list = p.list

LEMMA PageMoves ==
    ASSUME TabOK
    PROVE  LET Same == /\ tab'.token = tab.token /\ tab'.page.name = tab.page.name
                       /\ tab'.page.loading = tab.page.loading IN
           /\ \A a : tab' = [tab EXCEPT !.page.open = a] =>
                Same /\ tab'.page.list = tab.page.list /\ tab'.page.overlap = tab.page.overlap
           /\ \A a : tab' = [tab EXCEPT !.page.overlap = a] =>
                Same /\ tab'.page.list = tab.page.list /\ tab'.page.overlap = a
           /\ \A a : tab' = [tab EXCEPT !.page.list = a] =>
                Same /\ tab'.page.list = a /\ tab'.page.overlap = tab.page.overlap
           /\ \A a, b : tab' = [tab EXCEPT !.page.list = a, !.page.open = b] =>
                Same /\ tab'.page.list = a /\ tab'.page.overlap = tab.page.overlap
  <1> DEFINE Same == /\ tab'.token = tab.token /\ tab'.page.name = tab.page.name
                     /\ tab'.page.loading = tab.page.loading
  <1> USE DEF TabOK, TabFields, PageFields
  <1>1. \A a : tab' = [tab EXCEPT !.page.open = a] =>
          Same /\ tab'.page.list = tab.page.list /\ tab'.page.overlap = tab.page.overlap
    OBVIOUS
  <1>2. \A a : tab' = [tab EXCEPT !.page.overlap = a] =>
          Same /\ tab'.page.list = tab.page.list /\ tab'.page.overlap = a
    OBVIOUS
  <1>3. \A a : tab' = [tab EXCEPT !.page.list = a] =>
          Same /\ tab'.page.list = a /\ tab'.page.overlap = tab.page.overlap
    OBVIOUS
  <1>4. ASSUME NEW a, NEW b, tab' = [tab EXCEPT !.page.list = a, !.page.open = b]
        PROVE  Same /\ tab'.page.list = a /\ tab'.page.overlap = tab.page.overlap
    <2> DEFINE t == [tab EXCEPT !.page.list = a]
    <2>1. /\ DOMAIN t = TabFields /\ DOMAIN t.page = PageFields /\ t.token = tab.token
          /\ t.page.name = tab.page.name /\ t.page.loading = tab.page.loading /\ t.page.list = a
          /\ t.page.overlap = tab.page.overlap
      OBVIOUS
    <2>2. tab' = [t EXCEPT !.page.open = b]
      BY <1>4
    <2> HIDE DEF t
    <2> QED
      BY <2>1, <2>2
  <1> QED
    BY <1>1, <1>2, <1>3, <1>4

\* What can be clicked on a list page, once it is loaded.
LEMMA ListOffers ==
    ASSUME tab.page.name \in ListPages, NEW what, Offers(what)
    PROVE  /\ ~tab.page.loading /\ what \in {"open", "add", "delete", "submit"}
           /\ what \in {"add", "delete"} => tab.page.name = "beneficiaries"
           /\ what = "submit" => tab.page.name = "support"
  <1>1. CASE tab.page.name = "beneficiaries"
    BY <1>1 DEF Offers, View, BeneficiariesView, Spinner, Shows
  <1>2. CASE tab.page.name = "support"
    BY <1>2 DEF Offers, View, SupportView, Spinner, Shows
  <1> QED
    BY <1>1, <1>2 DEF ListPages

\* The answer to a request is taken: to one that does not concern the list, or to
\* the write the page waited for, with the list it makes of it.
LEMMA ForgetInStep ==
    ASSUME CallsOK, NEW stored, NEW p, NEW q, NEW u, InStep(stored, p, u, calls),
           NEW i \in DOMAIN calls, calls[i].then # "load", calls' = Forget(i),
           q.name = p.name, q.loading = p.loading,
           \/ calls[i].then # "answer" /\ q.list = p.list
           \/ calls[i].then = "answer" /\ RowIds(q.list) = IdsOf(stored) /\ TwoKinds(q.list)
    PROVE  InStep(stored, q, u, calls')
  <1>1. /\ DOMAIN calls' = DOMAIN calls /\ calls'[i].at = "done" /\ calls'[i].then = None
        /\ \A j \in DOMAIN calls : j # i => calls'[j] = calls[j]
    BY ForgetEffect
  <1>2. CallInStep(stored, q, u, i, calls'[i])
    BY <1>1, CallbacksAssumption DEF CallInStep
  <1>3. CASE calls[i].then = "answer"
    <2>1. ~p.loading
      BY <1>3 DEF InStep, CallInStep
    <2>2. ASSUME NEW j \in DOMAIN calls, j # i
          PROVE  calls[j].then \notin {"answer", "load"} /\ CallInStep(stored, q, u, j, calls[j])
      <3>1. CallInStep(stored, p, u, j, calls[j]) /\ calls[j].then # "answer"
        BY <1>3, <2>2 DEF InStep
      <3> QED
        BY <2>1, <3>1 DEF CallInStep
    <2>3. \A j \in DOMAIN calls' : calls'[j].then # "answer" /\ CallInStep(stored, q, u, j, calls'[j])
      BY <1>1, <1>2, <2>2, CallbacksAssumption
    <2> QED
      BY <1>3, <2>3 DEF InStep
  <1>4. CASE calls[i].then # "answer" /\ q.list = p.list
    <2>1. ASSUME NEW j \in DOMAIN calls, j # i PROVE CallInStep(stored, q, u, j, calls'[j])
      <3>1. CallInStep(stored, p, u, j, calls[j])
        BY DEF InStep
      <3> QED
        BY <1>1, <1>4, <2>1, <3>1 DEF CallInStep
    <2>2. \A j \in DOMAIN calls : calls'[j].then = "answer" <=> calls[j].then = "answer"
      BY <1>1, <1>4, CallbacksAssumption
    <2> QED
      BY <1>1, <1>2, <1>4, <2>1, <2>2 DEF InStep
  <1> QED
    BY <1>3, <1>4

\* A request is sent: by another client, or a first write by the page.
LEMMA SentInStep ==
    ASSUME CallsOK, NEW stored, NEW p, NEW q, NEW u, InStep(stored, p, u, calls), SameList(p, q),
           NEW r, DOMAIN r = CallFields, DOMAIN r.answer = AnswerFields, Send(r),
           r.then # "load", r.then = "answer" => ~Busy, CallInStep(stored, q, u, Len(calls) + 1, r)
    PROVE  InStep(stored, q, u, calls')
  <1> DEFINE n == Len(calls) + 1
  <1>1. /\ CallsOK' /\ Len(calls') = Len(calls) + 1 /\ calls'[n] = r
        /\ \A j \in DOMAIN calls : calls'[j] = calls[j]
    BY SendEffect
  <1>2. n \notin DOMAIN calls /\ \A j : j \in DOMAIN calls' <=> j \in DOMAIN calls \/ j = n
    BY <1>1 DEF CallsOK
  <1> HIDE DEF n
  <1>3. ASSUME NEW j \in DOMAIN calls PROVE CallInStep(stored, q, u, j, calls[j])
    <2>1. CallInStep(stored, p, u, j, calls[j])
      BY DEF InStep
    <2> QED
      BY <2>1 DEF CallInStep, SameList
  <1>4. CallInStep(stored, q, u, n, r)
    BY DEF n
  <1>5. r.then = "answer" => \A j \in DOMAIN calls : calls[j].then # "answer"
    BY DEF Busy
  <1> QED
    BY <1>1, <1>2, <1>3, <1>4, <1>5 DEF InStep, SameList

\* Nothing of the list changes, nor of the requests.
LEMMA SameInStep ==
    ASSUME NEW stored, NEW p, NEW q, NEW u, NEW cs, InStep(stored, p, u, cs), SameList(p, q)
    PROVE  InStep(stored, q, u, cs)
  BY DEF InStep, CallInStep, SameList

\* The list that was fetched is the stored one.
LEMMA LoadInStep ==
    ASSUME ListInv, Alone, LoadAnswered
    PROVE  /\ tab'.page.name = tab.page.name /\ tab'.token = tab.token /\ tab'.page.overlap = tab.page.overlap
           /\ InStep(StoredIn(db, tab.page.name, tab.token), tab'.page, tab.token, calls')
  <1> DEFINE p == tab.page
             u == tab.token
             stored == StoredIn(db, p.name, u)
             route == FetchOf(p.name)
             q == LoadingDone(Loaded(p))
  <1>1. CallsOK /\ TabOK /\ p.name \in ListPages /\ InStep(stored, p, u, calls)
    BY DEF ListInv, ListAgrees, ShowInv, OwnInv, Alone
  <1>2. ASSUME NEW j \in Waiting
        PROVE  /\ j \in DOMAIN calls /\ calls[j].then = "load" /\ p.loading
               /\ calls[j].route = route /\ calls[j].answer.status \in {0, 200}
               /\ calls[j].at = "answered" => calls[j].answer.status = 200 /\ calls[j].answer.rows = Star(stored)
    <2>1. j \in DOMAIN calls /\ calls[j].then = "load"
      BY DEF Waiting
    <2>2. CallInStep(stored, p, u, j, calls[j])
      BY <1>1, <2>1 DEF InStep
    <2>3. p.loading /\ LoadOk(stored, p.name, u, calls[j])
      BY <2>1, <2>2 DEF CallInStep
    <2>4. NoAnswer.status = 0
      BY DEF NoAnswer
    <2> QED
      BY <2>1, <2>3, <2>4 DEF LoadOk
  <1>3. Unreachable.status = -1
    BY DEF Unreachable, NoAnswer
  <1>4. /\ Waiting # {} /\ \A j \in Waiting : calls[j].at = "answered"
        /\ tab' = [tab EXCEPT !.page = q]
        /\ calls' = [j \in DOMAIN calls |-> IF j \in Waiting THEN Forget(j)[j] ELSE calls[j]]
    BY <1>2, <1>3 DEF LoadAnswered
  <1>5. Got(route).status = 200 /\ Got(route).rows = Star(stored)
    <2>1. PICK k \in Waiting : calls[k].route = route
      BY <1>2, <1>4
    <2>2. PICK j \in Waiting : calls[j].route = route /\ Got(route) = calls[j].answer
      BY <2>1 DEF Got
    <2> QED
      BY <1>2, <1>4, <2>2
  <1>6. p.loading
    BY <1>2, <1>4
  <1>7. q.name = p.name /\ ~q.loading /\ q.list = Star(stored) /\ q.overlap = p.overlap
    <2>1. RowsIf(route, p.list) = Star(stored)
      BY <1>5 DEF RowsIf, Ok
    <2>2. Loaded(p) = [p EXCEPT !.list = RowsIf(route, @)]
      BY <1>1 DEF Loaded, BeneficiariesLoaded, SupportLoaded, FetchOf, ListPages
    <2>3. p.name # "transfer" /\ DOMAIN p = PageFields
      BY <1>1 DEF ListPages, TabOK
    <2> HIDE DEF p, stored, route
    <2> QED
      BY <2>1, <2>2, <2>3 DEF LoadingDone, PageFields
  <1>8. tab'.page = q /\ tab'.token = tab.token
    BY <1>1, <1>4 DEF TabOK, TabFields
  <1>9. ASSUME NEW j \in DOMAIN calls
        PROVE  calls'[j].then \notin {"answer", "load"} /\ CallInStep(stored, q, u, j, calls'[j])
    <2>1. CallInStep(stored, p, u, j, calls[j])
      BY <1>1 DEF InStep
    <2>2. CASE j \in Waiting
      <3>1. calls'[j] = Forget(j)[j]
        BY <1>4, <2>2
      <3>2. calls'[j].at = "done" /\ calls'[j].then = None
        BY <1>1, <3>1, ForgetEffect
      <3> QED
        BY <3>2, CallbacksAssumption DEF CallInStep
    <2>3. CASE j \notin Waiting
      <3>1. calls'[j] = calls[j] /\ calls[j].then # "load"
        BY <1>4, <2>3 DEF Waiting
      <3>2. calls[j].then # "answer"
        BY <1>6, <2>1 DEF CallInStep
      <3> QED
        BY <2>1, <3>1, <3>2 DEF CallInStep
    <2> QED
      BY <2>2, <2>3
  <1>10. DOMAIN calls' = DOMAIN calls
    BY <1>4
  <1>11. InStep(stored, q, u, calls')
    <2>1. RowIds(q.list) = IdsOf(stored) /\ TwoKinds(q.list)
      BY <1>7, IdsLoaded
    <2> HIDE DEF p, u, stored, q
    <2> QED
      BY <1>9, <1>10, <2>1 DEF InStep
  <1> QED
    BY <1>7, <1>8, <1>11

\* A list page that has just been mounted has nothing to show yet.
LEMMA MountInStep ==
    ASSUME CallsOK, NEW name \in ListPages, NEW t,
           NEW cs, CallList(cs), Len(cs) = Len(calls), \A j \in DOMAIN calls : Leaves(calls[j], cs[j]),
           Mount(name, t, cs), ~Mounted(name).overlap
    PROVE  InStep(StoredIn(db, name, t.token), Mounted(name), t.token, calls')
  <1> DEFINE n == Len(calls)
             p == Mounted(name)
             u == t.token
             stored == StoredIn(db, name, u)
             fetch == Request(FetchOf(name), u, None, "load", {})
  <1>1. Fetches(name) = <<FetchOf(name)>>
    BY DEF Fetches, FetchOf, ListPages
  <1>2. Len(Fetches(name)) = 1 /\ Fetches(name)[1] = FetchOf(name)
    BY <1>1
  <1>3. /\ CallsOK' /\ Len(calls') = n + 1 /\ calls'[n + 1] = fetch
        /\ \A j \in DOMAIN cs : calls'[j] = Unmount(cs[j])
    <2>1. /\ CallsOK' /\ Len(calls') = n + Len(Fetches(name))
          /\ \A j \in DOMAIN cs : calls'[j] = Unmount(cs[j])
          /\ \A k \in 1..Len(Fetches(name)) : calls'[n + k] = Request(Fetches(name)[k], u, None, "load", {})
      BY MountEffect
    <2> HIDE DEF n, u
    <2>2. calls'[n + 1] = Request(Fetches(name)[1], u, None, "load", {})
      BY <1>2, <2>1
    <2> QED
      BY <1>2, <2>1, <2>2
  <1>4. DOMAIN calls = DOMAIN cs /\ n + 1 \notin DOMAIN calls /\ \A j : j \in DOMAIN calls' <=> j \in DOMAIN calls \/ j = n + 1
    BY <1>3 DEF CallsOK, CallList
  <1>5. p.name = name /\ p.loading /\ p.list = {}
    BY DEF Mounted, Dashboards, NavItems, ListPages
  <1>6. \A j \in DOMAIN calls : calls[j].at \in {"answered", "done"} \/ calls[j].route \notin ListWrites
    BY DEF Mounted, Pending, ListWrites, Rivals, ListPages
  <1>7. CallInStep(stored, p, u, n + 1, fetch) /\ fetch.then = "load"
    <2>1. FetchOf(name) \notin ListWrites
      BY DEF FetchOf, ListWrites
    <2> HIDE DEF stored, p, u
    <2> QED
      BY <1>5, <2>1, CallbacksAssumption DEF CallInStep, LoadOk, Request
  <1>8. ASSUME NEW j \in DOMAIN calls
        PROVE  CallInStep(stored, p, u, j, calls'[j]) /\ calls'[j].then \notin {"answer", "load"}
    <2>1. calls'[j] = Unmount(cs[j]) /\ DOMAIN cs[j] = CallFields /\ Leaves(calls[j], cs[j])
      BY <1>3, <1>4 DEF CallList
    <2>2. /\ calls'[j].route = calls[j].route
          /\ calls'[j].at = calls[j].at \/ calls'[j].at = "done"
          /\ calls'[j].then = None \/ (calls'[j].then = "left" /\ Auth(calls'[j]))
      BY <2>1 DEF Unmount, CallFields, Leaves, Auth
    <2> QED
      BY <1>6, <2>2, CallbacksAssumption DEF CallInStep
  <1> HIDE DEF n, p, u, stored, fetch
  <1>9. InStep(stored, p, u, calls')
    BY <1>3, <1>4, <1>5, <1>7, <1>8 DEF InStep, TwoKinds
  <1> QED
    BY <1>9 DEF p, u, stored

LEMMA MountAgrees ==
    ASSUME ShowInv, PageStep, NEW name, NEW t, DOMAIN t = TabFields,
           NEW cs, CallList(cs), Len(cs) = Len(calls), \A j \in DOMAIN calls : Leaves(calls[j], cs[j]),
           Mount(name, t, cs)
    PROVE  ListAgrees'
  <1>1. tab'.page = Mounted(name) /\ tab'.token = t.token /\ Mounted(name).name = name /\ db' = db /\ CallsOK
    BY DEF Mount, TabFields, Mounted, PageStep, ShowInv, OwnInv
  <1>2. name \in ListPages /\ ~Mounted(name).overlap =>
          InStep(StoredIn(db, name, t.token), Mounted(name), t.token, calls')
    BY <1>1, MountInStep
  <1>3. Alone' => name \in ListPages /\ ~Mounted(name).overlap
    BY <1>1 DEF Alone
  <1> QED
    BY <1>1, <1>2, <1>3 DEF ListAgrees

\* A step on the page: it stays alone, or is not a list page.
LEMMA StayAgrees ==
    ASSUME PageStep, tab'.page.name = tab.page.name,
           tab.page.name \in ListPages => /\ tab'.token = tab.token
                                          /\ tab.page.overlap => tab'.page.overlap,
           Alone /\ ~tab'.page.overlap =>
             InStep(StoredIn(db, tab.page.name, tab.token), tab'.page, tab.token, calls')
    PROVE  ListAgrees'
  <1>1. db' = db /\ faults' = faults /\ scene' = scene
    BY DEF PageStep
  <1>2. Alone' => Alone /\ tab'.token = tab.token /\ ~tab'.page.overlap
    BY <1>1 DEF Alone
  <1> QED
    BY <1>1, <1>2 DEF ListAgrees

\* Updates of the page that leave its list as it is.
LEMMA OtherMoves ==
    ASSUME TabOK
    PROVE  LET Same == /\ tab'.token = tab.token /\ tab'.page.name = tab.page.name
                       /\ tab'.page.overlap = tab.page.overlap /\ tab'.page.opened = tab.page.opened IN
           /\ tab' = tab => Same
           /\ \A a, b : tab' = [tab EXCEPT !.page.loading = a, !.page.error = b] => Same
           /\ \A a, b, c : tab' = [tab EXCEPT !.page.loading = a, !.page.success = b, !.timers = c] => Same
           /\ \A a, b : tab' = [tab EXCEPT !.page.data = a, !.page.open = b] => Same
           /\ \A a : tab' = [tab EXCEPT !.page.settings = a] => Same
           /\ \A a : tab' = [tab EXCEPT !.page.error = a] => Same
  <1> DEFINE Same == /\ tab'.token = tab.token /\ tab'.page.name = tab.page.name
                     /\ tab'.page.overlap = tab.page.overlap /\ tab'.page.opened = tab.page.opened
  <1> USE DEF TabOK, TabFields, PageFields
  <1>1. tab' = tab => Same
    OBVIOUS
  <1>2. ASSUME NEW a, NEW b, tab' = [tab EXCEPT !.page.loading = a, !.page.error = b] PROVE Same
    <2> DEFINE t == [tab EXCEPT !.page.loading = a]
    <2>1. /\ DOMAIN t = TabFields /\ DOMAIN t.page = PageFields /\ t.token = tab.token
          /\ t.page.name = tab.page.name /\ t.page.overlap = tab.page.overlap /\ t.page.opened = tab.page.opened
      OBVIOUS
    <2>2. tab' = [t EXCEPT !.page.error = b]
      BY <1>2
    <2> HIDE DEF t
    <2> QED
      BY <2>1, <2>2
  <1>3. ASSUME NEW a, NEW b, NEW c, tab' = [tab EXCEPT !.page.loading = a, !.page.success = b, !.timers = c] PROVE Same
    <2> DEFINE t == [tab EXCEPT !.page.loading = a]
               v == [t EXCEPT !.page.success = b]
    <2>1. /\ DOMAIN t = TabFields /\ DOMAIN t.page = PageFields /\ t.token = tab.token
          /\ t.page.name = tab.page.name /\ t.page.overlap = tab.page.overlap /\ t.page.opened = tab.page.opened
      OBVIOUS
    <2>2. tab' = [v EXCEPT !.timers = c]
      BY <1>3
    <2> HIDE DEF t
    <2>3. /\ DOMAIN v = TabFields /\ DOMAIN v.page = PageFields /\ v.token = t.token
          /\ v.page.name = t.page.name /\ v.page.overlap = t.page.overlap /\ v.page.opened = t.page.opened
      BY <2>1
    <2> HIDE DEF v
    <2> QED
      BY <2>1, <2>2, <2>3
  <1>4. ASSUME NEW a, NEW b, tab' = [tab EXCEPT !.page.data = a, !.page.open = b] PROVE Same
    <2> DEFINE t == [tab EXCEPT !.page.data = a]
    <2>1. /\ DOMAIN t = TabFields /\ DOMAIN t.page = PageFields /\ t.token = tab.token
          /\ t.page.name = tab.page.name /\ t.page.overlap = tab.page.overlap /\ t.page.opened = tab.page.opened
      OBVIOUS
    <2>2. tab' = [t EXCEPT !.page.open = b]
      BY <1>4
    <2> HIDE DEF t
    <2> QED
      BY <2>1, <2>2
  <1>5. \A a : tab' = [tab EXCEPT !.page.settings = a] => Same
    OBVIOUS
  <1>6. \A a : tab' = [tab EXCEPT !.page.error = a] => Same
    OBVIOUS
  <1> QED
    BY <1>1, <1>2, <1>3, <1>4, <1>5, <1>6

\* The answers are in: on a list page nothing but the list and the flag changes.
LEMMA LoadAgrees ==
    ASSUME ListInv, PageStep, LoadAnswered
    PROVE  ListAgrees'
  <1> DEFINE p == tab.page
  <1>1. DOMAIN tab = TabFields /\ DOMAIN p = PageFields /\ p.name \in Dashboards
    BY DEF ListInv, ShowInv, TabOK, Complete, Waiting, LoadAnswered
  <1>2. tab' = [tab EXCEPT !.page = LoadingDone(Loaded(@))] \/ tab' = [tab EXCEPT !.page = LoadingDone(@)]
    BY DEF LoadAnswered
  <1>3. tab'.token = tab.token /\ (tab'.page = LoadingDone(Loaded(p)) \/ tab'.page = LoadingDone(p))
    BY <1>1, <1>2 DEF TabFields
  <1>4. tab'.page.name = p.name
    BY <1>1, <1>3, LoadedTakes DEF Takes
  <1>5. p.name \in ListPages => tab'.page.overlap = p.overlap
    <2> SUFFICES ASSUME p.name \in ListPages PROVE tab'.page.overlap = p.overlap
      OBVIOUS
    <2>1. \E rows : Loaded(p) = [p EXCEPT !.list = rows]
      BY DEF Loaded, BeneficiariesLoaded, SupportLoaded, ListPages
    <2>2. PICK rows : Loaded(p) = [p EXCEPT !.list = rows]
      BY <2>1
    <2> HIDE DEF p
    <2> QED
      BY <1>1, <1>3, <2>2 DEF LoadingDone, PageFields
  <1>6. Alone => InStep(StoredIn(db, p.name, tab.token), tab'.page, tab.token, calls')
    BY LoadInStep
  <1> QED
    BY <1>3, <1>4, <1>5, <1>6, StayAgrees

\* What waits for an answer on a list page has written the list.
LEMMA WaitingWrites ==
    ASSUME ListInv, Alone, NEW i \in DOMAIN calls, calls[i].then \notin {None, "load"}, ~Auth(calls[i])
    PROVE  /\ calls[i].then = "answer" /\ calls[i].route \in WritesOf(tab.page.name)
           /\ calls[i].seen = tab.page.list /\ NamesRow(tab.page.list, calls[i])
           /\ Underway(StoredIn(db, tab.page.name, tab.token), tab.page.list, tab.token, i, calls[i])
  <1>1. CallInStep(StoredIn(db, tab.page.name, tab.token), tab.page, tab.token, i, calls[i])
    BY DEF ListInv, ListAgrees, InStep
  <1> QED
    BY <1>1 DEF CallInStep

\* The answer to a write of the page, with the list it makes of it.
LEMMA WriteTaken ==
    ASSUME ListInv, Alone, PageStep, NEW i \in DOMAIN calls, calls[i].then \notin {None, "load"}, ~Auth(calls[i]),
           calls[i].at = "answered", calls' = Forget(i),
           tab'.page.name = tab.page.name, tab'.page.loading = tab.page.loading,
           \/ calls[i].answer.status # 200 /\ tab'.page.list = tab.page.list
           \/ /\ calls[i].answer.status = 200 /\ calls[i].route # "DELETE/beneficiaries"
              /\ tab'.page.list = calls[i].seen \cup calls[i].answer.rows
           \/ /\ calls[i].answer.status = 200 /\ calls[i].route = "DELETE/beneficiaries"
              /\ tab'.page.list = {x \in calls[i].seen : Field(x, "id") # calls[i].body.id}
    PROVE  InStep(StoredIn(db, tab.page.name, tab.token), tab'.page, tab.token, calls')
  <1> DEFINE p == tab.page
             q == tab'.page
             u == tab.token
             stored == StoredIn(db, p.name, u)
             c == calls[i]
  <1>1. CallsOK /\ InStep(stored, p, u, calls)
    BY DEF ListInv, ListAgrees, ShowInv, OwnInv
  <1>2. c.then = "answer" /\ c.seen = p.list /\ NamesRow(p.list, c) /\ Underway(stored, p.list, u, i, c)
    BY WaitingWrites
  <1>3. TwoKinds(p.list)
    BY <1>1 DEF InStep
  <1>4. RowIds(q.list) = IdsOf(stored) /\ TwoKinds(q.list)
    <2>4. c.answer.status # 200 => q.list = p.list
      OBVIOUS
    <2> HIDE DEF p, u, stored
    <2>1. CASE c.answer.status # 200
      BY <1>2, <1>3, <2>1, <2>4 DEF Underway
    <2>2. CASE c.answer.status = 200 /\ c.route # "DELETE/beneficiaries" /\ q.list = c.seen \cup c.answer.rows
      <3>1. /\ c.answer.rows = Plain({RowOf(i, u)}) /\ IdsOf(stored) = RowIds(p.list) \cup {i}
            /\ i \notin RowIds(p.list)
        BY <1>2, <2>2 DEF Underway
      <3>2. q.list = p.list \cup Plain({RowOf(i, u)})
        BY <1>2, <2>2, <3>1
      <3> HIDE DEF q, c
      <3> QED
        BY <1>3, <3>1, <3>2, ListAdded
    <2>3. CASE /\ c.answer.status = 200 /\ c.route = "DELETE/beneficiaries"
               /\ q.list = {x \in c.seen : Field(x, "id") # c.body.id}
      <3>1. /\ IdsOf(stored) = RowIds(p.list) \ {c.body.id} /\ c.body.id # Undefined
            /\ \E x \in p.list : c.body.id = Field(x, "id")
        BY <1>2, <2>3 DEF Underway, NamesRow
      <3>2. q.list = {x \in p.list : Field(x, "id") # c.body.id}
        BY <1>2, <2>3
      <3> HIDE DEF q, c
      <3> QED
        BY <1>3, <3>1, <3>2, ListRemoved, SMTT(60)
    <2> QED
      BY <2>1, <2>2, <2>3 DEF p
  <1>5. c.then # "load" /\ q.name = p.name /\ q.loading = p.loading
    BY <1>2
  <1>6. InStep(stored, q, u, calls')
    <2> HIDE DEF p, u, stored
    <2>1. calls[i].then = "answer" /\ calls[i].then # "load"
      BY <1>2
    <2>2. ASSUME NEW r, r.name = p.name, r.loading = p.loading, RowIds(r.list) = IdsOf(stored), TwoKinds(r.list)
          PROVE  InStep(stored, r, u, calls')
      BY <1>1, <2>1, <2>2, ForgetInStep
    <2> HIDE DEF c, q
    <2> QED
      BY <1>4, <1>5, <2>2
  <1> QED
    BY <1>6

LEMMA CallbackAgrees ==
    ASSUME ListInv, Callback
    PROVE  ListAgrees'
  <1>1. ShowInv /\ CallsOK /\ TabOK /\ PageStep /\ DOMAIN tab = TabFields
    BY CallbackSends DEF ListInv, ShowInv, OwnInv, TabOK
  <1>2. CASE LoadAnswered
    BY <1>1, <1>2, LoadAgrees
  <1>3. CASE TimerFires
    <2> DEFINE t == [tab EXCEPT !.timers = @ - 1]
    <2>1. Push("transactions", t, calls) /\ DOMAIN t = TabFields /\ t.page = tab.page
      BY <1>1, <1>3 DEF TimerFires, TabFields
    <2> HIDE DEF t
    <2>2. CASE Mount("transactions", t, calls)
      <3>1. CallList(calls) /\ \A j \in DOMAIN calls : Leaves(calls[j], calls[j])
        BY <1>1 DEF CallList, CallsOK, Leaves
      <3> QED
        BY <1>1, <2>1, <2>2, <3>1, MountAgrees
    <2>3. CASE tab' = t /\ tab.page.name = "transactions"
      BY <2>1, <2>3 DEF ListAgrees, Alone, ListPages
    <2> QED
      BY <2>1, <2>2, <2>3 DEF Push
  <1>4. ASSUME NEW i \in DOMAIN calls, SignedIn(i) PROVE ListAgrees'
    <2>1. Auth(calls[i]) /\ calls[i].at = "answered" /\ calls[i].then # None
      BY <1>4 DEF SignedIn, Answered, Auth
    <2>2. calls[i].then # "load"
      BY <1>1, <2>1 DEF ShowInv, Fetched, Auth
    <2>3. CASE calls[i].answer.status = 200
      <3> DEFINE t == [tab EXCEPT !.token = NamedBy(i), !.crossed = TRUE]
      <3>1. Push("dashboard", t, Forget(i)) /\ DOMAIN t = TabFields /\ t.page = tab.page
        BY <1>1, <1>4, <2>3 DEF SignedIn, Succeeded, NamedBy, TabFields
      <3> HIDE DEF t
      <3>2. CASE Mount("dashboard", t, Forget(i))
        <4>1. /\ CallList(Forget(i)) /\ Len(Forget(i)) = Len(calls)
              /\ \A j \in DOMAIN calls : Leaves(calls[j], Forget(i)[j])
          BY <1>1, <2>1, ForgetLeaves
        <4> QED
          BY <1>1, <3>1, <3>2, <4>1, MountAgrees
      <3>3. CASE tab' = t /\ tab.page.name = "dashboard"
        BY <3>1, <3>3 DEF ListAgrees, Alone, ListPages
      <3> QED
        BY <3>1, <3>2, <3>3 DEF Push
    <2>4. CASE calls[i].answer.status # 200
      <3>1. /\ calls' = Forget(i)
            /\ IF calls[i].then = "answer" THEN tab' = [tab EXCEPT !.page.loading = FALSE, !.page.error = TRUE] ELSE tab' = tab
        BY <1>4, <2>4 DEF SignedIn, Succeeded
      <3>2. tab'.token = tab.token /\ tab'.page.name = tab.page.name /\ tab'.page.overlap = tab.page.overlap
        BY <1>1, <3>1, OtherMoves
      <3>3. Alone => InStep(StoredIn(db, tab.page.name, tab.token), tab'.page, tab.token, calls')
        <4> SUFFICES ASSUME Alone PROVE InStep(StoredIn(db, tab.page.name, tab.token), tab'.page, tab.token, calls')
          OBVIOUS
        <4>1. InStep(StoredIn(db, tab.page.name, tab.token), tab.page, tab.token, calls)
          BY DEF ListInv, ListAgrees
        <4>2. calls[i].then # "answer"
          <5>1. calls[i].then = "answer" => calls[i].route \in WritesOf(tab.page.name)
            BY <4>1 DEF InStep, CallInStep
          <5> QED
            BY <2>1, <5>1 DEF Auth, WritesOf
        <4>3. tab' = tab
          BY <3>1, <4>2
        <4> QED
          BY <1>1, <2>2, <3>1, <4>1, <4>2, <4>3, ForgetInStep
      <3> QED
        BY <1>1, <3>2, <3>3, StayAgrees
    <2> QED
      BY <2>3, <2>4
  <1>5. ASSUME NEW i \in DOMAIN calls, NEW route, Answered(i, route),
               route \in {"POST/beneficiaries", "DELETE/beneficiaries", "POST/support", "PUT/profile",
                          "PUT/settings", "POST/transfer"}
        PROVE  /\ calls[i].at = "answered" /\ calls[i].then \notin {None, "load"} /\ ~Auth(calls[i])
               /\ calls[i].route = route
    BY <1>1, <1>5 DEF Answered, Auth, ShowInv, Fetched
  <1>6. ASSUME NEW i \in DOMAIN calls, BeneficiaryAdded(i) \/ TicketCreated(i) PROVE ListAgrees'
    <2>1. /\ calls[i].at = "answered" /\ calls[i].then \notin {None, "load"} /\ ~Auth(calls[i])
          /\ calls[i].route # "DELETE/beneficiaries" /\ calls' = Forget(i)
      BY <1>5, <1>6 DEF BeneficiaryAdded, TicketCreated
    <2>2. IF calls[i].answer.status = 200
          THEN \E list : list = calls[i].seen \cup calls[i].answer.rows
                         /\ tab' = [tab EXCEPT !.page.list = list, !.page.open = FALSE]
          ELSE tab' = tab
      <3>1. calls[i].answer.rows \cup calls[i].seen = calls[i].seen \cup calls[i].answer.rows
        OBVIOUS
      <3> QED
        BY <1>6, <3>1 DEF BeneficiaryAdded, TicketCreated, Succeeded
    <2>3. /\ tab'.token = tab.token /\ tab'.page.name = tab.page.name /\ tab'.page.overlap = tab.page.overlap
          /\ tab'.page.loading = tab.page.loading
          /\ \/ calls[i].answer.status # 200 /\ tab'.page.list = tab.page.list
             \/ calls[i].answer.status = 200 /\ tab'.page.list = calls[i].seen \cup calls[i].answer.rows
      <3>1. CASE calls[i].answer.status = 200
        <4>1. PICK list : list = calls[i].seen \cup calls[i].answer.rows
                          /\ tab' = [tab EXCEPT !.page.list = list, !.page.open = FALSE]
          BY <2>2, <3>1
        <4> QED
          BY <1>1, <3>1, <4>1, PageMoves
      <3>2. CASE calls[i].answer.status # 200
        BY <2>2, <3>2
      <3> QED
        BY <3>1, <3>2
    <2>4. Alone => InStep(StoredIn(db, tab.page.name, tab.token), tab'.page, tab.token, calls')
      BY <1>1, <2>1, <2>3, WriteTaken
    <2> QED
      BY <1>1, <2>3, <2>4, StayAgrees
  <1>7. ASSUME NEW i \in DOMAIN calls, BeneficiaryDeleted(i) PROVE ListAgrees'
    <2> DEFINE kept == {x \in calls[i].seen : Field(x, "id") # calls[i].body.id}
    <2>1. /\ calls[i].at = "answered" /\ calls[i].then \notin {None, "load"} /\ ~Auth(calls[i])
          /\ calls[i].route = "DELETE/beneficiaries" /\ calls' = Forget(i)
      BY <1>5, <1>7 DEF BeneficiaryDeleted
    <2>2. IF calls[i].answer.status = 200 THEN tab' = [tab EXCEPT !.page.list = kept] ELSE tab' = tab
      BY <1>7 DEF BeneficiaryDeleted, Succeeded
    <2>3. /\ tab'.token = tab.token /\ tab'.page.name = tab.page.name /\ tab'.page.overlap = tab.page.overlap
          /\ tab'.page.loading = tab.page.loading
          /\ \/ calls[i].answer.status # 200 /\ tab'.page.list = tab.page.list
             \/ calls[i].answer.status = 200 /\ tab'.page.list = kept
      <3> HIDE DEF kept
      <3> QED
        BY <1>1, <2>2, PageMoves
    <2>4. Alone => InStep(StoredIn(db, tab.page.name, tab.token), tab'.page, tab.token, calls')
      BY <1>1, <2>1, <2>3, WriteTaken
    <2> QED
      BY <1>1, <2>3, <2>4, StayAgrees
  <1>8. ASSUME NEW i \in DOMAIN calls, ProfileSaved(i) \/ SettingChanged(i) \/ TransferAnswered(i) PROVE ListAgrees'
    <2>1. /\ calls[i].then \notin {None, "load"} /\ ~Auth(calls[i])
          /\ calls[i].route \in {"PUT/profile", "PUT/settings", "POST/transfer"}
      BY <1>5, <1>8 DEF ProfileSaved, SettingChanged, TransferAnswered
    <2>2. \E a, b, c :
          \/ tab' = tab
          \/ tab' = [tab EXCEPT !.page.data = a, !.page.open = b]
          \/ tab' = [tab EXCEPT !.page.settings = a]
          \/ tab' = [tab EXCEPT !.page.loading = a, !.page.error = b]
          \/ tab' = [tab EXCEPT !.page.loading = a, !.page.success = b, !.timers = c]
      BY <1>8 DEF ProfileSaved, SettingChanged, TransferAnswered
    <2>3. tab'.token = tab.token /\ tab'.page.name = tab.page.name /\ tab'.page.overlap = tab.page.overlap
      <3>1. PICK a, b, c :
              \/ tab' = tab
              \/ tab' = [tab EXCEPT !.page.data = a, !.page.open = b]
              \/ tab' = [tab EXCEPT !.page.settings = a]
              \/ tab' = [tab EXCEPT !.page.loading = a, !.page.error = b]
              \/ tab' = [tab EXCEPT !.page.loading = a, !.page.success = b, !.timers = c]
        BY <2>2
      <3>2. CASE tab' = tab
        BY <3>2
      <3>3. CASE tab' = [tab EXCEPT !.page.data = a, !.page.open = b]
        BY <1>1, <3>3, OtherMoves
      <3>4. CASE tab' = [tab EXCEPT !.page.settings = a]
        BY <1>1, <3>4, OtherMoves
      <3>5. CASE tab' = [tab EXCEPT !.page.loading = a, !.page.error = b]
        BY <1>1, <3>5, OtherMoves
      <3>6. CASE tab' = [tab EXCEPT !.page.loading = a, !.page.success = b, !.timers = c]
        BY <1>1, <3>6, OtherMoves
      <3> QED
        BY <3>1, <3>2, <3>3, <3>4, <3>5, <3>6
    <2>4. ~Alone
      <3>1. Alone => calls[i].route \in WritesOf(tab.page.name)
        BY <2>1, WaitingWrites
      <3> QED
        BY <2>1, <3>1 DEF WritesOf
    <2> QED
      BY <1>1, <2>3, <2>4, StayAgrees
  <1> QED
    BY <1>2, <1>3, <1>4, <1>6, <1>7, <1>8 DEF Callback

\* A write of the page, of which it has heard nothing yet.
LEMMA WriteSent ==
    ASSUME ListInv, PageStep, NEW route, NEW body, Send(AuthFetch(route, body)),
           tab' = [tab EXCEPT !.page.overlap = @ \/ Busy], ~tab.page.loading, route \in WritesOf(tab.page.name),
           route = "DELETE/beneficiaries" => \E x \in tab.page.list : body.id = Field(x, "id")
    PROVE  ListAgrees'
  <1> DEFINE p == tab.page
             q == tab'.page
             u == tab.token
             stored == StoredIn(db, p.name, u)
             r == Request(route, u, body, "answer", p.list)
  <1>1. CallsOK /\ TabOK
    BY DEF ListInv, ShowInv, OwnInv
  <1>2. tab'.token = u /\ SameList(p, q) /\ q.overlap = (p.overlap \/ Busy)
    BY <1>1, PageMoves DEF SameList
  <1>3. Alone /\ ~q.overlap => InStep(stored, q, u, calls')
    <2> SUFFICES ASSUME Alone, ~q.overlap PROVE InStep(stored, q, u, calls')
      OBVIOUS
    <2>1. InStep(stored, p, u, calls) /\ ~Busy
      BY <1>2 DEF ListInv, ListAgrees
    <2>2. /\ Send(r) /\ DOMAIN r = CallFields /\ DOMAIN r.answer = AnswerFields
          /\ r.then = "answer" /\ r.at = "sent" /\ r.user = u /\ r.seen = p.list /\ r.route = route /\ r.body = body
      BY RequestFields DEF AuthFetch, Request
    <2>3. RowIds(p.list) = IdsOf(stored)
      BY <2>1 DEF InStep, Busy
    <2>4. p.name = q.name /\ ~q.loading /\ q.list = p.list
      BY <1>2 DEF SameList
    <2> HIDE DEF r, stored, u, q
    <2>5. CallInStep(stored, q, u, Len(calls) + 1, r)
      BY <2>2, <2>3, <2>4, CallbacksAssumption DEF CallInStep, Underway, NamesRow
    <2> HIDE DEF p
    <2> QED
      BY <1>1, <1>2, <2>1, <2>2, <2>5, SentInStep
  <1> QED
    BY <1>2, <1>3, StayAgrees DEF SameList

LEMMA UserAgrees ==
    ASSUME ListInv, User \/ OtherClient
    PROVE  ListAgrees'
  <1>1. ShowInv /\ CallsOK /\ TabOK /\ PageStep /\ DOMAIN tab = TabFields
    BY UserSends DEF ListInv, ShowInv, OwnInv, TabOK
  <1>2. CallList(calls) /\ \A j \in DOMAIN calls : Leaves(calls[j], calls[j])
    BY <1>1 DEF CallList, CallsOK, Leaves
  <1>3. ASSUME NEW name \in Pages, Follow(name) PROVE ListAgrees'
    <2>1. Mount(name, tab, calls)
      BY <1>3 DEF Follow, Push
    <2> QED
      BY <1>1, <1>2, <2>1, MountAgrees
  <1>4. ASSUME NEW name \in Pages, Open(name) PROVE ListAgrees'
    <2> DEFINE cs == [i \in DOMAIN calls |-> [calls[i] EXCEPT !.then = None]]
               t == [tab EXCEPT !.timers = 0]
    <2>1. DOMAIN calls = 1..Len(calls) /\ Len(calls) \in Nat
      BY <1>1 DEF CallsOK
    <2>2. Len(cs) = Len(calls)
      BY <2>1
    <2>3. CallList(cs) /\ \A j \in DOMAIN calls : Leaves(calls[j], cs[j])
      BY <1>1, <2>1, <2>2 DEF CallList, CallsOK, CallFields, Leaves
    <2>4. Mount(name, t, cs) /\ DOMAIN t = TabFields
      BY <1>1, <1>4 DEF Open
    <2> HIDE DEF cs, t
    <2> QED
      BY <1>1, <2>2, <2>3, <2>4, MountAgrees
  <1>5. ASSUME tab'.page.name = tab.page.name, tab.page.name \notin ListPages PROVE ListAgrees'
    BY <1>5 DEF ListAgrees, Alone
  <1>6. CASE SubmitLogin \/ SubmitRegister \/ SubmitTransfer
    <2>1. PICK a, b : tab' = [tab EXCEPT !.page.loading = a, !.page.error = b] \/ tab' = [tab EXCEPT !.page.error = b]
      BY <1>6 DEF SubmitLogin, SubmitRegister, SubmitTransfer
    <2>2. tab'.page.name = tab.page.name
      BY <1>1, <2>1, OtherMoves
    <2>3. Offers("sign-in") \/ Offers("sign-up") \/ Offers("send")
      BY <1>6 DEF SubmitLogin, SubmitRegister, SubmitTransfer
    <2>4. tab.page.name \notin ListPages
      BY <2>3, ListOffers
    <2> QED
      BY <1>5, <2>2, <2>4
  <1>7. CASE SaveProfile \/ ChangeSetting \/ Logout
    <2>1. Offers("save") \/ Offers("setting") \/ Offers("logout")
      BY <1>7 DEF SaveProfile, ChangeSetting, Logout
    <2>2. tab.page.name \notin ListPages
      BY <2>1, ListOffers
    <2>3. CASE tab' = tab
      BY <1>5, <2>2, <2>3
    <2>4. CASE Logout
      <3> DEFINE t == [tab EXCEPT !.token = None]
      <3>1. DOMAIN t = TabFields /\ t.page.name # "login" /\ Push("login", t, calls)
        BY <1>1, <2>4, NoLogoutOnLogin DEF Logout, TabFields
      <3> HIDE DEF t
      <3>2. Mount("login", t, calls)
        BY <3>1 DEF Push
      <3> QED
        BY <1>1, <1>2, <3>1, <3>2, MountAgrees
    <2> QED
      BY <1>7, <2>3, <2>4 DEF SaveProfile, ChangeSetting
  <1>8. CASE Toggle
    <2>1. PICK a : tab' = [tab EXCEPT !.page.open = a]
      BY <1>8 DEF Toggle
    <2>2. tab'.token = tab.token /\ SameList(tab.page, tab'.page) /\ tab'.page.overlap = tab.page.overlap
      BY <1>1, <2>1, PageMoves DEF SameList
    <2>3. Alone => InStep(StoredIn(db, tab.page.name, tab.token), tab'.page, tab.token, calls')
      <3>1. calls' = calls
        BY <1>8 DEF Toggle
      <3> QED
        BY <2>2, <3>1, SameInStep DEF ListInv, ListAgrees
    <2> QED
      BY <1>1, <2>2, <2>3, StayAgrees DEF SameList
  <1>9. CASE AddBeneficiary \/ RemoveBeneficiary \/ CreateTicket
    <2>1. CASE tab.page.name \in ListPages
      <3>1. CASE AddBeneficiary
        <4>1. ~tab.page.loading /\ tab.page.name = "beneficiaries"
          BY <2>1, <3>1, ListOffers DEF AddBeneficiary
        <4>2. /\ tab' = [tab EXCEPT !.page.overlap = @ \/ Busy]
              /\ \E body : Send(AuthFetch("POST/beneficiaries", body))
          BY <3>1 DEF AddBeneficiary
        <4> QED
          BY <1>1, <4>1, <4>2, WriteSent DEF WritesOf
      <3>2. CASE RemoveBeneficiary
        <4>1. ~tab.page.loading /\ tab.page.name = "beneficiaries"
          BY <2>1, <3>2, ListOffers DEF RemoveBeneficiary
        <4>2. PICK x \in tab.page.list : Send(AuthFetch("DELETE/beneficiaries", [id |-> Field(x, "id")]))
          BY <3>2 DEF RemoveBeneficiary
        <4>3. PICK body : body.id = Field(x, "id") /\ Send(AuthFetch("DELETE/beneficiaries", body))
          BY <4>2
        <4>4. tab' = [tab EXCEPT !.page.overlap = @ \/ Busy] /\ "DELETE/beneficiaries" \in WritesOf(tab.page.name)
          BY <3>2, <4>1 DEF RemoveBeneficiary, WritesOf
        <4> QED
          BY <1>1, <4>1, <4>3, <4>4, WriteSent
      <3>3. CASE CreateTicket
        <4>1. ~tab.page.loading /\ tab.page.name = "support"
          BY <2>1, <3>3, ListOffers DEF CreateTicket
        <4>2. /\ tab' = [tab EXCEPT !.page.overlap = @ \/ Busy]
              /\ \E body : Send(AuthFetch("POST/support", body))
          BY <3>3 DEF CreateTicket
        <4> QED
          BY <1>1, <4>1, <4>2, WriteSent DEF WritesOf
      <3> QED
        BY <1>9, <3>1, <3>2, <3>3
    <2>2. CASE tab.page.name \notin ListPages
      <3>1. PICK a : tab' = [tab EXCEPT !.page.overlap = a]
        BY <1>9 DEF AddBeneficiary, RemoveBeneficiary, CreateTicket
      <3>2. tab'.page.name = tab.page.name
        BY <1>1, <3>1, PageMoves
      <3> QED
        BY <1>5, <2>2, <3>2
    <2> QED
      BY <2>1, <2>2
  <1>10. CASE OtherClient
    <2>1. PICK x \in scene.direct : Send(Request(x.route, x.user, x.body, None, {}))
      BY <1>10 DEF OtherClient
    <2> DEFINE r == Request(x.route, x.user, x.body, None, {})
               stored == StoredIn(db, tab.page.name, tab.token)
    <2>2. tab' = tab
      BY <1>10 DEF OtherClient
    <2>3. /\ Send(r) /\ DOMAIN r = CallFields /\ DOMAIN r.answer = AnswerFields
          /\ r.then = None /\ r.user = x.user /\ r.route = x.route
      BY <2>1, RequestFields DEF Request
    <2> HIDE DEF r
    <2>4. ASSUME Alone PROVE InStep(stored, tab.page, tab.token, calls')
      <3>1. InStep(stored, tab.page, tab.token, calls) /\ (x.route \in ListWrites => x.user # tab.token)
        BY <2>4 DEF ListInv, ListAgrees, Alone
      <3>2. CallInStep(stored, tab.page, tab.token, Len(calls) + 1, r)
        BY <2>3, <3>1, CallbacksAssumption DEF CallInStep
      <3>3. SameList(tab.page, tab.page) /\ r.then \notin {"load", "answer"}
        BY <2>3, CallbacksAssumption DEF SameList
      <3> HIDE DEF stored
      <3> QED
        BY <1>1, <2>3, <3>1, <3>2, <3>3, SentInStep
    <2> QED
      BY <1>1, <2>2, <2>4, StayAgrees
  <1> QED
    BY <1>3, <1>4, <1>6, <1>7, <1>8, <1>9, <1>10 DEF User

LEMMA NextList == ListInv /\ [Next]_vars => ListInv'
  <1> SUFFICES ASSUME ListInv, [Next]_vars PROVE ListInv'
    OBVIOUS
  <1>1. ShowInv' /\ RegInv' /\ ShowInv /\ RegInv /\ CallsOK /\ TablesOK(db) /\ RowsKnown(db, calls)
    BY NextShow, NextReg DEF ListInv, ShowInv, OwnInv
  <1>2. ASSUME NEW i \in DOMAIN calls, Handle(i), UNCHANGED <<scene, tab>> PROVE ListInv'
    <2>1. RowsKnown(db', calls')
      BY <1>1, <1>2, HandlerKeepsKnown
    <2>2. faults' = faults \/ faults' = faults - 1
      BY <1>1, <1>2, HandlerMoves DEF Moves
    <2>3. ListAgrees'
      <3>1. faults \in Int /\ scene' = scene /\ tab' = tab /\ faults <= scene.faults /\ scene.faults \in Int
        BY <1>1, <1>2, ScenesAssumption DEF RegInv, OwnInv
      <3>2. Alone' => Alone /\ faults' = faults
        BY <2>2, <3>1 DEF Alone
      <3>3. ASSUME Alone, faults' = faults PROVE InStep(StoredIn(db', tab.page.name, tab.token), tab.page, tab.token, calls')
        BY <1>2, <3>3, HandlerInStep
      <3> QED
        BY <3>1, <3>2, <3>3 DEF ListAgrees
    <2> QED
      BY <1>1, <2>1, <2>3 DEF ListInv
  <1>3. CASE Callback \/ User \/ OtherClient
    <2>1. PageStep /\ ListAgrees'
      BY <1>1, <1>3, CallbackSends, UserSends, CallbackAgrees, UserAgrees DEF ShowInv, OwnInv
    <2> QED
      BY <1>1, <2>1, PageKeepsKnown DEF ListInv
  <1>4. ASSUME NEW i \in DOMAIN calls, ConnectionFails(i) PROVE ListInv'
    <2>1. Answers(i, -1, {}) /\ faults' = faults - 1 /\ db' = db /\ scene' = scene
      BY <1>1, <1>4, ConnectionFailsEffect
    <2>2. RowsKnown(db', calls')
      BY <1>1, <2>1 DEF RowsKnown, Answers, Reaches, CallsOK
    <2>3. ~Alone'
      BY <1>1, <2>1, ScenesAssumption DEF Alone, RegInv, OwnInv
    <2> QED
      BY <1>1, <2>2, <2>3 DEF ListInv, ListAgrees
  <1>5. CASE UNCHANGED vars
    BY <1>1, <1>5 DEF vars, apiVars, ListInv, ListAgrees, Alone
  <1> QED
    BY <1>2, <1>3, <1>4, <1>5 DEF Next, Serve

\* While nothing fails, the list of a page that waits for each answer is the list in
\* the database: what is fetched is the stored list, and each write under way is
\* followed from the form to the row, its answer and the list made of it.
THEOREM ListsStayInStep == Spec => []ListInStep
  <1>1. ListInv => ListInStep
    <2> SUFFICES ASSUME ListInv, tab.page.name \in ListPages,
                        \A r \in scene.direct : r.route \in ListWrites => r.user # tab.token,
                        ~tab.page.loading, ~tab.page.overlap, ~Busy, faults = scene.faults, tab.token # None
                 PROVE  RowIds(tab.page.list) = IdsOf(Stored(tab.page.name))
      BY DEF ListInStep, ListPages, RowIds, IdsOf
    <2>1. Stored(tab.page.name) = StoredIn(db, tab.page.name, tab.token)
      BY DEF Stored, StoredIn
    <2>2. InStep(StoredIn(db, tab.page.name, tab.token), tab.page, tab.token, calls)
      BY DEF ListInv, ListAgrees, Alone
    <2> QED
      BY <2>1, <2>2 DEF InStep, Busy
  <1> QED
    BY <1>1, InitList, NextList, PTL DEF Spec

-----------------------------------------------------------------------------
(* What the accounts of a user hold, and what the dashboard says they hold.  *)

Fortune(d, u) == MoneyOf({a \in d.accounts : a.owner = u})

\* The sum of the account cards of a list.
CardSum(list) == MapThenSumSet(LAMBDA x : AccountCard(x).balance, list)

\* A sum over an image is the sum over what has been mapped, each to its own.
LEMMA SumImage ==
    ASSUME NEW S, NEW f, NEW g, NEW h, IsFiniteSet(S),
           \A x \in S : f[x] \in Int /\ g[h[x]] = f[x], \A x, y \in S : h[x] = h[y] => x = y
    PROVE  SumOf(g, {h[x] : x \in S}) = SumOf(f, S)
  <1> DEFINE Image(R) == {h[x] : x \in R}
             T == {R \in SUBSET S : SumOf(g, Image(R)) = SumOf(f, R)}
  <1>1. ASSUME NEW R \in SUBSET S, \A x \in R : R \ {x} \in T PROVE R \in T
    <2>1. CASE R = {}
      <3>1. Image(R) = {}
        BY <2>1
      <3> QED
        BY <2>1, <3>1, SumEmpty
    <2>2. CASE R # {}
      <3>1. PICK z \in R : TRUE
        BY <2>2
      <3> DEFINE Q == R \ {z}
                 P == Image(Q)
      <3>2. Q \in SUBSET S /\ z \notin Q /\ R = Q \cup {z} /\ SumOf(g, P) = SumOf(f, Q)
        BY <1>1, <3>1
      <3>3. IsFiniteSet(Q) /\ IsFiniteSet(P)
        BY <3>2, FS_Subset, FiniteImage
      <3>4. /\ Image(R) = P \cup {h[z]} /\ h[z] \notin P
            /\ \A x \in Q \cup {z} : f[x] \in Int
            /\ \A y \in P \cup {h[z]} : g[y] \in Int
        BY <3>1
      <3>5. SumOf(f, Q \cup {z}) = f[z] + SumOf(f, Q)
        <4> HIDE DEF Q
        <4> QED
          BY <3>2, <3>3, <3>4, SumAdd
      <3>6. SumOf(g, P \cup {h[z]}) = g[h[z]] + SumOf(g, P)
        <4> HIDE DEF P
        <4> QED
          BY <3>3, <3>4, SumAdd
      <3>7. g[h[z]] = f[z]
        BY <3>1
      <3> HIDE DEF P, Q, Image
      <3>8. SumOf(g, Image(R)) = SumOf(f, R)
        BY <3>2, <3>4, <3>5, <3>6, <3>7
      <3> QED
        BY <3>8 DEF Image
    <2> QED
      BY <2>1, <2>2
  <1>2. \A R \in SUBSET S : R \in T
    <2> HIDE DEF T
    <2> QED
      BY <1>1, FiniteInduction
  <1> QED
    BY <1>2

Cards(list) == [x \in list |-> AccountCard(x).balance]

LEMMA CardSumIs ==
    ASSUME NEW list, IsFiniteSet(list)
    PROVE  CardSum(list) = SumOf(Cards(list), list)
  <1> DEFINE Adds(h) == h = [R \in SUBSET list |-> IF R = {} THEN 0
                               ELSE LET x == CHOOSE y \in R : TRUE IN AccountCard(x).balance + h[R \ {x}]]
             g == CHOOSE h : Adds(h)
             c == Cards(list)
  <1>1. PICK h : AddsUp(h, c, SUBSET list)
    BY SumExists
  <1>2. \A k : AddsUp(k, c, SUBSET list) <=> Adds(k)
    <2>1. ASSUME NEW k, NEW R \in SUBSET list
          PROVE  AddUp(k, c, R) = IF R = {} THEN 0
                                  ELSE LET x == CHOOSE y \in R : TRUE IN AccountCard(x).balance + k[R \ {x}]
      <3>1. CASE R = {}
        BY <3>1 DEF AddUp
      <3>2. CASE R # {}
        <4>1. (CHOOSE y \in R : TRUE) \in list
          BY <3>2
        <4> QED
          BY <3>2, <4>1 DEF AddUp, Cards
      <3> QED
        BY <3>1, <3>2
    <2> QED
      BY <2>1 DEF AddsUp
  <1>3. Adds(g)
    <2> HIDE DEF Adds
    <2>1. \E k : Adds(k)
      BY <1>1, <1>2
    <2> QED
      BY <2>1, Zenon
  <1>4. CardSum(list) = g[list]
    BY Zenon DEF CardSum, MapThenSumSet, MapThenFoldSet
  <1>5. SumOf(c, list) = g[list]
    <2> HIDE DEF Adds, g, c
    <2> QED
      BY <1>2, <1>3, SumIs
  <1> QED
    BY <1>4, <1>5

\* Cards of rows with plain column names say what the accounts hold.
LEMMA CardsTell ==
    ASSUME NEW A, IsFiniteSet(A), \A a \in A : a.balance \in Int
    PROVE  CardSum(Plain(A)) = MoneyOf(A)
  <1> DEFINE h == [a \in A |-> [row |-> a, star |-> FALSE]]
             f == ColumnOf(A, "balance")
             P == {h[a] : a \in A}
             g == Cards(P)
  <1>1. Plain(A) = P
    BY DEF Plain
  <1>2. IsFiniteSet(P)
    BY FiniteImage
  <1>3. ASSUME NEW a \in A PROVE f[a] \in Int /\ g[h[a]] = f[a] /\ h[a].row = a
    <2>1. h[a] = [row |-> a, star |-> FALSE] /\ h[a] \in P
      OBVIOUS
    <2>2. AccountCard([row |-> a, star |-> FALSE]).balance = a.balance
      BY ValuesAssumption DEF AccountCard, OrZero, Field
    <2>3. g[h[a]] = AccountCard(h[a]).balance
      BY <2>1 DEF Cards
    <2> QED
      BY <2>1, <2>2, <2>3 DEF ColumnOf
  <1> HIDE DEF f, g, h
  <1>4. SumOf(g, P) = SumOf(f, A)
    <2>1. \A x, y \in A : h[x] = h[y] => x = y
      BY <1>3
    <2> QED
      BY <1>3, <2>1, SumImage
  <1> QED
    BY <1>1, <1>2, <1>4, CardSumIs DEF MoneyOf, f, g

\* Accounts with nothing in them make no difference.
LEMMA EmptyAccounts ==
    ASSUME NEW A, NEW B, IsFiniteSet(A), B \subseteq A, \A a \in A : a.balance \in Int,
           \A a \in A : a \notin B => a.balance = 0
    PROVE  MoneyOf(A) = MoneyOf(B)
  <1> DEFINE R == A \ B
             f == ColumnOf(B, "balance")
             g == ColumnOf(A, "balance")
  <1>1. IsFiniteSet(B) /\ IsFiniteSet(R) /\ B \cap R = {} /\ A = B \cup R
    BY FS_Subset
  <1>2. (\A x \in B : f[x] = g[x] /\ f[x] \in Int) /\ \A x \in R : g[x] = 0
    BY DEF ColumnOf
  <1> HIDE DEF f, g, R
  <1>3. SumOf(g, B \cup R) = SumOf(f, B)
    BY <1>1, <1>2, SumZeros
  <1> QED
    BY <1>1, <1>3 DEF MoneyOf, f, g

LEMMA FortuneParts ==
    ASSUME NEW d, AccountsOK(d), NEW u
    PROVE  LET A == {a \in d.accounts : a.owner = u} IN
           /\ IsFiniteSet(A) /\ \A a \in A : a.balance \in Int
           /\ MoneyOf(A) \in Int /\ SumBy(A, "balance") = Fortune(d, u)
  <1> DEFINE A == {a \in d.accounts : a.owner = u}
             f == ColumnOf(A, "balance")
  <1>1. IsFiniteSet(A) /\ \A a \in A : a.balance \in Int
    BY FS_Subset DEF AccountsOK
  <1>2. \A a \in A : f[a] \in Int
    BY <1>1 DEF ColumnOf
  <1>3. MoneyOf(A) \in Int
    <2> HIDE DEF A
    <2> QED
      BY <1>1, <1>2, SumIsInt DEF MoneyOf
  <1>4. SumBy(A, "balance") = MoneyOf(A)
    <2> HIDE DEF A
    <2> QED
      BY <1>1, SumOfColumn DEF MoneyOf
  <1> QED
    BY <1>1, <1>3, <1>4 DEF Fortune

\* Opening accounts, which hold nothing, changes nobody's fortune.
LEMMA OpeningKeepsFortune ==
    ASSUME NEW d, NEW e, AccountsOK(d), AccountsOK(e), NEW b, b.balance = 0,
           e.accounts = d.accounts \/ e.accounts = d.accounts \cup {b}, NEW u
    PROVE  Fortune(e, u) = Fortune(d, u)
  <1> DEFINE A == {a \in e.accounts : a.owner = u}
             B == {a \in d.accounts : a.owner = u}
  <1>1. IsFiniteSet(A) /\ \A a \in A : a.balance \in Int
    BY FortuneParts
  <1>2. B \subseteq A /\ \A a \in A : a \notin B => a.balance = 0
    OBVIOUS
  <1> HIDE DEF A, B
  <1>3. MoneyOf(A) = MoneyOf(B)
    BY <1>1, <1>2, EmptyAccounts
  <1> QED
    BY <1>3 DEF Fortune, A, B

-----------------------------------------------------------------------------
(* Figures that stay right: what a request is going to say, and what the page
   shows of what was answered.                                                *)

\* What the statistics of a request are going to say: while they are made, the
\* accounts read first are all that hold anything.
StatsRight(d, c, worth) ==
  c.route = "GET/stats" =>
    /\ c.at \in {"sums", "recent"} =>
         /\ \A a \in d.accounts : a.owner = c.user /\ a.id \notin c.loc.ids => a.balance = 0
         /\ DOMAIN c.loc = {"ids", "sums"} /\ DOMAIN c.loc.sums = {"total", "spent"}
         /\ c.loc.sums.total = worth \/ (c.at = "sums" /\ c.loc.sums.total = None)
    /\ c.at = "answered" /\ c.answer.status = 200 => c.answer.sums.total = worth

AccountsRight(c, worth) ==
  c.route = "GET/accounts" /\ c.at = "answered" /\ c.answer.status = 200 => CardSum(c.answer.rows) = worth

CallRight(d, c, worth) == StatsRight(d, c, worth) /\ AccountsRight(c, worth)

PageRight(p) == p.name = "dashboard" /\ p.data # None => StatCard(p.data, "total") = CardSum(p.list)

\* What the page waits for is going to say what its user has, and what it shows agrees.
TotalsRight(d, cs, p) ==
  /\ \A j \in DOMAIN cs : cs[j].then = "load" => CallRight(d, cs[j], Fortune(d, cs[j].user))
  /\ PageRight(p)

LEMMA TotalsByRoute ==
    ASSUME NEW i, Handle(i)
    PROVE  /\ calls[i].route = "GET/stats" => GetStats(i) \/ Unauthorized(i)
           /\ calls[i].route = "GET/accounts" => GetAccounts(i) \/ Unauthorized(i)
           /\ calls[i].route # "POST/transfer" => ~PostTransfer(i)
  <1> USE DEF At, Authorized
  <1>1. CASE PostRegister(i) \/ PostLogin(i)
    BY <1>1 DEF PostRegister, PostLogin, PostTransfer, UndoTransfer
  <1>2. CASE Unauthorized(i) \/ GetAccounts(i) \/ GetCards(i) \/ GetTransactions(i) \/ GetStats(i)
    BY <1>2 DEF Unauthorized, GetAccounts, GetCards, GetTransactions, GetStats, PostTransfer, UndoTransfer
  <1>3. CASE GetLoans(i) \/ GetLoanPayments(i) \/ GetBeneficiaries(i) \/ PostBeneficiary(i) \/ DeleteBeneficiary(i)
    BY <1>3 DEF GetLoans, GetLoanPayments, GetBeneficiaries, PostBeneficiary, DeleteBeneficiary, PostTransfer, UndoTransfer
  <1>4. CASE GetTickets(i) \/ PostTicket(i) \/ GetProfile(i) \/ PutProfile(i) \/ GetSettings(i) \/ PutSettings(i)
    BY <1>4 DEF GetTickets, PostTicket, GetProfile, PutProfile, GetSettings, PutSettings, PostTransfer, UndoTransfer
  <1>5. CASE GetSecurityLogs(i) \/ PostTransfer(i)
    BY <1>5 DEF GetSecurityLogs, PostTransfer, UndoTransfer
  <1> QED
    BY <1>1, <1>2, <1>3, <1>4, <1>5 DEF Handle

\* What the handler of the statistics does when nothing fails.
StatsStep(i, c) ==
  LET found(a) == SumBy({x \in db.accounts : x.id \in a.ids}, "balance") IN
  \/ AccountIds(calls[i].user) = {} /\ c.at = "answered" /\ c.answer.sums.total = 0
  \/ c.at = "sums" /\ c.loc = [ids |-> AccountIds(calls[i].user), sums |-> [total |-> None, spent |-> None]]
  \/ /\ calls[i].at = "sums" /\ c.at \in {"sums", "recent"}
     /\ c.loc = [calls[i].loc EXCEPT !.sums["total"] = found(calls[i].loc)]
  \/ /\ calls[i].at = "sums" /\ c.at \in {"sums", "recent"} /\ (c.at = "recent" => calls[i].loc.sums.total # None)
     /\ \E n : c.loc = [calls[i].loc EXCEPT !.sums["spent"] = n]
  \/ calls[i].at = "recent" /\ c.at = "answered" /\ c.answer.sums = calls[i].loc.sums

LEMMA StatsSteps ==
    ASSUME CallsOK, NEW i \in DOMAIN calls, GetStats(i), faults \in Int, faults' = faults
    PROVE  StatsStep(i, calls'[i])
  <1> DEFINE loc == calls[i].loc
             zeros == AnswerWith(i, [NoAnswer EXCEPT !.status = 200, !.sums = NoStats])
             learn(f, n) == GoOn(i, IF loc.sums.total = None /\ loc.sums.spent = None
                                    THEN "sums" ELSE "recent", [loc EXCEPT !.sums[f] = n])
             total == SumBy({a \in db.accounts : a.id \in loc.ids}, "balance")
             spent == SumBy({t \in db.transactions : t.from \in loc.ids}, "amount")
             rows == Plain({t \in db.transactions : Touches(t, loc.ids)})
  <1>1. ~Fault
    BY DEF Fault
  <1>2. \A at, x : GoOn(i, at, x) => calls'[i].at = at /\ calls'[i].loc = x
    BY GoOnEffect DEF Reaches
  <1>3. \A a : DOMAIN a = AnswerFields /\ AnswerWith(i, a) => calls'[i].at = "answered" /\ calls'[i].answer = a
    BY AnswerEffect DEF Reaches
  <1>4. \/ calls[i].at = "sent" /\ AccountIds(calls[i].user) = {} /\ zeros
        \/ GoOn(i, "sums", [ids |-> AccountIds(calls[i].user), sums |-> [total |-> None, spent |-> None]])
        \/ calls[i].at = "sums" /\ learn("total", total)
        \/ calls[i].at = "sums" /\ loc.sums.spent = None /\ learn("spent", spent)
        \/ calls[i].at = "recent" /\ AnswerWith(i, [status |-> 200, sums |-> loc.sums, rows |-> rows])
    BY <1>1 DEF GetStats, ExecuteQuery, Authorized, At
  <1>5. CASE calls[i].at = "sent" /\ AccountIds(calls[i].user) = {} /\ zeros
    <2> DEFINE a == [NoAnswer EXCEPT !.status = 200, !.sums = NoStats]
    <2>1. DOMAIN a = AnswerFields /\ a.sums.total = 0
      BY DEF NoAnswer, NoStats, AnswerFields
    <2> HIDE DEF a
    <2>2. calls'[i].at = "answered" /\ calls'[i].answer = a
      BY <1>3, <1>5, <2>1 DEF a
    <2> QED
      BY <1>5, <2>1, <2>2 DEF StatsStep
  <1>6. CASE GoOn(i, "sums", [ids |-> AccountIds(calls[i].user), sums |-> [total |-> None, spent |-> None]])
    BY <1>2, <1>6 DEF StatsStep
  <1>7. CASE calls[i].at = "sums" /\ learn("total", total)
    <2>1. PICK at \in {"sums", "recent"} : GoOn(i, at, [loc EXCEPT !.sums["total"] = total])
      BY <1>7
    <2>2. calls'[i].at = at /\ calls'[i].loc = [loc EXCEPT !.sums["total"] = total]
      BY <1>2, <2>1
    <2> QED
      BY <1>7, <2>2 DEF StatsStep
  <1>8. CASE calls[i].at = "sums" /\ loc.sums.spent = None /\ learn("spent", spent)
    <2>1. PICK at \in {"sums", "recent"} : /\ at = "recent" => loc.sums.total # None
                                          /\ GoOn(i, at, [loc EXCEPT !.sums["spent"] = spent])
      BY <1>8
    <2>2. calls'[i].at = at /\ calls'[i].loc = [loc EXCEPT !.sums["spent"] = spent]
      BY <1>2, <2>1
    <2> QED
      BY <1>8, <2>1, <2>2 DEF StatsStep
  <1>9. CASE calls[i].at = "recent" /\ AnswerWith(i, [status |-> 200, sums |-> loc.sums, rows |-> rows])
    <2> DEFINE a == [status |-> 200, sums |-> loc.sums, rows |-> rows]
    <2>1. DOMAIN a = AnswerFields /\ a.sums = loc.sums
      BY DEF AnswerFields
    <2> HIDE DEF a
    <2>2. calls'[i].at = "answered" /\ calls'[i].answer = a
      BY <1>3, <1>9, <2>1 DEF a
    <2> QED
      BY <1>9, <2>1, <2>2 DEF StatsStep
  <1> QED
    BY <1>4, <1>5, <1>6, <1>7, <1>8, <1>9

\* A sum over the ids that were read is what the user's accounts hold now.
LEMMA ReadIdsTell ==
    ASSUME NEW d, AccountsOK(d), NEW u, NEW ids, ids \subseteq IdsIn(d, u),
           \A a \in d.accounts : a.owner = u /\ a.id \notin ids => a.balance = 0
    PROVE  SumBy({a \in d.accounts : a.id \in ids}, "balance") = Fortune(d, u)
  <1> DEFINE A == {a \in d.accounts : a.owner = u}
             B == {a \in d.accounts : a.id \in ids}
  <1>1. IsFiniteSet(A) /\ \A a \in A : a.balance \in Int
    BY FortuneParts
  <1>2. B \subseteq A
    BY DEF IdsIn, AccountsOK
  <1>3. \A a \in A : a \notin B => a.balance = 0
    OBVIOUS
  <1>4. IsFiniteSet(B)
    BY <1>1, <1>2, FS_Subset
  <1> HIDE DEF A, B
  <1>5. MoneyOf(A) = MoneyOf(B)
    BY <1>1, <1>2, <1>3, EmptyAccounts
  <1>6. SumBy(B, "balance") = MoneyOf(B)
    BY <1>4, SumOfColumn DEF MoneyOf
  <1> QED
    BY <1>5, <1>6 DEF Fortune, A, B

LEMMA NoAccountsNoFortune ==
    ASSUME NEW d, NEW u, IdsIn(d, u) = {}
    PROVE  Fortune(d, u) = 0
  <1>1. {a \in d.accounts : a.owner = u} = {}
    BY DEF IdsIn
  <1> QED
    BY <1>1, SumEmpty DEF Fortune, MoneyOf

LEMMA StatsStayRight ==
    ASSUME CallsOK, NEW i \in DOMAIN calls, GetStats(i), faults \in Int, faults' = faults,
           AccountsOK(db), LocalsOwn(db, calls[i]), calls'[i].user = calls[i].user,
           StatsRight(db, calls[i], Fortune(db, calls[i].user))
    PROVE  StatsRight(db, calls'[i], Fortune(db, calls[i].user))
  <1> DEFINE c == calls[i]
             e == calls'[i]
             u == c.user
             worth == Fortune(db, u)
  <1>1. StatsStep(i, e) /\ c.route = "GET/stats"
    BY StatsSteps DEF GetStats, Authorized, At
  <1> SUFFICES StatsRight(db, e, worth)
    OBVIOUS
  <1>2. CASE AccountIds(u) = {} /\ e.at = "answered" /\ e.answer.sums.total = 0
    <2>1. worth = 0
      BY <1>2, IdsInDb, NoAccountsNoFortune
    <2> HIDE DEF worth, e
    <2> QED
      BY <1>2, <2>1 DEF StatsRight
  <1>3. CASE e.at = "sums" /\ e.loc = [ids |-> AccountIds(u), sums |-> [total |-> None, spent |-> None]]
    <2>1. \A a \in db.accounts : a.owner = u => a.id \in AccountIds(u)
      BY DEF AccountIds, AccountsOf
    <2>2. e.user = u /\ e.at # "answered"
      BY <1>3
    <2> HIDE DEF worth, e, u
    <2> QED
      BY <1>3, <2>1, <2>2 DEF StatsRight
  <1>4. CASE c.at \in {"sums", "recent"}
    <2>1. /\ \A a \in db.accounts : a.owner = u /\ a.id \notin c.loc.ids => a.balance = 0
          /\ DOMAIN c.loc = {"ids", "sums"} /\ DOMAIN c.loc.sums = {"total", "spent"}
          /\ c.loc.sums.total = worth \/ (c.at = "sums" /\ c.loc.sums.total = None)
          /\ c.loc.ids \subseteq IdsIn(db, u) /\ e.user = u
      BY <1>1, <1>4 DEF StatsRight, LocalsOwn
    <2> DEFINE n == SumBy({x \in db.accounts : x.id \in c.loc.ids}, "balance")
    <2>2. n = worth
      BY <2>1, ReadIdsTell
    <2>3. CASE e.at \in {"sums", "recent"} /\ e.loc = [c.loc EXCEPT !.sums["total"] = n]
      <3> HIDE DEF n, worth, e, c, u
      <3>1. e.loc.ids = c.loc.ids /\ DOMAIN e.loc = {"ids", "sums"} /\ DOMAIN e.loc.sums = {"total", "spent"} /\ e.loc.sums.total = worth
        BY <2>1, <2>2, <2>3
      <3> QED
        BY <2>1, <2>3, <3>1 DEF StatsRight
    <2>4. CASE /\ c.at = "sums" /\ e.at \in {"sums", "recent"} /\ (e.at = "recent" => c.loc.sums.total # None)
               /\ \E k : e.loc = [c.loc EXCEPT !.sums["spent"] = k]
      <3> HIDE DEF n, worth, e, c, u
      <3>1. PICK k : e.loc = [c.loc EXCEPT !.sums["spent"] = k]
        BY <2>4
      <3>2. e.loc.ids = c.loc.ids /\ DOMAIN e.loc = {"ids", "sums"} /\ DOMAIN e.loc.sums = {"total", "spent"}
            /\ e.loc.sums.total = c.loc.sums.total
        BY <2>1, <3>1
      <3>3. e.loc.sums.total = worth \/ (e.at = "sums" /\ e.loc.sums.total = None)
        BY <2>1, <2>4, <3>2
      <3> QED
        BY <2>1, <2>4, <3>2, <3>3 DEF StatsRight
    <2>5. CASE c.at = "recent" /\ e.at = "answered" /\ e.answer.sums = c.loc.sums
      <3> HIDE DEF n, worth, e, c, u
      <3> QED
        BY <2>1, <2>5 DEF StatsRight
    <2> QED
      BY <1>1, <1>2, <1>3, <1>4, <2>3, <2>4, <2>5 DEF StatsStep
  <1>5. CASE c.at \notin {"sums", "recent"}
    BY <1>1, <1>2, <1>3, <1>5 DEF StatsStep
  <1> QED
    BY <1>4, <1>5

-----------------------------------------------------------------------------
(* Every step of a request leaves what it is going to say right.             *)

LEMMA AccountsStayRight ==
    ASSUME CallsOK, NEW i \in DOMAIN calls, GetAccounts(i), faults \in Int, faults' = faults, AccountsOK(db)
    PROVE  AccountsRight(calls'[i], Fortune(db, calls[i].user))
  <1> DEFINE A == {a \in db.accounts : a.owner = calls[i].user}
  <1>1. ~Fault
    BY DEF Fault
  <1>2. RespondRows(i, Plain(A))
    BY <1>1 DEF GetAccounts, AnswersRows, ExecuteQuery, AccountsOf
  <1>3. calls'[i].answer.rows = Plain(A)
    BY <1>2, StepEnds DEF Answers
  <1>4. CardSum(Plain(A)) = MoneyOf(A)
    <2>1. IsFiniteSet(A) /\ \A a \in A : a.balance \in Int
      BY FortuneParts
    <2> HIDE DEF A
    <2> QED
      BY <2>1, CardsTell
  <1> QED
    BY <1>3, <1>4 DEF AccountsRight, Fortune

\* What one user's request says stays right when others open accounts.
LEMMA CallStaysRight ==
    ASSUME NEW d, NEW e, NEW b, b.balance = 0, e.accounts = d.accounts \/ e.accounts = d.accounts \cup {b},
           NEW c, NEW worth, CallRight(d, c, worth)
    PROVE  CallRight(e, c, worth)
  BY DEF CallRight, StatsRight, AccountsRight

LEMMA HandlerRight ==
    ASSUME MoneyBase, AccountsOK(db'), NEW i \in DOMAIN calls, Handle(i), faults' = faults,
           calls[i].route # "POST/transfer", \A j \in DOMAIN calls : calls'[j].then = calls[j].then,
           NEW p, TotalsRight(db, calls, p)
    PROVE  TotalsRight(db', calls', p)
  <1>1. /\ CallsOK /\ TablesOK(db) /\ AccountsOK(db) /\ faults \in Int
        /\ LocalsOwn(db, calls[i])
    BY DEF MoneyBase, RegInv, OwnInv
  <1>2. /\ CallsOK' /\ DOMAIN calls' = DOMAIN calls /\ SameRequest(i)
        /\ \A j \in DOMAIN calls : j # i => calls'[j] = calls[j]
    BY <1>1, HandlerMoves DEF Moves, Advances, Reaches, CallsOK
  <1>3. /\ calls[i].route = "GET/stats" => GetStats(i) \/ Unauthorized(i)
        /\ calls[i].route = "GET/accounts" => GetAccounts(i) \/ Unauthorized(i)
        /\ ~PostTransfer(i)
    BY TotalsByRoute
  <1>4. db'.accounts = db.accounts \/ db'.accounts = db.accounts \cup {NewAccount(i)}
    BY <1>1, <1>3, OthersUnmoved DEF Unmoved, Opens
  <1>5. NewAccount(i).balance = 0
    BY DEF NewAccount
  <1>6. ASSUME NEW u PROVE Fortune(db', u) = Fortune(db, u)
    BY <1>1, <1>4, <1>5, OpeningKeepsFortune
  <1>7. calls[i].then = "load" => CallRight(db, calls'[i], Fortune(db, calls[i].user))
    <2> DEFINE worth == Fortune(db, calls[i].user)
    <2>1. SUFFICES ASSUME calls[i].then = "load" PROVE CallRight(db, calls'[i], worth)
      OBVIOUS
    <2>2. CallRight(db, calls[i], worth)
      BY <2>1 DEF TotalsRight
    <2>3. calls'[i].route = calls[i].route /\ calls'[i].user = calls[i].user
      BY <1>2 DEF SameRequest
    <2>4. Unauthorized(i) => calls'[i].at = "answered" /\ calls'[i].answer.status = 401
      BY <1>1, StepEnds DEF Unauthorized, Answers, Reaches
    <2>5. StatsRight(db, calls'[i], worth)
      <3>1. CASE calls[i].route = "GET/stats" /\ GetStats(i)
        BY <1>1, <2>2, <2>3, <3>1, StatsStayRight DEF CallRight
      <3>2. CASE Unauthorized(i)
        <4> HIDE DEF worth
        <4> QED
          BY <2>4, <3>2 DEF StatsRight
      <3>3. CASE calls[i].route # "GET/stats"
        <4> HIDE DEF worth
        <4> QED
          BY <2>3, <3>3 DEF StatsRight
      <3> QED
        BY <1>3, <3>1, <3>2, <3>3
    <2>6. AccountsRight(calls'[i], worth)
      <3>1. CASE GetAccounts(i)
        BY <1>1, <3>1, AccountsStayRight
      <3>2. CASE Unauthorized(i)
        <4> HIDE DEF worth
        <4> QED
          BY <2>4, <3>2 DEF AccountsRight
      <3>3. CASE calls[i].route # "GET/accounts"
        <4> HIDE DEF worth
        <4> QED
          BY <2>3, <3>3 DEF AccountsRight
      <3> QED
        BY <1>3, <3>1, <3>2, <3>3
    <2> QED
      BY <2>5, <2>6 DEF CallRight
  <1>8. ASSUME NEW j \in DOMAIN calls, calls'[j].then = "load"
        PROVE  CallRight(db, calls'[j], Fortune(db, calls'[j].user))
    <2>1. CASE j = i
      BY <1>2, <1>7, <1>8, <2>1 DEF SameRequest
    <2>2. CASE j # i
      BY <1>2, <1>8, <2>2 DEF TotalsRight
    <2> QED
      BY <2>1, <2>2
  <1>9. ASSUME NEW j \in DOMAIN calls, calls'[j].then = "load"
        PROVE  CallRight(db', calls'[j], Fortune(db', calls'[j].user))
    <2>1. CallRight(db', calls'[j], Fortune(db, calls'[j].user))
      BY <1>4, <1>5, <1>8, <1>9, CallStaysRight
    <2> QED
      BY <1>6, <2>1
  <1> QED
    BY <1>2, <1>9 DEF TotalsRight

\* A request that has just been sent says nothing yet.
LEMMA FreshRight == \A c, d, worth : Fresh(c) => CallRight(d, c, worth)
  BY DEF Fresh, CallRight, StatsRight, AccountsRight

\* The requests of a page that waits for nothing old but what it waited for.
LEMMA PageCallsRight ==
    ASSUME CallsOK, PageStep, NEW p, NEW q, TotalsRight(db, calls, p), PageRight(q),
           \A j \in DOMAIN calls : calls'[j].then = "load" => calls[j].then = "load"
    PROVE  TotalsRight(db', calls', q)
  <1>1. db' = db /\ CallsOK'
    BY DEF PageStep, Sends
  <1>2. ASSUME NEW j \in DOMAIN calls', calls'[j].then = "load"
        PROVE  CallRight(db, calls'[j], Fortune(db, calls'[j].user))
    <2>1. CASE j \in DOMAIN calls
      <3>1. Leaves(calls[j], calls'[j]) /\ CallRight(db, calls[j], Fortune(db, calls[j].user))
        BY <1>2, <2>1 DEF PageStep, Sends, TotalsRight
      <3> DEFINE worth == Fortune(db, calls[j].user)
      <3>2. calls'[j].user = calls[j].user
        BY <3>1 DEF Leaves
      <3>3. CallRight(db, calls'[j], worth)
        <4> HIDE DEF worth
        <4> QED
          BY <3>1 DEF worth, Leaves, CallRight, StatsRight, AccountsRight
      <3> QED
        BY <3>2, <3>3
    <2>2. CASE j \notin DOMAIN calls
      <3>1. Fresh(calls'[j])
        BY <1>1, <1>2, <2>2 DEF PageStep, Sends, CallsOK
      <3> QED
        BY <3>1, FreshRight
    <2> QED
      BY <2>1, <2>2
  <1> QED
    BY <1>1, <1>2 DEF TotalsRight

-----------------------------------------------------------------------------
(* The two fetches of the dashboard are made for one user.                   *)

\* All that a page waits for was requested for one user.
OneReader(cs) == \A i, j \in DOMAIN cs : cs[i].then = "load" /\ cs[j].then = "load" => cs[i].user = cs[j].user

\* The dashboard sends nothing.
NothingSent(name, cs) == name = "dashboard" => \A j \in DOMAIN cs : cs[j].then \in {None, "load"} \/ Auth(cs[j])

\* The dashboard has just been opened: whatever was sent before is none of its requests.
JustOpened == tab'.page = Mounted("dashboard") /\ \A j \in DOMAIN calls : calls'[j].then # "load"

SameVisit(p, q) == q.name = p.name /\ q.overlap = p.overlap /\ q.opened = p.opened

WaitsForNoMore == \A j \in DOMAIN calls : calls'[j].then = "load" => calls[j].then = "load"

\* The dashboard stays, and its two figures stay what they are or become right.
StaysOpen ==
  /\ tab.page.name = "dashboard" /\ SameVisit(tab.page, tab'.page) /\ WaitsForNoMore
  /\ PageRight(tab.page) => PageRight(tab'.page)

PageGoesOn ==
  /\ OneReader(calls') /\ NothingSent(tab'.page.name, calls')
  /\ tab'.page.name = "dashboard" => JustOpened \/ StaysOpen

SameFigures(p, q) == SameVisit(p, q) /\ q.data = p.data /\ q.list = p.list

LEMMA SameFiguresRight == \A p, q : SameFigures(p, q) /\ PageRight(p) => PageRight(q)
  BY DEF SameFigures, SameVisit, PageRight

LEMMA SameStaysOpen ==
    ASSUME tab'.page.name = tab.page.name, tab.page.name = "dashboard" => SameFigures(tab.page, tab'.page),
           WaitsForNoMore
    PROVE  tab'.page.name = "dashboard" => StaysOpen
  BY SameFiguresRight DEF StaysOpen, SameFigures

LEMMA MountGoesOn ==
    ASSUME CallsOK, NEW name, NEW t, DOMAIN t = TabFields,
           NEW cs, CallList(cs), Len(cs) = Len(calls), Mount(name, t, cs)
    PROVE  PageGoesOn
  <1> DEFINE n == Len(calls)
             m == Len(Fetches(name))
  <1>1. /\ CallsOK' /\ Len(calls') = n + m
        /\ \A j \in DOMAIN cs : calls'[j] = Unmount(cs[j])
        /\ \A k \in 1..m : calls'[n + k] = Request(Fetches(name)[k], t.token, None, "load", {})
    BY MountEffect
  <1>2. n \in Nat /\ m \in Nat /\ DOMAIN cs = 1..n /\ DOMAIN calls' = 1..(n + m)
    BY <1>1, FetchesLength DEF CallList, CallsOK
  <1>3. tab'.page = Mounted(name) /\ Mounted(name).name = name /\ Mounted(name).data = None
    BY DEF Mount, TabFields, Mounted
  <1>4. ASSUME NEW j \in DOMAIN calls'
        PROVE  \/ calls'[j].then = None
               \/ calls'[j].then = "left" /\ Auth(calls'[j])
               \/ calls'[j].then = "load" /\ calls'[j].user = t.token
    <2>1. CASE j \in DOMAIN cs
      <3>1. calls'[j] = Unmount(cs[j]) /\ DOMAIN cs[j] = CallFields
        BY <1>1, <2>1 DEF CallList
      <3> QED
        BY <3>1 DEF Unmount, CallFields, Auth
    <2>2. CASE j \notin DOMAIN cs
      <3> DEFINE k == j - n
      <3>1. k \in 1..m /\ j = n + k
        BY <1>2, <1>4, <2>2
      <3> HIDE DEF k, n, m
      <3>2. calls'[n + k] = Request(Fetches(name)[k], t.token, None, "load", {})
        BY <1>1, <3>1
      <3> QED
        BY <3>1, <3>2 DEF Request
    <2> QED
      BY <2>1, <2>2
  <1>5. OneReader(calls') /\ NothingSent(tab'.page.name, calls')
    BY <1>4, CallbacksAssumption DEF OneReader, NothingSent
  <1>6. ASSUME NEW j \in DOMAIN calls PROVE calls'[j].then # "load"
    <2>1. j \in DOMAIN cs
      BY <1>2 DEF CallsOK
    <2>2. calls'[j] = Unmount(cs[j]) /\ DOMAIN cs[j] = CallFields
      BY <1>1, <2>1 DEF CallList
    <2> QED
      BY <2>2, CallbacksAssumption DEF Unmount, CallFields, Auth
  <1>7. tab'.page.name = "dashboard" => JustOpened
    BY <1>3, <1>6 DEF JustOpened
  <1> QED
    BY <1>5, <1>7 DEF PageGoesOn

LEMMA SameGoesOn ==
    ASSUME OneReader(calls), NothingSent(tab.page.name, calls), calls' = calls,
           tab'.page.name = tab.page.name, tab.page.name = "dashboard" => SameFigures(tab.page, tab'.page)
    PROVE  PageGoesOn
  BY SameStaysOpen DEF PageGoesOn, WaitsForNoMore

LEMMA ForgetGoesOn ==
    ASSUME CallsOK, OneReader(calls), NothingSent(tab.page.name, calls), NEW i \in DOMAIN calls, calls' = Forget(i),
           tab'.page.name = tab.page.name, tab.page.name = "dashboard" => SameFigures(tab.page, tab'.page)
    PROVE  PageGoesOn
  <1>1. /\ DOMAIN calls' = DOMAIN calls /\ calls'[i].then = None
        /\ \A j \in DOMAIN calls : j # i => calls'[j] = calls[j]
    BY ForgetEffect
  <1>2. OneReader(calls')
    BY <1>1, CallbacksAssumption DEF OneReader
  <1>3. NothingSent(tab'.page.name, calls')
    BY <1>1 DEF NothingSent, Auth
  <1>4. WaitsForNoMore
    BY <1>1, CallbacksAssumption DEF WaitsForNoMore
  <1> QED
    BY <1>2, <1>3, <1>4, SameStaysOpen DEF PageGoesOn

LEMMA SendGoesOn ==
    ASSUME CallsOK, OneReader(calls), NothingSent(tab.page.name, calls),
           NEW r, DOMAIN r = CallFields, DOMAIN r.answer = AnswerFields, r.then # "load", Send(r),
           tab'.page.name = tab.page.name,
           tab.page.name = "dashboard" => r.then = None /\ SameFigures(tab.page, tab'.page)
    PROVE  PageGoesOn
  <1>1. /\ CallsOK' /\ Len(calls') = Len(calls) + 1 /\ calls'[Len(calls) + 1] = r
        /\ \A j \in DOMAIN calls : calls'[j] = calls[j]
    BY SendEffect
  <1>2. \A j \in DOMAIN calls' : j \in DOMAIN calls \/ j = Len(calls) + 1
    BY <1>1 DEF CallsOK
  <1>3. OneReader(calls')
    BY <1>1, <1>2 DEF OneReader
  <1>4. NothingSent(tab'.page.name, calls')
    BY <1>1, <1>2 DEF NothingSent, Auth
  <1>5. WaitsForNoMore
    BY <1>1 DEF WaitsForNoMore
  <1> QED
    BY <1>3, <1>4, <1>5, SameStaysOpen DEF PageGoesOn

\* What the dashboard takes from the answers of one user.
LEMMA FiguresLoaded ==
    ASSUME ShowInv, AccountsOK(db), OneReader(calls), TotalsRight(db, calls, tab.page),
           tab.page.name = "dashboard", Waiting # {}, \A i \in Waiting : calls[i].at = "answered"
    PROVE  PageRight(LoadingDone(Loaded(tab.page)))
  <1> DEFINE p == tab.page
             q == DashboardLoaded(p)
  <1>1. DOMAIN p = PageFields /\ Loaded(p) = q
    BY DEF ShowInv, TabOK, Loaded
  <1>2. \A route \in {"GET/stats", "GET/accounts"} : \E i \in Waiting : calls[i].route = route
    <2>1. Fetches(p.name) = <<"GET/stats", "GET/accounts">>
      BY DEF Fetches
    <2>2. \A k \in DOMAIN Fetches(p.name) : \E i \in Waiting : calls[i].route = Fetches(p.name)[k]
      BY DEF ShowInv, Complete, Waiting
    <2>3. 1 \in DOMAIN Fetches(p.name) /\ 2 \in DOMAIN Fetches(p.name)
          /\ Fetches(p.name)[1] = "GET/stats" /\ Fetches(p.name)[2] = "GET/accounts"
      BY <2>1
    <2> HIDE DEF p
    <2> QED
      BY <2>2, <2>3
  <1>3. PICK i \in Waiting : calls[i].route = "GET/stats" /\ Got("GET/stats") = calls[i].answer
    BY <1>2 DEF Got
  <1>4. PICK j \in Waiting : calls[j].route = "GET/accounts" /\ Got("GET/accounts") = calls[j].answer
    BY <1>2 DEF Got
  <1>5. /\ i \in DOMAIN calls /\ j \in DOMAIN calls /\ calls[i].user = calls[j].user
        /\ calls[i].then = "load" /\ calls[j].then = "load"
    BY <1>3, <1>4 DEF Waiting, OneReader
  <1> DEFINE worth == Fortune(db, calls[i].user)
  <1>6. worth \in Int
    BY FortuneParts, ZenonT(60) DEF Fortune
  <1>7. Ok("GET/stats") => Got("GET/stats").sums.total = worth
    <2>1. StatsRight(db, calls[i], worth)
      BY <1>5 DEF TotalsRight, CallRight
    <2> HIDE DEF worth
    <2> QED
      BY <1>3, <2>1 DEF StatsRight, Ok
  <1>8. Ok("GET/accounts") => CardSum(Got("GET/accounts").rows) = worth
    <2>1. AccountsRight(calls[j], worth)
      BY <1>5 DEF TotalsRight, CallRight
    <2> HIDE DEF worth
    <2> QED
      BY <1>4, <2>1 DEF AccountsRight, Ok
  <1>9. PageRight(q) /\ DOMAIN q = PageFields
    <2>1. CASE Ok("GET/stats") /\ Ok("GET/accounts")
      <3> DEFINE sums == Got("GET/stats").sums
                 rows == Got("GET/accounts").rows
                 more == Got("GET/stats").rows
      <3>1. q = [p EXCEPT !.data = sums, !.list = rows, !.more = more]
        BY <2>1 DEF DashboardLoaded
      <3>2. sums.total = worth /\ CardSum(rows) = worth
        BY <1>7, <1>8, <2>1
      <3> HIDE DEF p, q, sums, rows, more, worth
      <3>3. q.data = sums /\ q.list = rows /\ DOMAIN q = PageFields
        BY <1>1, <3>1 DEF PageFields
      <3>4. StatCard(sums, "total") = worth
        BY <1>6, <3>2, ValuesAssumption DEF StatCard, OrZero
      <3> QED
        BY <3>2, <3>3, <3>4 DEF PageRight
    <2>2. CASE ~(Ok("GET/stats") /\ Ok("GET/accounts"))
      BY <1>1, <2>2 DEF DashboardLoaded, TotalsRight
    <2> QED
      BY <2>1, <2>2
  <1>10. SameFigures(q, LoadingDone(q))
    <2> HIDE DEF q
    <2> QED
      BY <1>9 DEF SameFigures, SameVisit, LoadingDone, PageFields
  <1> QED
    BY <1>1, <1>9, <1>10, SameFiguresRight

\* The answers are in: it is the same visit of the same page.
LEMMA LoadVisits ==
    ASSUME ShowInv, LoadAnswered
    PROVE  SameVisit(tab.page, tab'.page)
  <1> DEFINE p == tab.page
  <1>1. DOMAIN tab = TabFields /\ DOMAIN p = PageFields /\ p.name \in Dashboards
    BY DEF ShowInv, TabOK, Complete, Waiting, LoadAnswered
  <1>2. tab'.page = LoadingDone(Loaded(p)) \/ tab'.page = LoadingDone(p)
    BY <1>1 DEF LoadAnswered, TabFields
  <1> QED
    BY <1>1, <1>2, LoadedTakes DEF Takes, SameVisit

LEMMA LoadGoesOn ==
    ASSUME ShowInv, AccountsOK(db), OneReader(calls), NothingSent(tab.page.name, calls), LoadAnswered,
           TotalsRight(db, calls, tab.page)
    PROVE  PageRight(tab'.page)
  <1> DEFINE p == tab.page
  <1>1. DOMAIN tab = TabFields /\ DOMAIN p = PageFields /\ p.name \in Dashboards
    BY DEF ShowInv, TabOK, Complete, Waiting, LoadAnswered
  <1>2. \/ tab'.page = LoadingDone(Loaded(p)) /\ Waiting # {} /\ \A i \in Waiting : calls[i].at = "answered"
        \/ tab'.page = LoadingDone(p)
    <2>1. CASE tab' = [tab EXCEPT !.page = LoadingDone(Loaded(@))] /\ Waiting # {} /\ \A i \in Waiting : calls[i].at = "answered"
      BY <1>1, <2>1 DEF TabFields
    <2>2. CASE tab' = [tab EXCEPT !.page = LoadingDone(@)]
      BY <1>1, <2>2 DEF TabFields
    <2> QED
      BY <2>1, <2>2 DEF LoadAnswered
  <1>3. tab'.page.name = p.name
    BY LoadVisits DEF SameVisit
  <1>4. CASE p.name = "dashboard"
    <2>1. SameFigures(p, LoadingDone(p)) /\ PageRight(p)
      BY <1>1, <1>4 DEF SameFigures, SameVisit, LoadingDone, PageFields, TotalsRight
    <2>2. PageRight(LoadingDone(p))
      BY <2>1, SameFiguresRight
    <2> QED
      BY <1>2, <1>3, <1>4, <2>2, FiguresLoaded
  <1>5. CASE p.name # "dashboard"
    BY <1>3, <1>5 DEF PageRight
  <1> QED
    BY <1>4, <1>5

LEMMA LoadTakesAll ==
    ASSUME ShowInv, NothingSent(tab.page.name, calls), LoadAnswered
    PROVE  OneReader(calls') /\ NothingSent(tab'.page.name, calls') /\ WaitsForNoMore
  <1> DEFINE p == tab.page
  <1>1. CallsOK /\ DOMAIN tab = TabFields /\ DOMAIN p = PageFields /\ p.name \in Dashboards
    BY DEF ShowInv, OwnInv, TabOK, Complete, Waiting, LoadAnswered
  <1>2. tab'.page = LoadingDone(Loaded(p)) \/ tab'.page = LoadingDone(p)
    BY <1>1 DEF LoadAnswered, TabFields
  <1>3. tab'.page.name = p.name
    BY <1>1, <1>2, LoadedTakes DEF Takes
  <1>4. DOMAIN calls' = DOMAIN calls
    BY DEF LoadAnswered
  <1>5. ASSUME NEW j \in DOMAIN calls PROVE calls'[j].then = None \/ (calls'[j] = calls[j] /\ calls[j].then # "load")
    <2>1. CASE j \in Waiting
      <3>1. Forget(j)[j].then = None
        BY <1>1, ForgetEffect
      <3>2. DOMAIN calls[j] = CallFields
        BY <1>1 DEF CallsOK
      <3> QED
        BY <2>1, <3>1, <3>2 DEF LoadAnswered, CallFields
    <2>2. CASE j \notin Waiting
      BY <2>2 DEF LoadAnswered, Waiting
    <2> QED
      BY <2>1, <2>2
  <1>6. OneReader(calls')
    BY <1>4, <1>5, CallbacksAssumption DEF OneReader
  <1>7. NothingSent(tab'.page.name, calls')
    BY <1>3, <1>4, <1>5 DEF NothingSent, Auth
  <1>8. WaitsForNoMore
    BY <1>5, CallbacksAssumption DEF WaitsForNoMore
  <1> QED
    BY <1>6, <1>7, <1>8

-----------------------------------------------------------------------------
(* The invariant of the totals, step by step.                                *)

\* Since page p was opened nothing has failed, and no transfer was under way.
Undisturbed(p, cs, left) ==
  /\ ~p.overlap /\ left = p.opened.faults
  /\ \A j \in DOMAIN cs : j > p.opened.calls => cs[j].route # "POST/transfer"

NoTransfer(cs) == \A j \in DOMAIN cs : cs[j].at \in {"answered", "done"} \/ cs[j].route # "POST/transfer"

\* What is open now was opened before.
Opened(p, cs, left) ==
  /\ p.opened.calls \in Nat /\ p.opened.calls <= Len(cs)
  /\ p.opened.faults \in Int /\ left <= p.opened.faults

TotalsInv ==
  /\ MoneyBase /\ ShowInv
  /\ OneReader(calls) /\ NothingSent(tab.page.name, calls)
  /\ tab.page.name = "dashboard" => Opened(tab.page, calls, faults)
  /\ tab.page.name = "dashboard" /\ Undisturbed(tab.page, calls, faults) =>
       NoTransfer(calls) /\ TotalsRight(db, calls, tab.page)

LEMMA InitTotals == Init => TotalsInv
  <1> SUFFICES ASSUME Init PROVE TotalsInv
    OBVIOUS
  <1>1. calls = <<>> /\ tab.page = Mounted("landing")
    BY DEF Init
  <1>2. DOMAIN calls = {} /\ tab.page.name = "landing"
    BY <1>1 DEF Mounted
  <1>3. OneReader(calls) /\ NothingSent(tab.page.name, calls)
    BY <1>2 DEF OneReader, NothingSent
  <1> QED
    BY <1>2, <1>3, InitMoney, InitShow DEF TotalsInv

\* On the dashboard there is nothing to click but links.
LEMMA DashboardOffers ==
    ASSUME tab.page.name = "dashboard", NEW what, Offers(what)
    PROVE  what \in {"transfer", "accounts", "transactions"}
  BY DEF Offers, View, DashboardView, Spinner, Blank, Shows

\* What the user does on other pages: nothing, or a request that is no fetch.
LEMMA FormGoesOn ==
    ASSUME CallsOK, OneReader(calls), NothingSent(tab.page.name, calls),
           tab'.page.name = tab.page.name, tab.page.name # "dashboard",
           \/ calls' = calls
           \/ \E r : DOMAIN r = CallFields /\ DOMAIN r.answer = AnswerFields /\ r.then = "answer" /\ Send(r)
    PROVE  PageGoesOn
  <1>1. CASE calls' = calls
    BY <1>1, SameGoesOn
  <1>2. CASE \E r : DOMAIN r = CallFields /\ DOMAIN r.answer = AnswerFields /\ r.then = "answer" /\ Send(r)
    <2>1. PICK r : DOMAIN r = CallFields /\ DOMAIN r.answer = AnswerFields /\ r.then = "answer" /\ Send(r)
      BY <1>2
    <2> QED
      BY <2>1, SendGoesOn
  <1> QED
    BY <1>1, <1>2

LEMMA RequestOfForm ==
    ASSUME NEW route, NEW user, NEW body, NEW seen, Send(Request(route, user, body, "answer", seen))
    PROVE  \E r : DOMAIN r = CallFields /\ DOMAIN r.answer = AnswerFields /\ r.then = "answer" /\ Send(r)
  <1> DEFINE r == Request(route, user, body, "answer", seen)
  <1>1. DOMAIN r = CallFields /\ DOMAIN r.answer = AnswerFields /\ r.then = "answer" /\ Send(r)
    BY RequestFields DEF Request
  <1> HIDE DEF r
  <1> QED
    BY <1>1

LEMMA UserGoesOn ==
    ASSUME CallsOK, TabOK, OneReader(calls), NothingSent(tab.page.name, calls), User \/ OtherClient
    PROVE  PageGoesOn
  <1>1. DOMAIN tab = TabFields /\ CallList(calls)
    BY DEF TabOK, CallList, CallsOK
  <1>2. ASSUME NEW name \in Pages, Follow(name) PROVE PageGoesOn
    <2>1. Mount(name, tab, calls)
      BY <1>2 DEF Follow, Push
    <2> QED
      BY <1>1, <2>1, MountGoesOn
  <1>3. ASSUME NEW name \in Pages, Open(name) PROVE PageGoesOn
    <2> DEFINE cs == [i \in DOMAIN calls |-> [calls[i] EXCEPT !.then = None]]
               t == [tab EXCEPT !.timers = 0]
    <2>1. DOMAIN calls = 1..Len(calls) /\ Len(calls) \in Nat
      BY DEF CallsOK
    <2>2. Len(cs) = Len(calls)
      BY <2>1
    <2>3. CallList(cs)
      BY <2>1, <2>2 DEF CallList, CallsOK, CallFields
    <2>4. Mount(name, t, cs) /\ DOMAIN t = TabFields
      BY <1>1, <1>3 DEF Open
    <2> HIDE DEF cs, t
    <2> QED
      BY <2>2, <2>3, <2>4, MountGoesOn
  <1>4. CASE OtherClient
    <2>1. PICK x \in scene.direct : Send(Request(x.route, x.user, x.body, None, {}))
      BY <1>4 DEF OtherClient
    <2> DEFINE r == Request(x.route, x.user, x.body, None, {})
    <2>2. DOMAIN r = CallFields /\ DOMAIN r.answer = AnswerFields /\ r.then = None /\ Send(r)
      BY <2>1, RequestFields DEF Request
    <2>3. tab' = tab
      BY <1>4 DEF OtherClient
    <2> HIDE DEF r
    <2> QED
      BY <2>2, <2>3, SendGoesOn, CallbacksAssumption DEF SameFigures, SameVisit
  <1>5. CASE Logout
    <2> DEFINE t == [tab EXCEPT !.token = None]
    <2>1. DOMAIN t = TabFields /\ t.page.name # "login" /\ Push("login", t, calls)
      BY <1>1, <1>5, NoLogoutOnLogin DEF Logout, TabFields
    <2> HIDE DEF t
    <2>2. Mount("login", t, calls)
      BY <2>1 DEF Push
    <2> QED
      BY <1>1, <2>1, <2>2, MountGoesOn
  <1>6. CASE SubmitLogin \/ SubmitRegister \/ SubmitTransfer
    <2>1. tab.page.name # "dashboard"
      BY <1>6, DashboardOffers DEF SubmitLogin, SubmitRegister, SubmitTransfer
    <2>2. tab'.page.name = tab.page.name
      <3>1. PICK a, b : tab' = [tab EXCEPT !.page.loading = a, !.page.error = b] \/ tab' = [tab EXCEPT !.page.error = b]
        BY <1>6 DEF SubmitLogin, SubmitRegister, SubmitTransfer
      <3> QED
        BY <3>1, FlagsStay DEF SamePage
    <2>3. \/ calls' = calls
          \/ \E route, user, body, seen : Send(Request(route, user, body, "answer", seen))
      BY <1>6 DEF SubmitLogin, SubmitRegister, SubmitTransfer, AuthFetch
    <2> QED
      BY <2>1, <2>2, <2>3, RequestOfForm, FormGoesOn
  <1>7. CASE SaveProfile \/ ChangeSetting
    <2>1. tab.page.name # "dashboard" /\ tab' = tab
      BY <1>7, DashboardOffers DEF SaveProfile, ChangeSetting
    <2>2. CASE SaveProfile
      <3>1. \E route, user, body, seen : Send(Request(route, user, body, "answer", seen))
        BY <2>2 DEF SaveProfile, AuthFetch
      <3> QED
        BY <2>1, <3>1, RequestOfForm, FormGoesOn
    <2>3. CASE ChangeSetting
      <3>1. PICK body : Send([AuthFetch("PUT/settings", body) EXCEPT !.seen = tab.page.settings])
        BY <2>3 DEF ChangeSetting
      <3> DEFINE q == AuthFetch("PUT/settings", body)
                 r == [q EXCEPT !.seen = tab.page.settings]
      <3>2. DOMAIN q = CallFields /\ DOMAIN q.answer = AnswerFields /\ q.then = "answer"
        BY RequestFields DEF AuthFetch, Request
      <3> HIDE DEF q
      <3>3. DOMAIN r = CallFields /\ DOMAIN r.answer = AnswerFields /\ r.then = "answer"
        BY <3>2 DEF CallFields
      <3>4. Send(r)
        BY <3>1 DEF q
      <3> HIDE DEF r
      <3> QED
        BY <2>1, <3>3, <3>4, FormGoesOn
    <2> QED
      BY <1>7, <2>2, <2>3
  <1>8. CASE Toggle
    <2>1. tab.page.name # "dashboard"
      BY <1>8, DashboardOffers DEF Toggle
    <2>2. PICK a : tab' = [tab EXCEPT !.page.open = a]
      BY <1>8 DEF Toggle
    <2>3. tab'.page.name = tab.page.name
      BY <2>2, FlagsStay DEF SamePage
    <2> QED
      BY <1>8, <2>1, <2>3, FormGoesOn DEF Toggle
  <1>9. CASE AddBeneficiary \/ RemoveBeneficiary \/ CreateTicket
    <2>1. tab.page.name # "dashboard"
      BY <1>9, DashboardOffers DEF AddBeneficiary, RemoveBeneficiary, CreateTicket
    <2>2. PICK a : tab' = [tab EXCEPT !.page.overlap = a]
      BY <1>9 DEF AddBeneficiary, RemoveBeneficiary, CreateTicket
    <2>3. tab'.page.name = tab.page.name
      BY <2>2, FlagsStay DEF SamePage
    <2>4. \E route, user, body, seen : Send(Request(route, user, body, "answer", seen))
      BY <1>9 DEF AddBeneficiary, RemoveBeneficiary, CreateTicket, AuthFetch
    <2> QED
      BY <2>1, <2>3, <2>4, RequestOfForm, FormGoesOn
  <1> QED
    BY <1>2, <1>3, <1>4, <1>5, <1>6, <1>7, <1>8, <1>9 DEF User

LEMMA CallbackGoesOn ==
    ASSUME ShowInv, OneReader(calls), NothingSent(tab.page.name, calls), Callback, ~LoadAnswered
    PROVE  PageGoesOn
  <1>1. CallsOK /\ TabOK /\ DOMAIN tab = TabFields /\ CallList(calls)
    BY DEF ShowInv, OwnInv, TabOK, CallList, CallsOK
  <1>2. CASE TimerFires
    <2> DEFINE t == [tab EXCEPT !.timers = @ - 1]
    <2>1. Push("transactions", t, calls) /\ DOMAIN t = TabFields /\ t.page = tab.page
      BY <1>1, <1>2 DEF TimerFires, TabFields
    <2> HIDE DEF t
    <2>2. CASE Mount("transactions", t, calls)
      BY <1>1, <2>1, <2>2, MountGoesOn
    <2>3. CASE tab' = t /\ calls' = calls
      BY <2>1, <2>3, SameGoesOn DEF SameFigures, SameVisit
    <2> QED
      BY <2>1, <2>2, <2>3 DEF Push
  <1>3. ASSUME NEW i \in DOMAIN calls, SignedIn(i) PROVE PageGoesOn
    <2>1. CASE calls[i].answer.status = 200
      <3> DEFINE t == [tab EXCEPT !.token = NamedBy(i), !.crossed = TRUE]
      <3>1. Push("dashboard", t, Forget(i)) /\ DOMAIN t = TabFields /\ t.page = tab.page
        BY <1>1, <1>3, <2>1 DEF SignedIn, Succeeded, NamedBy, TabFields
      <3> HIDE DEF t
      <3>2. CASE Mount("dashboard", t, Forget(i))
        <4>1. CallList(Forget(i)) /\ Len(Forget(i)) = Len(calls)
          BY <1>1, ForgetEffect
        <4> QED
          BY <1>1, <3>1, <3>2, <4>1, MountGoesOn
      <3>3. CASE tab' = t /\ calls' = Forget(i)
        BY <1>1, <3>1, <3>3, ForgetGoesOn DEF SameFigures, SameVisit
      <3> QED
        BY <3>1, <3>2, <3>3 DEF Push
    <2>2. CASE calls[i].answer.status # 200
      <3>1. PICK a, b : tab' = tab \/ tab' = [tab EXCEPT !.page.loading = a, !.page.error = b]
        BY <1>3, <2>2 DEF SignedIn, Succeeded
      <3>2. calls' = Forget(i)
        BY <1>3, <2>2 DEF SignedIn, Succeeded
      <3>3. SameFigures(tab.page, tab'.page)
        <4>1. tab'.page.data = tab.page.data /\ tab'.page.list = tab.page.list
          BY <1>1, <3>1, FlagsStay
        <4>2. tab'.page.name = tab.page.name /\ tab'.page.overlap = tab.page.overlap /\ tab'.page.opened = tab.page.opened
          BY <1>1, <3>1, OtherMoves
        <4> QED
          BY <4>1, <4>2 DEF SameFigures, SameVisit
      <3> QED
        BY <1>1, <3>2, <3>3, ForgetGoesOn DEF SameFigures, SameVisit
    <2> QED
      BY <2>1, <2>2
  <1>4. ASSUME NEW i \in DOMAIN calls, NEW route, Answered(i, route),
               route \in {"POST/beneficiaries", "DELETE/beneficiaries", "POST/support", "PUT/profile",
                          "PUT/settings", "POST/transfer"}
        PROVE  tab.page.name # "dashboard"
    <2>1. calls[i].then # None /\ calls[i].route = route /\ ~Auth(calls[i])
      BY <1>4 DEF Answered, Auth
    <2>2. calls[i].then # "load"
      BY <1>4, <2>1 DEF ShowInv, Fetched
    <2> QED
      BY <2>1, <2>2 DEF NothingSent
  <1>5. ASSUME NEW i \in DOMAIN calls, tab.page.name # "dashboard", calls' = Forget(i), tab'.page.name = tab.page.name
        PROVE  PageGoesOn
    BY <1>1, <1>5, ForgetGoesOn
  <1>6. ASSUME NEW i \in DOMAIN calls, BeneficiaryAdded(i) \/ BeneficiaryDeleted(i) \/ TicketCreated(i) PROVE PageGoesOn
    <2>1. tab.page.name # "dashboard" /\ calls' = Forget(i)
      BY <1>4, <1>6 DEF BeneficiaryAdded, BeneficiaryDeleted, TicketCreated
    <2>2. PICK a, b : \/ tab' = tab
                      \/ tab' = [tab EXCEPT !.page.list = a]
                      \/ tab' = [tab EXCEPT !.page.list = a, !.page.open = b]
      BY <1>6 DEF BeneficiaryAdded, BeneficiaryDeleted, TicketCreated
    <2>3. tab'.page.name = tab.page.name
      <3>1. CASE tab' = [tab EXCEPT !.page.list = a]
        BY <1>1, <3>1, PageMoves
      <3>2. CASE tab' = [tab EXCEPT !.page.list = a, !.page.open = b]
        BY <1>1, <3>2, PageMoves
      <3>3. CASE tab' = tab
        BY <3>3
      <3> QED
        BY <2>2, <3>1, <3>2, <3>3
    <2> QED
      BY <1>5, <2>1, <2>3
  <1>7. ASSUME NEW i \in DOMAIN calls, ProfileSaved(i) \/ SettingChanged(i) \/ TransferAnswered(i) PROVE PageGoesOn
    <2>1. tab.page.name # "dashboard" /\ calls' = Forget(i)
      BY <1>4, <1>7 DEF ProfileSaved, SettingChanged, TransferAnswered
    <2>2. PICK a, b, c :
            \/ tab' = tab
            \/ tab' = [tab EXCEPT !.page.data = a, !.page.open = b]
            \/ tab' = [tab EXCEPT !.page.settings = a]
            \/ tab' = [tab EXCEPT !.page.loading = a, !.page.error = b]
            \/ tab' = [tab EXCEPT !.page.loading = a, !.page.success = b, !.timers = c]
      BY <1>7 DEF ProfileSaved, SettingChanged, TransferAnswered
    <2>3. tab'.page.name = tab.page.name
      <3>1. CASE tab' = tab
        BY <3>1
      <3>2. CASE tab' = [tab EXCEPT !.page.data = a, !.page.open = b]
        BY <1>1, <3>2, OtherMoves
      <3>3. CASE tab' = [tab EXCEPT !.page.settings = a]
        BY <1>1, <3>3, OtherMoves
      <3>4. CASE tab' = [tab EXCEPT !.page.loading = a, !.page.error = b]
        BY <1>1, <3>4, OtherMoves
      <3>5. CASE tab' = [tab EXCEPT !.page.loading = a, !.page.success = b, !.timers = c]
        BY <1>1, <3>5, OtherMoves
      <3> QED
        BY <2>2, <3>1, <3>2, <3>3, <3>4, <3>5
    <2> QED
      BY <1>5, <2>1, <2>3
  <1> QED
    BY <1>2, <1>3, <1>6, <1>7 DEF Callback

\* A dashboard that has just been opened, with no transfer under way.
LEMMA OpenedTotals ==
    ASSUME CallsOK, PageStep, faults \in Int, JustOpened
    PROVE  /\ Opened(tab'.page, calls', faults')
           /\ Undisturbed(tab'.page, calls', faults') => NoTransfer(calls') /\ TotalsRight(db', calls', tab'.page)
  <1> DEFINE p == tab'.page
  <1>1. p.data = None /\ p.opened = [calls |-> Len(calls), faults |-> faults]
        /\ p.overlap = \E i \in DOMAIN calls : Pending(i) /\ calls[i].route \in {"POST/transfer"}
    BY DEF JustOpened, Mounted, Rivals
  <1>2. /\ faults' = faults /\ db' = db /\ CallsOK' /\ Len(calls) <= Len(calls')
        /\ Len(calls) \in Nat /\ Len(calls') \in Nat
        /\ \A j \in DOMAIN calls : Leaves(calls[j], calls'[j])
        /\ \A j \in DOMAIN calls' : j \in DOMAIN calls \/ (j > Len(calls) /\ Fresh(calls'[j]))
    BY DEF PageStep, Sends, CallsOK
  <1>3. p.opened.calls = Len(calls) /\ p.opened.faults = faults
    BY <1>1
  <1> HIDE DEF p
  <1>4. Opened(p, calls', faults')
    BY <1>2, <1>3 DEF Opened
  <1>5. ASSUME Undisturbed(p, calls', faults') PROVE NoTransfer(calls')
    <2>1. \A j \in DOMAIN calls : ~Pending(j) \/ calls[j].route # "POST/transfer"
      BY <1>1, <1>5 DEF Undisturbed
    <2>2. ASSUME NEW j \in DOMAIN calls'
          PROVE  calls'[j].at \in {"answered", "done"} \/ calls'[j].route # "POST/transfer"
      <3>1. CASE j \in DOMAIN calls
        BY <1>2, <2>1, <3>1 DEF Leaves, Pending
      <3>2. CASE j \notin DOMAIN calls
        BY <1>2, <1>3, <1>5, <3>2 DEF Undisturbed
      <3> QED
        BY <3>1, <3>2
    <2> QED
      BY <2>2 DEF NoTransfer
  <1>6. TotalsRight(db', calls', p)
    <2>1. PageRight(p)
      BY <1>1 DEF PageRight
    <2>2. ASSUME NEW j \in DOMAIN calls', calls'[j].then = "load" PROVE Fresh(calls'[j])
      BY <1>2, <2>2 DEF JustOpened
    <2> QED
      BY <2>1, <2>2, FreshRight DEF TotalsRight
  <1> QED
    BY <1>4, <1>5, <1>6 DEF p

\* A dashboard that stays open.
LEMMA StayTotals ==
    ASSUME CallsOK, PageStep, WaitsForNoMore, SameVisit(tab.page, tab'.page), Opened(tab.page, calls, faults),
           Undisturbed(tab.page, calls, faults) =>
             NoTransfer(calls) /\ TotalsRight(db, calls, tab.page) /\ PageRight(tab'.page)
    PROVE  /\ Opened(tab'.page, calls', faults')
           /\ Undisturbed(tab'.page, calls', faults') => NoTransfer(calls') /\ TotalsRight(db', calls', tab'.page)
  <1> DEFINE p == tab.page
             q == tab'.page
  <1>1. q.overlap = p.overlap /\ q.opened = p.opened
    BY DEF SameVisit
  <1>2. /\ faults' = faults /\ CallsOK' /\ Len(calls) <= Len(calls')
        /\ Len(calls) \in Nat /\ Len(calls') \in Nat
        /\ DOMAIN calls \subseteq DOMAIN calls'
        /\ \A j \in DOMAIN calls : Leaves(calls[j], calls'[j])
        /\ \A j \in DOMAIN calls' : j \in Int /\ (j \in DOMAIN calls \/ j > Len(calls))
    BY DEF PageStep, Sends, CallsOK
  <1>3. Opened(q, calls', faults')
    BY <1>1, <1>2 DEF Opened
  <1>4. ASSUME Undisturbed(q, calls', faults') PROVE NoTransfer(calls') /\ TotalsRight(db', calls', q)
    <2>1. Undisturbed(p, calls, faults)
      BY <1>1, <1>2, <1>4 DEF Undisturbed, Leaves
    <2>2. NoTransfer(calls')
      <3>1. ASSUME NEW j \in DOMAIN calls' PROVE calls'[j].at \in {"answered", "done"} \/ calls'[j].route # "POST/transfer"
        <4>1. CASE j \in DOMAIN calls
          BY <1>2, <2>1, <4>1 DEF NoTransfer, Leaves
        <4>2. CASE j \notin DOMAIN calls
          <5>1. j > p.opened.calls
            BY <1>2, <4>2 DEF Opened
          <5> QED
            BY <1>1, <1>4, <5>1 DEF Undisturbed
        <4> QED
          BY <4>1, <4>2
      <3> QED
        BY <3>1 DEF NoTransfer
    <2>3. TotalsRight(db', calls', q)
      BY <2>1, PageCallsRight DEF WaitsForNoMore
    <2> QED
      BY <2>2, <2>3
  <1> QED
    BY <1>3, <1>4

LEMMA NextTotals == TotalsInv /\ [Next]_vars => TotalsInv'
  <1> SUFFICES ASSUME TotalsInv, [Next]_vars PROVE TotalsInv'
    OBVIOUS
  <1>1. /\ MoneyBase /\ ShowInv /\ MoneyBase' /\ ShowInv' /\ CallsOK /\ TabOK /\ AccountsOK(db) /\ AccountsOK(db')
        /\ OneReader(calls) /\ NothingSent(tab.page.name, calls)
    BY NextMoney, NextShow DEF TotalsInv, MoneyBase, ShowInv, OwnInv
  <1>2. faults \in Int
    BY <1>1 DEF MoneyBase, RegInv
  <1>3. ASSUME NEW i \in DOMAIN calls, Handle(i), UNCHANGED <<scene, tab>> PROVE TotalsInv'
    <2>1. /\ DOMAIN calls' = DOMAIN calls /\ Len(calls') = Len(calls) /\ (faults' = faults \/ faults' = faults - 1)
          /\ \A j \in DOMAIN calls : SameRequest(j) /\ calls'[j].then = calls[j].then
          /\ \A j \in DOMAIN calls : j # i => calls'[j] = calls[j]
          /\ calls[i].at \notin {"answered", "done"}
      BY <1>1, <1>3, HandlerMoves DEF Moves, Advances, Reaches, CallsOK, Pending
    <2>2. OneReader(calls')
      BY <1>1, <2>1 DEF OneReader, SameRequest
    <2>3. NothingSent(tab'.page.name, calls')
      BY <1>1, <1>3, <2>1 DEF NothingSent, SameRequest, Auth
    <2>4. ASSUME tab.page.name = "dashboard"
          PROVE  /\ Opened(tab.page, calls', faults')
                 /\ Undisturbed(tab.page, calls', faults') => NoTransfer(calls') /\ TotalsRight(db', calls', tab.page)
      <3>1. Opened(tab.page, calls, faults)
        BY <2>4 DEF TotalsInv
      <3>2. Opened(tab.page, calls', faults')
        BY <1>2, <2>1, <3>1 DEF Opened
      <3>3. ASSUME Undisturbed(tab.page, calls', faults') PROVE NoTransfer(calls') /\ TotalsRight(db', calls', tab.page)
        <4>1. faults' = faults
          BY <1>2, <2>1, <3>1, <3>3 DEF Undisturbed, Opened
        <4>2. Undisturbed(tab.page, calls, faults)
          BY <2>1, <3>3, <4>1 DEF Undisturbed, SameRequest
        <4>3. NoTransfer(calls) /\ TotalsRight(db, calls, tab.page) /\ calls[i].route # "POST/transfer"
          BY <2>1, <2>4, <4>2 DEF TotalsInv, NoTransfer
        <4>4. NoTransfer(calls')
          BY <2>1, <4>3 DEF NoTransfer, SameRequest
        <4> QED
          BY <1>1, <1>3, <2>1, <4>1, <4>3, <4>4, HandlerRight
      <3> QED
        BY <3>2, <3>3
    <2> QED
      BY <1>1, <1>3, <2>2, <2>3, <2>4 DEF TotalsInv
  <1>4. CASE Callback \/ User \/ OtherClient
    <2>1. PageStep
      BY <1>1, <1>4, CallbackSends, UserSends DEF ShowInv, OwnInv
    <2>2. CASE PageGoesOn
      <3>1. ASSUME tab'.page.name = "dashboard"
            PROVE  /\ Opened(tab'.page, calls', faults')
                   /\ Undisturbed(tab'.page, calls', faults') => NoTransfer(calls') /\ TotalsRight(db', calls', tab'.page)
        <4>1. CASE JustOpened
          BY <1>1, <1>2, <2>1, <4>1, OpenedTotals
        <4>2. CASE StaysOpen
          BY <1>1, <2>1, <4>2, StayTotals DEF StaysOpen, TotalsInv, TotalsRight
        <4> QED
          BY <2>2, <3>1, <4>1, <4>2 DEF PageGoesOn
      <3> QED
        BY <1>1, <2>2, <3>1 DEF TotalsInv, PageGoesOn
    <2>3. CASE LoadAnswered
      <3>1. OneReader(calls') /\ NothingSent(tab'.page.name, calls') /\ WaitsForNoMore
        BY <1>1, <2>3, LoadTakesAll
      <3>2. SameVisit(tab.page, tab'.page)
        BY <1>1, <2>3, LoadVisits
      <3>3. ASSUME tab'.page.name = "dashboard"
            PROVE  /\ Opened(tab'.page, calls', faults')
                   /\ Undisturbed(tab'.page, calls', faults') => NoTransfer(calls') /\ TotalsRight(db', calls', tab'.page)
        <4>1. tab.page.name = "dashboard" /\ Opened(tab.page, calls, faults)
          BY <3>2, <3>3 DEF SameVisit, TotalsInv
        <4>2. ASSUME Undisturbed(tab.page, calls, faults)
              PROVE  NoTransfer(calls) /\ TotalsRight(db, calls, tab.page) /\ PageRight(tab'.page)
          BY <1>1, <2>3, <4>1, <4>2, LoadGoesOn DEF TotalsInv
        <4> QED
          BY <1>1, <2>1, <3>1, <3>2, <4>1, <4>2, StayTotals
      <3> QED
        BY <1>1, <3>1, <3>3 DEF TotalsInv
    <2> QED
      BY <1>1, <1>4, <2>2, <2>3, CallbackGoesOn, UserGoesOn
  <1>5. ASSUME NEW i \in DOMAIN calls, ConnectionFails(i) PROVE TotalsInv'
    <2>1. Answers(i, -1, {}) /\ faults' = faults - 1 /\ scene' = scene /\ tab' = tab
      BY <1>1, <1>5, ConnectionFailsEffect
    <2>2. /\ DOMAIN calls' = DOMAIN calls /\ Len(calls') = Len(calls)
          /\ \A j \in DOMAIN calls : SameRequest(j) /\ calls'[j].then = calls[j].then
      BY <1>1, <2>1 DEF Answers, Reaches, CallsOK
    <2>3. OneReader(calls') /\ NothingSent(tab'.page.name, calls')
      BY <1>1, <2>1, <2>2 DEF OneReader, NothingSent, SameRequest, Auth
    <2>4. tab.page.name = "dashboard" => Opened(tab.page, calls', faults') /\ ~Undisturbed(tab.page, calls', faults')
      BY <1>2, <2>1, <2>2 DEF TotalsInv, Opened, Undisturbed
    <2> QED
      BY <1>1, <2>1, <2>3, <2>4 DEF TotalsInv
  <1>6. CASE UNCHANGED vars
    BY <1>1, <1>6 DEF vars, apiVars, TotalsInv
  <1> QED
    BY <1>3, <1>4, <1>5, <1>6 DEF Next, Serve

\* Two requests of several statements each read what the dashboard shows. Unless a
\* transfer was under way, or something failed, since this dashboard was opened, the
\* total is the sum of the accounts below it: transfers and failures before are in both
\* figures, accounts opened between the statements hold nothing, and both answers are
\* about one user.
THEOREM TotalsStayRight == Spec => []TotalsAgree
  <1>1. TotalsInv => TotalsAgree
    <2> SUFFICES ASSUME TotalsInv, tab.page.name = "dashboard", View(tab.page).kind = "page",
                        Undisturbed(tab.page, calls, faults)
                 PROVE  StatCard(tab.page.data, "total") = CardSum(tab.page.list)
      BY DEF TotalsAgree, Undisturbed, CardSum
    <2>1. PageRight(tab.page)
      BY DEF TotalsInv, TotalsRight
    <2>2. tab.page.data # None
      BY DEF View, DashboardView, Spinner, Blank
    <2> QED
      BY <2>1, <2>2 DEF PageRight
  <1> QED
    BY <1>1, InitTotals, NextTotals, PTL DEF Spec
=============================================================================

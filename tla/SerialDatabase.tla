--------------------------- MODULE SerialDatabase ---------------------------
(***************************************************************************)
(* What a client of single, auto-committed statements is promised: each    *)
(* database is one log of statements; a statement takes effect at one      *)
(* moment between its call and its answer, at the end of the log; it is    *)
(* answered "ok" if and only if it took effect; nothing leaves the log.    *)
(* A statement in flight when the connection breaks may have taken effect  *)
(* or not, and never does later.                                           *)
(***************************************************************************)
EXTENDS Sequences, Naturals

CONSTANTS Names, Writes, None

VARIABLES log,      \* name -> statements that took effect, in order
          answer,   \* statement -> what its client knows of it
          sentTo    \* statement -> the database it was sent to, or None

svars == <<log, answer, sentTo>>

InLog(w) == \E d \in Names : \E i \in 1..Len(log[d]) : log[d][i] = w

Init ==
    /\ log = [d \in Names |-> <<>>]
    /\ answer = [w \in Writes |-> "unsent"]
    /\ sentTo = [w \in Writes |-> None]

Send(w) ==
    /\ answer[w] = "unsent"
    /\ answer' = [answer EXCEPT ![w] = "pending"]
    /\ \E d \in Names : sentTo' = [sentTo EXCEPT ![w] = d]
    /\ UNCHANGED log

TakeEffect(w) ==
    /\ answer[w] = "pending"
    /\ ~InLog(w)
    /\ log' = [log EXCEPT ![sentTo[w]] = Append(@, w)]
    /\ UNCHANGED <<answer, sentTo>>

Answer(w) ==
    /\ answer[w] = "pending"
    /\ answer' = [answer EXCEPT ![w] = IF InLog(w) THEN "ok" ELSE "error"]
    /\ UNCHANGED <<log, sentTo>>

\* The server dies: every client that waits is left without an answer.
Disconnect ==
    /\ answer' = [w \in Writes |-> IF answer[w] = "pending" THEN "unknown" ELSE answer[w]]
    /\ UNCHANGED <<log, sentTo>>

Next ==
    \/ \E w \in Writes : Send(w) \/ TakeEffect(w) \/ Answer(w)
    \/ Disconnect

Spec == Init /\ [][Next]_svars
=============================================================================

---------------------------- MODULE MCWwfsServer ----------------------------
(* Instances of WwfsServer for TLC. *)
EXTENDS WwfsServer, TLC

\* Handlers, sessions and statements are interchangeable in the safety runs.
Symmetry == Permutations(Handlers) \cup Permutations(Sessions) \cup Permutations(Writes)

\* A bound of the live run on the calls clients make, in two scenes.  Until the
\* first UNION they make any call; from then on only more UNIONs, enough to
\* fill the queue while the worker is busy, and BEGINs.  Idle handlers and
\* unsent UNIONs are taken in one order, for they are interchangeable.
Starts(h) == task[h].pc = "idle" /\ task'[h].pc # "idle"
Sent(S) == {w \in S : outcome[w] # "unsent"}
InScenes ==
    \A h \in Handlers : Starts(h) =>
       /\ h = CHOOSE g \in Handlers : task[g].pc = "idle"
       /\ task'[h].stmt \in Unions =>
             /\ task'[h].stmt = CHOOSE u \in Unions : outcome[u] = "unsent"
             /\ Sent(Writes) = {}
             /\ \A g \in Handlers :
                   task[g].op \in {"none", "begin"} \/ task[g].stmt \in Unions
       /\ Sent(Unions) # {} => task'[h].op = "begin" \/ task'[h].stmt \in Unions
=============================================================================

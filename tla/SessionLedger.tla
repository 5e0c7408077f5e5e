--------------------------- MODULE SessionLedger ----------------------------
(***************************************************************************)
(* What the session endpoints promise, whatever calls they are made of: a  *)
(* ledger of refresh sessions.  A session is opened for one user, is live  *)
(* once and over for good; one that replaces another comes after its end;  *)
(* whoever is told that sessions are over can rely on it.                  *)
(*                                                                         *)
(* The ledger knows no requests, no access keys and no failures.  Module   *)
(* AuthSessions implements it.                                             *)
(***************************************************************************)
CONSTANTS Users, Pairs, None

VARIABLES
    life,    \* "none", "live" or "over"
    holder,  \* the user a session belongs to
    source,  \* the session it replaced, None: a login
    told     \* sessions that somebody was told are over

ledger == <<life, holder, source, told>>

Init ==
    /\ life = [p \in Pairs |-> "none"]
    /\ holder = [p \in Pairs |-> None]
    /\ source = [p \in Pairs |-> None]
    /\ told = {}

Live(u) == {p \in Pairs : life[p] = "live" /\ holder[p] = u}
Over(u) == {p \in Pairs : life[p] = "over" /\ holder[p] = u}

Record(u, p, q) ==
    /\ life[p] = "none"
    /\ life' = [life EXCEPT ![p] = "live"]
    /\ holder' = [holder EXCEPT ![p] = u]
    /\ source' = [source EXCEPT ![p] = q]
    /\ UNCHANGED told

\* A login.
Open(u, p) == Record(u, p, None)

\* A refresh: a session that is over goes on as a new one of the same user.
Exchange(u, p) == \E q \in Over(u) : Record(u, p, q)

\* A refresh, a logout, a logout-all or a reset ends sessions of one user.
End(u) == \E P \in SUBSET Live(u) :
    /\ life' = [p \in Pairs |-> IF p \in P THEN "over" ELSE life[p]]
    /\ UNCHANGED <<holder, source, told>>

\* A 200 of a logout, a logout-all or a reset.
Tell(u) == \E P \in SUBSET Over(u) :
    /\ told' = told \cup P
    /\ UNCHANGED <<life, holder, source>>

Next == \E u \in Users : \/ End(u) \/ Tell(u)
                         \/ \E p \in Pairs : Open(u, p) \/ Exchange(u, p)

Spec == Init /\ [][Next]_ledger
=============================================================================

--------------------------- MODULE ServiceLedger ---------------------------
(***************************************************************************)
(* What the HTTPRoute controller promises about the services it pays for,   *)
(* whatever it does to keep the promise: a ledger with one account per      *)
(* service.  A pass for a route opens accounts and holds them; one commit   *)
(* turns all it holds into recorded accounts, and a pass that ends without  *)
(* a commit loses them.  A route and a backend (an account's key) have at   *)
(* most one recorded account.  A recorded account is closed only by a pass  *)
(* for its own route while that route is closing, and lost only then.  A    *)
(* route goes when nothing of it is held or recorded.                       *)
(*                                                                          *)
(* There are no annotations, caches, versions or calls here.                *)
(***************************************************************************)
CONSTANTS
    Routes,      \* those for whom accounts are kept
    Backends,    \* the second half of a key
    ServiceIDs,  \* accounts
    None         \* the absent value

VARIABLES
    account,     \* [ServiceIDs -> Standing]
    key,         \* [ServiceIDs -> Key]: what an account was opened for
    life,        \* [Routes -> {"open", "closing", "gone"}]
    pass         \* the route whose pass is under way, or None

ledgerVars == <<account, key, life, pass>>

Standing == {"unborn", "held", "recorded", "lost", "ended"}
Key == (Routes \X Backends) \union {<<None, None>>}

Init ==
    /\ account = [s \in ServiceIDs |-> "unborn"]
    /\ key = [s \in ServiceIDs |-> <<None, None>>]
    /\ life = [r \in Routes |-> "open"]
    /\ pass = None

In(standing) == {s \in ServiceIDs : account[s] = standing}
KeptFor(r) == {s \in In("held") \union In("recorded") : key[s][1] = r}

\* Every account of ss, and no other, moves to a standing.
Move(ss, standing) ==
    account' = [s \in ServiceIDs |-> IF s \in ss THEN standing ELSE account[s]]

Begin(r) ==
    /\ pass = None
    /\ pass' = r
    /\ UNCHANGED <<account, key, life>>

\* The pass opens an account for a route that is not gone, and holds it,
\* unless it holds one for that key.
Open(s, k) ==
    /\ s \in In("unborn") /\ pass # None /\ life[pass] # "gone"
    /\ \A t \in In("held") : key[t] # k
    /\ Move({s}, "held")
    /\ key' = [key EXCEPT ![s] = k]
    /\ UNCHANGED <<life, pass>>

\* It opens one and is not told.
OpenUnseen(s, k) ==
    /\ s \in In("unborn") /\ pass # None /\ life[pass] # "gone"
    /\ Move({s}, "lost")
    /\ key' = [key EXCEPT ![s] = k]
    /\ UNCHANGED <<life, pass>>

\* All that is held is recorded at once, and replaces nothing that is recorded.
Commit ==
    /\ In("held") # {}
    /\ \A s \in In("held"), t \in In("recorded") : key[s] # key[t]
    /\ Move(In("held"), "recorded")
    /\ UNCHANGED <<key, life, pass>>

\* The pass ends; what it still holds is lost.
End ==
    /\ pass # None /\ pass' = None
    /\ Move(In("held"), "lost")
    /\ UNCHANGED <<key, life>>

\* A pass for a closing route closes one of its accounts, or fails to.
Delete(s) ==
    /\ s \in In("recorded") \union In("lost")
    /\ key[s][1] = pass /\ life[pass] = "closing"
    /\ Move({s}, "ended") \/ Move({s}, "lost")
    /\ UNCHANGED <<key, life, pass>>

\* A pass that has no means to close them gives all accounts of a closing route up.
Disown(r) ==
    /\ pass = None /\ life[r] = "closing"
    /\ pass' = r
    /\ Move(KeptFor(r), "lost")
    /\ UNCHANGED <<key, life>>

\* Somebody else closes an account.
Removed(s) ==
    /\ account[s] \in {"held", "recorded", "lost"}
    /\ Move({s}, "ended")
    /\ UNCHANGED <<key, life, pass>>

\* All accounts and the pass end together with the process that keeps them.
Collapse ==
    /\ Move(ServiceIDs \ In("unborn"), "ended")
    /\ pass' = None
    /\ UNCHANGED <<key, life>>

Close(r) ==
    /\ life[r] = "open"
    /\ life' = [life EXCEPT ![r] = "closing"]
    /\ UNCHANGED <<account, key, pass>>

\* With its last pass, or beside one that has opened nothing.
Leave(r) ==
    /\ life[r] # "gone" /\ KeptFor(r) = {}
    /\ life' = [life EXCEPT ![r] = "gone"]
    /\ pass' \in {pass, IF pass = r THEN None ELSE pass}
    /\ UNCHANGED <<account, key>>

\* Most of what the controller does changes nothing here.
Next ==
    \/ UNCHANGED ledgerVars
    \/ \E r \in Routes : Begin(r) \/ Disown(r) \/ Close(r) \/ Leave(r)
    \/ \E s \in ServiceIDs :
          \/ \E b \in Backends : Open(s, <<pass, b>>) \/ OpenUnseen(s, <<pass, b>>)
          \/ Delete(s) \/ Removed(s)
    \/ Commit \/ End \/ Collapse

Spec == Init /\ [][Next]_ledgerVars
=============================================================================

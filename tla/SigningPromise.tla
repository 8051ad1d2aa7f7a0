--------------------------- MODULE SigningPromise ---------------------------
(***************************************************************************)
(* What the wallet promises a dApp about its calls, without windows,       *)
(* screens, sessions or storage: a call is answered at once or waits for   *)
(* the user; a waiting call is answered exactly once, when it stops        *)
(* waiting; and a site has few, distinct calls waiting.  DappApproval      *)
(* implements this specification.                                          *)
(***************************************************************************)
EXTENDS Naturals, FiniteSets

CONSTANTS
    Requests,       \* the calls
    SiteOf,         \* the site that makes each call
    Content,        \* everything the call asks, as a value
    MaxWaiting,     \* calls of one site that may wait together
    Replies,        \* what a dApp can be told
    Nothing         \* not told yet

VARIABLES waiting, told

Init ==
    /\ waiting = {}
    /\ told = [r \in Requests |-> Nothing]

Untold == {r \in Requests : told[r] = Nothing /\ r \notin waiting}

\* A call answered without the user.
Answer(r) ==
    /\ r \in Untold
    /\ \E a \in Replies : told' = [told EXCEPT ![r] = a]
    /\ UNCHANGED waiting

\* A call that starts to wait for the user.
Wait(r) ==
    /\ r \in Untold
    /\ \A p \in waiting : Content[p] # Content[r]
    /\ Cardinality({p \in waiting : SiteOf[p] = SiteOf[r]}) < MaxWaiting
    /\ waiting' = waiting \cup {r}
    /\ UNCHANGED told

\* A waiting call is decided, and answered in the same step.
Decide(r) ==
    /\ r \in waiting
    /\ waiting' = waiting \ {r}
    /\ \E a \in Replies : told' = [told EXCEPT ![r] = a]

\* The wallet goes away: whoever was owed an answer learns it at once.
GoAway ==
    /\ waiting' = {}
    /\ \E S \in SUBSET Untold, a \in Replies :
         told' = [r \in Requests |-> IF r \in waiting \cup S THEN a ELSE told[r]]

Next ==
    \/ \E r \in Requests : Answer(r) \/ Wait(r) \/ Decide(r)
    \/ GoAway

Spec == Init /\ [][Next]_<<waiting, told>>
=============================================================================

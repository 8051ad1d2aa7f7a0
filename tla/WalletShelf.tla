---------------------------- MODULE WalletShelf ----------------------------
(***************************************************************************)
(* What the extension promises about wallets, without storage calls: a     *)
(* shelf of at most MaxWallets wallets, one of them in front, and only the *)
(* one in front can be open.  A wallet leaves the shelf only when it is    *)
(* removed.  VaultSession implements this specification as long as its     *)
(* handlers run one after another.                                         *)
(***************************************************************************)
EXTENDS Naturals, FiniteSets

CONSTANTS Wallets, MaxWallets, Nobody

VARIABLES
    shelf,    \* the wallets that exist
    front,    \* the active wallet, Nobody if there is none
    open      \* the unlocked wallet, or Nobody

shelfVars == <<shelf, front, open>>

Init ==
    /\ shelf \in SUBSET Wallets
    /\ front \in shelf \cup {Nobody}
    /\ shelf # {} => front # Nobody
    /\ open = Nobody

\* A new wallet is stored while nothing is open; the first one is in front.
Add(w) ==
    /\ w \in Wallets \ shelf
    /\ Cardinality(shelf) < MaxWallets
    /\ open = Nobody
    /\ shelf' = shelf \cup {w}
    /\ front' = IF shelf = {} THEN w ELSE front
    /\ UNCHANGED open

\* Another wallet comes to the front; at most that one is then open.
Show(w) ==
    /\ w \in shelf
    /\ front' = w
    /\ open' \in {w, Nobody}
    /\ UNCHANGED shelf

\* Removing the wallet in front brings another one there, closed.
Remove(w) ==
    /\ w \in shelf
    /\ shelf' = shelf \ {w}
    /\ open' = IF open = w THEN Nobody ELSE open
    /\ IF front = w
       THEN front' \in shelf' \cup {Nobody} /\ (shelf' # {} => front' # Nobody)
       ELSE UNCHANGED front

Close ==
    /\ open' = Nobody
    /\ UNCHANGED <<shelf, front>>

Next ==
    \/ \E w \in Wallets : Add(w) \/ Show(w) \/ Remove(w)
    \/ Close

Spec == Init /\ [][Next]_shelfVars
=============================================================================

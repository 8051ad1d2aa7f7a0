-------------------------- MODULE MCDappApproval --------------------------
(* Values for TLC: which calls the sites make, and symmetry.               *)
EXTENDS DappApproval, TLC

CONSTANTS r1, r2, r3, o1, p1, p2

Call(method, params) == [origin |-> o1, method |-> method, params |-> params]

\* A connected site sends one transaction.
AskSend == r1 :> Call("eth_sendTransaction", p1)

\* A site asks twice to be connected.
AskConnect == r1 :> Call("eth_requestAccounts", p1) @@ r2 :> Call("eth_requestAccounts", p1)

\* A site asks for two signatures and polls its accounts.
AskSign == r1 :> Call("personal_sign", p1) @@ r2 :> Call("personal_sign", p2)
           @@ r3 :> Call("eth_accounts", p1)

\* Interchangeable values (safety runs only).
SendSymmetry == Permutations(Fees) \cup Permutations(Wallets) \cup Permutations(Decisions)
PairSymmetry == Permutations({r1, r2})
=============================================================================

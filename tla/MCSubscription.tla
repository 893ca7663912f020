--------------------------- MODULE MCSubscription ---------------------------
(***************************************************************************)
(* Model-checking instance of Subscription: two accounts with equal        *)
(* genesis balances, so the accounts are symmetric.                        *)
(***************************************************************************)
EXTENDS Subscription

MCInitialFree == [a \in Accounts |-> 2]

\* Enough for a subscriber to pay for the same service more than once.
MCInitialFreeRenew == [a \in Accounts |-> 3]

MCSymmetry == Permutations(Accounts)

=============================================================================

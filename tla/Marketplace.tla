----------------------------- MODULE Marketplace -----------------------------
(***************************************************************************)
(* What the subscription pallet promises, without how it keeps it: a       *)
(* registry of publishers, a listing of services under indices that are   *)
(* never reused, the set of accounts with access to each service, and     *)
(* every account's total holding (free plus reserved).                     *)
(*                                                                         *)
(*  - only an approved publisher lists a service;                          *)
(*  - an index names one service forever, and a delisted service stays    *)
(*    delisted;                                                            *)
(*  - access to a listed service is granted only against its cost, paid   *)
(*    to its publisher, and only to an account without access;            *)
(*  - taking a service down forfeits exactly its bond, and nothing else    *)
(*    moves a holding.                                                     *)
(*                                                                         *)
(* Subscription refines this module (MCSubscription, property Refinement). *)
(***************************************************************************)
EXTENDS Naturals, Functions, TLC

CONSTANTS
  Accounts,  \* account identities
  Indices,   \* service indices
  Costs      \* the costs a service may ask

VARIABLES
  publishers, \* partial map account -> "Requested" | "Approved"
  listing,    \* partial map index -> [publisher, cost, bond, status]
  access,     \* set of <<index, account>> with access to the service
  holdings,   \* [Accounts -> Nat]: each account's total balance
  forfeited   \* total forfeited by takedowns

vars == <<publishers, listing, access, holdings, forfeited>>

Request(a) ==
  /\ a \notin DOMAIN publishers
  /\ publishers' = (a :> "Requested") @@ publishers
  /\ UNCHANGED <<listing, access, holdings, forfeited>>

Approve(a) ==
  /\ a \in DOMAIN publishers /\ publishers[a] = "Requested"
  /\ publishers' = [publishers EXCEPT ![a] = "Approved"]
  /\ UNCHANGED <<listing, access, holdings, forfeited>>

Revoke(a) ==
  /\ a \in DOMAIN publishers /\ publishers[a] = "Approved"
  /\ publishers' = Restrict(publishers, DOMAIN publishers \ {a})
  /\ UNCHANGED <<listing, access, holdings, forfeited>>

\* The bond is set aside from the publisher's holding, which it stays part
\* of until the takedown.
List(p, i) ==
  /\ p \in DOMAIN publishers /\ publishers[p] = "Approved"
  /\ i \notin DOMAIN listing
  /\ \E cost \in Costs, bond \in 0 .. holdings[p] :
       listing' = (i :> [publisher |-> p, cost |-> cost, bond |-> bond,
                         status |-> "Published"]) @@ listing
  /\ UNCHANGED <<publishers, access, holdings, forfeited>>

Listed(i) == i \in DOMAIN listing /\ listing[i].status = "Published"

Delist(i) ==
  LET s == listing[i] IN
  /\ Listed(i)
  /\ listing' = [listing EXCEPT ![i].status = "Unpublished", ![i].bond = 0]
  /\ holdings' = [holdings EXCEPT ![s.publisher] = @ - s.bond]
  /\ forfeited' = forfeited + s.bond
  /\ UNCHANGED <<publishers, access>>

Grant(a, i) ==
  LET s == listing[i] IN
  /\ Listed(i)
  /\ <<i, a>> \notin access
  /\ s.cost <= holdings[a]
  /\ access' = access \cup {<<i, a>>}
  /\ holdings' = [holdings EXCEPT ![a] = @ - s.cost, ![s.publisher] = @ + s.cost]
  /\ UNCHANGED <<publishers, listing, forfeited>>

Withdraw(a, i) ==
  /\ Listed(i)
  /\ <<i, a>> \in access
  /\ access' = access \ {<<i, a>>}
  /\ UNCHANGED <<publishers, listing, holdings, forfeited>>

Init ==
  /\ publishers = <<>>
  /\ listing = <<>>
  /\ access = {}
  /\ holdings \in [Accounts -> Nat]
  /\ forfeited = 0

Next ==
  \/ \E a \in Accounts : Request(a) \/ Approve(a) \/ Revoke(a)
  \/ \E p \in Accounts, i \in Indices : List(p, i)
  \/ \E i \in Indices : Delist(i)
  \/ \E a \in Accounts, i \in Indices : Grant(a, i) \/ Withdraw(a, i)

\* A renewal, a new block or a failed call changes none of this.
Spec == Init /\ [][Next]_vars

=============================================================================

---------------------------- MODULE Subscription ----------------------------
(***************************************************************************)
(* The subscription-service pallet (src/pallets/subscription/src/lib.rs)   *)
(* together with the part of the balances ledger it calls: reserve,       *)
(* transfer with KeepAlive and slash_reserved.                             *)
(*                                                                         *)
(* The host applies one extrinsic at a time, to completion or not at all,  *)
(* so every dispatchable is one atomic action.  A call that returns an    *)
(* error (or panics) is rolled back: it is a stuttering step.  Each        *)
(* handler's checks, in the code's order, are an operator <Name>Error     *)
(* giving the error the call returns ("Ok" if none); the action is         *)
(* enabled when it is Ok.  Names, descriptions and the contract link are  *)
(* abstracted to their lengths, which is all the pallet reads of them.    *)
(***************************************************************************)
EXTENDS Integers, FiniteSets, Functions, FiniteSetsExt, TLC

CONSTANTS
  Accounts,                 \* signed origins (model values)
  Root,                     \* the root origin
  ApproveOrigins,           \* origins T::ApproveOrigin admits
  ForceOrigins,             \* origins T::ForceOrigin admits
  BaseDeposit,              \* T::BaseDeposit
  DataDepositPerByte,       \* T::DataDepositPerByte
  MaximumNameLength,        \* T::MaximumNameLength
  MaximumDescriptionLength, \* T::MaximumDescriptionLength
  MaximumContractLength,    \* T::MaximumContractLength
  MaxPublishing,            \* T::MaxPublishing (declared; the pallet never reads it)
  ExistentialDeposit,       \* the ledger's existential deposit
  InitialFree,              \* [Accounts -> Nat], genesis free balances
  Costs,                    \* service costs a publisher may ask for
  MaybePeriodic,            \* maybe_periodic values publishers choose from
  NoPeriod,                 \* maybe_periodic = None / expire_on = None
  IndexWidth,               \* bit width of ServiceIndex (u32 in the code)
  OverflowChecks,           \* TRUE: `service_id + 1` panics on overflow
  MaxBlock                  \* bound on the block number

ASSUME Root \notin Accounts
ASSUME ApproveOrigins \subseteq Accounts \cup {Root}
ASSUME ForceOrigins \subseteq Accounts \cup {Root}
ASSUME InitialFree \in [Accounts -> Nat]
ASSUME NoPeriod \notin Nat /\ MaybePeriodic \subseteq Nat \cup {NoPeriod}
ASSUME IndexWidth \in Nat \ {0} /\ OverflowChecks \in BOOLEAN
ASSUME MaximumContractLength \in Nat /\ MaxPublishing \in Nat

Origins == Accounts \cup {Root}

\* ServiceIndex is an unsigned integer of IndexWidth bits.
ServiceIndex == 0 .. (2^IndexWidth - 1)
MaxServiceIndex == 2^IndexWidth - 1

VARIABLES
  approvedPublisher, \* ApprovedPublisher: partial map AccountId -> status
  serviceCount,      \* ServiceCount
  services,          \* Services: partial map ServiceIndex -> Service
  descriptions,      \* keys of ServiceDescriptions (content abstracted)
  subscriptions,     \* Subscriptions: partial map (index, account) -> record
  free,              \* ledger free balance of every account
  reserved,          \* ledger reserved balance of every account
  slashed,           \* total handed to T::OnSlash
  now,               \* frame_system block number
  observed           \* what a client folds out of the deposited events

storage == <<approvedPublisher, serviceCount, services, descriptions, subscriptions>>
ledger == <<free, reserved, slashed>>
vars == <<storage, ledger, now, observed>>

Ok == "Ok"

ServiceRecords ==
  [publisher: Accounts, cost: Costs, bond: Nat, maybe_periodic: MaybePeriodic,
   status: {"Published", "Unpublished"}]

\* enum PublisherStatus
PublisherStatus == {"Requested", "Approved"}

SubscriptionRecords ==
  [start_on: Nat, expire_on: Nat \cup {NoPeriod}, active: BOOLEAN]

(***************************************************************************)
(* The ledger collaborator (pallet_balances) as the pallet calls it.       *)
(***************************************************************************)

\* T::Currency::reserve(who, value): fails when free balance is too low.
CanReserve(who, value) == free[who] >= value

Reserve(who, value) ==
  /\ free' = [free EXCEPT ![who] = @ - value]
  /\ reserved' = [reserved EXCEPT ![who] = @ + value]

\* Mutant: the sender's free balance is not checked, only KeepAlive.
CanTransferNoFundsCheck(from, to, value) ==
  \/ value = 0
  \/ from = to
  \/ free[from] - value + reserved[from] >= ExistentialDeposit

\* T::Currency::transfer(from, to, value, KeepAlive): a zero amount or a
\* transfer to oneself succeeds and moves nothing; otherwise the sender must
\* afford it and keep a total balance of at least the existential deposit.
CanTransfer(from, to, value) ==
  \/ value = 0
  \/ from = to
  \/ /\ free[from] >= value
     /\ free[from] - value + reserved[from] >= ExistentialDeposit

Transfer(from, to, value) ==
  IF value = 0 \/ from = to
  THEN UNCHANGED free
  ELSE free' = [free EXCEPT ![from] = @ - value, ![to] = @ + value]

\* T::Currency::slash_reserved(who, value) passed to T::OnSlash: slashes
\* as much of value as is reserved.
SlashReserved(who, value) ==
  LET actual == IF value <= reserved[who] THEN value ELSE reserved[who]
  IN  /\ reserved' = [reserved EXCEPT ![who] = @ - actual]
      /\ slashed' = slashed + actual

\* ensure_signed(origin)
IsSigned(o) == o \in Accounts

(***************************************************************************)
(* Events.  A client that follows the chain reads the events each call     *)
(* deposits and folds them into its view: the publishers and their status, *)
(* the published services and the active subscriptions.  Observe is that  *)
(* client, not code of the pallet.                                         *)
(***************************************************************************)
Observe(v, e) ==
  CASE e.kind = "RequestApprovedPublished" ->
         [v EXCEPT !.publishers = (e.account :> "Requested") @@ @]
    [] e.kind = "PublisherApproved" ->
         [v EXCEPT !.publishers = (e.account :> "Approved") @@ @]
    [] e.kind = "PublisherRovokeApproval" ->
         [v EXCEPT !.publishers = Restrict(@, DOMAIN @ \ {e.account})]
    [] e.kind = "ServicePublished" -> [v EXCEPT !.published = @ \cup {e.service_id}]
    [] e.kind = "ServiceUnpublished" -> [v EXCEPT !.published = @ \ {e.service_id}]
    [] e.kind = "ServiceSubscribed" ->
         [v EXCEPT !.subscribed = @ \cup {<<e.service_id, e.account>>}]
    [] e.kind = "ServiceUnsubscribed" ->
         [v EXCEPT !.subscribed = @ \ {<<e.service_id, e.account>>}]
    [] e.kind = "SubscriptionRenew" -> v

\* Self::deposit_event(e): e is a record of the event's kind and the
\* service and account it names; block numbers are left out.
DepositEvent(e) == observed' = Observe(observed, e)

(***************************************************************************)
(* Publisher approval workflow.                                            *)
(***************************************************************************)

RequestApprovedPublisherError(o) ==
  IF ~IsSigned(o) THEN "BadOrigin"
  ELSE IF o \in DOMAIN approvedPublisher THEN "AlreadyApprovedOrRequested"
  ELSE Ok

RequestApprovedPublisher(o) ==
  LET err == RequestApprovedPublisherError(o) IN
  /\ err = Ok
  /\ approvedPublisher' = approvedPublisher @@ (o :> "Requested")
  /\ DepositEvent([kind |-> "RequestApprovedPublished", account |-> o])
  /\ UNCHANGED <<serviceCount, services, descriptions, subscriptions, ledger, now>>

ApprovePublisherError(o, a) ==
  IF o \notin ApproveOrigins THEN "BadOrigin"
  ELSE IF a \notin DOMAIN approvedPublisher THEN "NotRequestForApproval"
  ELSE IF approvedPublisher[a] # "Requested" THEN "AlreadyApprovedPublisher"
  ELSE Ok

ApprovePublisher(o, a) ==
  LET err == ApprovePublisherError(o, a) IN
  /\ err = Ok
  /\ approvedPublisher' = [approvedPublisher EXCEPT ![a] = "Approved"]
  /\ DepositEvent([kind |-> "PublisherApproved", account |-> a])
  /\ UNCHANGED <<serviceCount, services, descriptions, subscriptions, ledger, now>>

RevokePublisherError(o, a) ==
  IF o \notin ApproveOrigins THEN "BadOrigin"
  ELSE IF a \notin DOMAIN approvedPublisher THEN "NotRequestForApproval"
  ELSE IF approvedPublisher[a] # "Approved" THEN "NotApprovedPublisher"
  ELSE Ok

\* The entry is removed; the publisher's services are left as they are.
RevokePublisher(o, a) ==
  LET err == RevokePublisherError(o, a) IN
  /\ err = Ok
  /\ approvedPublisher' = Restrict(approvedPublisher, DOMAIN approvedPublisher \ {a})
  /\ DepositEvent([kind |-> "PublisherRovokeApproval", account |-> a])
  /\ UNCHANGED <<serviceCount, services, descriptions, subscriptions, ledger, now>>

(***************************************************************************)
(* Service lifecycle.                                                      *)
(***************************************************************************)

\* The fixed contract link every service gets, b"https://contract-link".
ContractLinkLength == 21

\* bond = BaseDeposit + DataDepositPerByte * (len(name) + len(description))
Bond(nameLen, descLen) == BaseDeposit + DataDepositPerByte * (nameLen + descLen)

\* Mutant: `service_id + 1` is not checked for overflow.
PublishServiceErrorUnchecked(o, nameLen, descLen) ==
  IF ~IsSigned(o) THEN "BadOrigin"
  ELSE IF o \notin DOMAIN approvedPublisher THEN "NotRequestForApproval"
  ELSE IF approvedPublisher[o] # "Approved" THEN "NotApprovedPublisher"
  ELSE IF nameLen > MaximumNameLength THEN "NameTooLong"
  ELSE IF descLen > MaximumDescriptionLength THEN "DescriptionTooLong"
  ELSE IF ~CanReserve(o, Bond(nameLen, descLen)) THEN "InsufficientPublisherBalance"
  ELSE IF ContractLinkLength > MaximumContractLength THEN "Panic"
  ELSE Ok

PublishServiceError(o, nameLen, descLen) ==
  IF ~IsSigned(o) THEN "BadOrigin"
  ELSE IF o \notin DOMAIN approvedPublisher THEN "NotRequestForApproval"
  ELSE IF approvedPublisher[o] # "Approved" THEN "NotApprovedPublisher"
  ELSE IF nameLen > MaximumNameLength THEN "NameTooLong"
  ELSE IF descLen > MaximumDescriptionLength THEN "DescriptionTooLong"
  ELSE IF ~CanReserve(o, Bond(nameLen, descLen)) THEN "InsufficientPublisherBalance"
  ELSE IF OverflowChecks /\ serviceCount = MaxServiceIndex THEN "Panic"
  ELSE IF ContractLinkLength > MaximumContractLength THEN "Panic"
  ELSE Ok

\* ServiceCount::put(service_id + 1) in IndexWidth-bit arithmetic.
NextServiceCount == (serviceCount + 1) % (2^IndexWidth)

\* The new service is stored under service_id = ServiceCount, overwriting
\* whatever is stored there.
PublishService(o, cost, nameLen, descLen, period) ==
  LET err == PublishServiceError(o, nameLen, descLen)
      id == serviceCount
      bond == Bond(nameLen, descLen)
  IN
  /\ err = Ok
  /\ Reserve(o, bond)
  /\ serviceCount' = NextServiceCount
  /\ services' = (id :> [publisher |-> o, cost |-> cost, bond |-> bond,
                         maybe_periodic |-> period, status |-> "Published"]) @@ services
  /\ descriptions' = descriptions \cup {id}
  /\ DepositEvent([kind |-> "ServicePublished", service_id |-> id])
  /\ UNCHANGED <<approvedPublisher, subscriptions, slashed, now>>

HasSubscription(id, a) == <<id, a>> \in DOMAIN subscriptions

IsActive(id, a) == HasSubscription(id, a) /\ subscriptions[<<id, a>>].active

\* Mutant: the AlreadySubscribed check is left out (it is commented out at
\* the top of the match arm in the code).
SubscribeServiceErrorNoActiveCheck(o, id) ==
  IF ~IsSigned(o) THEN "BadOrigin"
  ELSE IF id \notin DOMAIN services THEN "ServiceNotFound"
  ELSE IF services[id].status # "Published" THEN "ServiceAlreadyUnpublished"
  ELSE IF ~CanTransfer(o, services[id].publisher, services[id].cost)
       THEN "InsufficientSubscriberBalance"
  ELSE Ok

SubscribeServiceError(o, id) ==
  IF ~IsSigned(o) THEN "BadOrigin"
  ELSE IF id \notin DOMAIN services THEN "ServiceNotFound"
  ELSE IF services[id].status # "Published" THEN "ServiceAlreadyUnpublished"
  ELSE IF IsActive(id, o) THEN "AlreadySubscribed"
  ELSE IF ~CanTransfer(o, services[id].publisher, services[id].cost)
       THEN "InsufficientSubscriberBalance"
  ELSE Ok

\* expire_on = start_on + period for a periodic service, None otherwise.
ExpireOn(start, period) == IF period = NoPeriod THEN NoPeriod ELSE start + period

\* Mutant: only a first subscription is charged; reactivating an existing
\* record is free.
SubscribeServiceFreeRenewal(o, id) ==
  LET err == SubscribeServiceError(o, id) IN
  /\ err = Ok
  /\ LET svc == services[id] IN
     /\ IF HasSubscription(id, o) THEN UNCHANGED free
                                  ELSE Transfer(o, svc.publisher, svc.cost)
     /\ subscriptions' = (<<id, o>> :> [start_on |-> now,
                                        expire_on |-> ExpireOn(now, svc.maybe_periodic),
                                        active |-> TRUE]) @@ subscriptions
  /\ DepositEvent([kind |-> "ServiceSubscribed", service_id |-> id, account |-> o])
  /\ UNCHANGED <<approvedPublisher, serviceCount, services, descriptions,
                 reserved, slashed, now>>

\* Pays cost to the publisher and inserts (or overwrites an inactive)
\* subscription record.
SubscribeService(o, id) ==
  LET err == SubscribeServiceError(o, id) IN
  /\ err = Ok
  /\ LET svc == services[id] IN
     /\ Transfer(o, svc.publisher, svc.cost)
     /\ subscriptions' = (<<id, o>> :> [start_on |-> now,
                                        expire_on |-> ExpireOn(now, svc.maybe_periodic),
                                        active |-> TRUE]) @@ subscriptions
  /\ DepositEvent([kind |-> "ServiceSubscribed", service_id |-> id, account |-> o])
  /\ UNCHANGED <<approvedPublisher, serviceCount, services, descriptions,
                 reserved, slashed, now>>

\* Mutant: the status check is dropped, so a subscriber may leave an
\* unpublished service.
UnsubscribeServiceErrorAnyStatus(o, id) ==
  IF ~IsSigned(o) THEN "BadOrigin"
  ELSE IF id \notin DOMAIN services THEN "ServiceNotFound"
  ELSE IF ~HasSubscription(id, o) THEN "SubscriptionNotFound"
  ELSE IF ~subscriptions[<<id, o>>].active THEN "SubscriptionInactive"
  ELSE Ok

UnsubscribeServiceError(o, id) ==
  IF ~IsSigned(o) THEN "BadOrigin"
  ELSE IF id \notin DOMAIN services THEN "ServiceNotFound"
  ELSE IF services[id].status # "Published" THEN "ServiceAlreadyUnpublished"
  ELSE IF ~HasSubscription(id, o) THEN "SubscriptionNotFound"
  ELSE IF ~subscriptions[<<id, o>>].active THEN "SubscriptionInactive"
  ELSE Ok

\* Mutant: the closure of try_mutate_exists clears `active` on a copy of
\* the record, so storage keeps it active while the event is deposited.
UnsubscribeServiceOnCopy(o, id) ==
  LET err == UnsubscribeServiceError(o, id) IN
  /\ err = Ok
  /\ DepositEvent([kind |-> "ServiceUnsubscribed", service_id |-> id, account |-> o])
  /\ UNCHANGED <<approvedPublisher, serviceCount, services, descriptions,
                 subscriptions, ledger, now>>

\* The record is kept with active = FALSE; nothing is refunded.
UnsubscribeService(o, id) ==
  LET err == UnsubscribeServiceError(o, id) IN
  /\ err = Ok
  /\ subscriptions' = [subscriptions EXCEPT ![<<id, o>>].active = FALSE]
  /\ DepositEvent([kind |-> "ServiceUnsubscribed", service_id |-> id, account |-> o])
  /\ UNCHANGED <<approvedPublisher, serviceCount, services, descriptions, ledger, now>>

RenewSubscriptionError(o, id) ==
  IF ~IsSigned(o) THEN "BadOrigin"
  ELSE IF id \notin DOMAIN services THEN "ServiceNotFound"
  ELSE IF services[id].maybe_periodic = NoPeriod THEN "NotPeriodicService"
  ELSE IF ~HasSubscription(id, o) THEN "SubscriptionNotFound"
  ELSE IF ~subscriptions[<<id, o>>].active THEN "SubscriptionInactive"
  ELSE Ok

\* Sets expire_on to now + period.  Neither the service status nor payment
\* is checked, and start_on is left as it was.
RenewSubscription(o, id) ==
  LET err == RenewSubscriptionError(o, id) IN
  /\ err = Ok
  /\ subscriptions' = [subscriptions EXCEPT
                         ![<<id, o>>].expire_on = now + services[id].maybe_periodic]
  /\ DepositEvent([kind |-> "SubscriptionRenew", service_id |-> id, account |-> o])
  /\ UNCHANGED <<approvedPublisher, serviceCount, services, descriptions, ledger, now>>

\* A signed origin is always taken as a would-be publisher; only an origin
\* that is not signed is tried against T::ForceOrigin.
UnpublishServiceError(o, id) ==
  IF ~IsSigned(o) /\ o \notin ForceOrigins THEN "BadOrigin"
  ELSE IF id \notin DOMAIN services THEN "ServiceNotFound"
  ELSE IF IsSigned(o) /\ o # services[id].publisher THEN "NotServicePublisher"
  ELSE IF services[id].status = "Unpublished" THEN "ServiceAlreadyUnpublished"
  ELSE Ok

\* Mutant: the slashed bond is not zeroed in the stored service.
UnpublishServiceKeepsBond(o, id) ==
  LET err == UnpublishServiceError(o, id) IN
  /\ err = Ok
  /\ descriptions' = descriptions \ {id}
  /\ SlashReserved(services[id].publisher, services[id].bond)
  /\ services' = [services EXCEPT ![id].status = "Unpublished"]
  /\ DepositEvent([kind |-> "ServiceUnpublished", service_id |-> id])
  /\ UNCHANGED <<approvedPublisher, serviceCount, subscriptions, free, now>>

\* Mutant: the bond is unreserved back to the publisher instead of being
\* slashed (unreserve in place of slash_reserved).
UnpublishServiceUnreserves(o, id) ==
  LET err == UnpublishServiceError(o, id)
      s == services[id]
  IN
  /\ err = Ok
  /\ descriptions' = descriptions \ {id}
  /\ reserved' = [reserved EXCEPT ![s.publisher] = @ - s.bond]
  /\ free' = [free EXCEPT ![s.publisher] = @ + s.bond]
  /\ services' = [services EXCEPT ![id].bond = 0, ![id].status = "Unpublished"]
  /\ DepositEvent([kind |-> "ServiceUnpublished", service_id |-> id])
  /\ UNCHANGED <<approvedPublisher, serviceCount, subscriptions, slashed, now>>

\* Removes the description, slashes the bond, zeroes it and marks the
\* service Unpublished.
UnpublishService(o, id) ==
  LET err == UnpublishServiceError(o, id) IN
  /\ err = Ok
  /\ descriptions' = descriptions \ {id}
  /\ SlashReserved(services[id].publisher, services[id].bond)
  /\ services' = [services EXCEPT ![id].bond = 0, ![id].status = "Unpublished"]
  /\ DepositEvent([kind |-> "ServiceUnpublished", service_id |-> id])
  /\ UNCHANGED <<approvedPublisher, serviceCount, subscriptions, free, now>>

\* The host moves on to the next block.
Tick ==
  /\ now < MaxBlock
  /\ now' = now + 1
  /\ UNCHANGED <<storage, ledger, observed>>

(***************************************************************************)
(* Specification.                                                          *)
(***************************************************************************)

Init ==
  /\ approvedPublisher = <<>>
  /\ serviceCount = 0
  /\ services = <<>>
  /\ descriptions = {}
  /\ subscriptions = <<>>
  /\ free = InitialFree
  /\ reserved = [a \in Accounts |-> 0]
  /\ slashed = 0
  /\ now = 1
  /\ observed = [publishers |-> <<>>, published |-> {}, subscribed |-> {}]

NameLengths == 0 .. (MaximumNameLength + 1)
DescriptionLengths == 0 .. (MaximumDescriptionLength + 1)

Next ==
  \/ \E o \in Origins : RequestApprovedPublisher(o)
  \/ \E o \in Origins, a \in Accounts : ApprovePublisher(o, a)
  \/ \E o \in Origins, a \in Accounts : RevokePublisher(o, a)
  \/ \E o \in Origins, c \in Costs, n \in NameLengths, d \in DescriptionLengths,
        p \in MaybePeriodic : PublishService(o, c, n, d, p)
  \/ \E o \in Origins, id \in ServiceIndex : SubscribeService(o, id)
  \/ \E o \in Origins, id \in ServiceIndex : UnsubscribeService(o, id)
  \/ \E o \in Origins, id \in ServiceIndex : RenewSubscription(o, id)
  \/ \E o \in Origins, id \in ServiceIndex : UnpublishService(o, id)
  \/ Tick

\* No fairness: every call is an extrinsic some user may or may not submit.
Spec == Init /\ [][Next]_vars

(***************************************************************************)
(* Properties.                                                             *)
(***************************************************************************)

TypeOK ==
  /\ approvedPublisher \in [DOMAIN approvedPublisher -> PublisherStatus]
  /\ DOMAIN approvedPublisher \subseteq Accounts
  /\ serviceCount \in ServiceIndex
  /\ DOMAIN services \subseteq ServiceIndex
  /\ \A i \in DOMAIN services : services[i] \in ServiceRecords
  /\ descriptions \subseteq ServiceIndex
  /\ DOMAIN subscriptions \subseteq ServiceIndex \X Accounts
  /\ \A k \in DOMAIN subscriptions : subscriptions[k] \in SubscriptionRecords
  /\ free \in [Accounts -> Nat]
  /\ reserved \in [Accounts -> Nat]
  /\ slashed \in Nat
  /\ now \in 1 .. MaxBlock

\* Bond bookkeeping: every account's reserved balance is exactly the sum of
\* the bonds of the services it published that are still Published
\* (unpublish_service zeroes the bond it slashes).  This is what makes the
\* slash in unpublish_service take the whole bond and nothing else, across
\* revocation and re-approval of the publisher and across reuse of indices.
BondsOf(a) ==
  MapThenSumSet(LAMBDA i : services[i].bond, {i \in DOMAIN services : services[i].publisher = a})

ReservedMatchesBonds == \A a \in Accounts : reserved[a] = BondsOf(a)

\* Config::MaxPublishing is documented as "the maximum amount of publishing
\* per publisher": no publisher has more published services than that.
PublishingBounded ==
  \A a \in Accounts :
     Cardinality({i \in DOMAIN services :
                    services[i].publisher = a /\ services[i].status = "Published"})
       <= MaxPublishing

\* Index allocation: the services stored are exactly the indices handed out
\* by ServiceCount, so publish_service never overwrites an existing service.
ServiceIndexFresh == DOMAIN services = 0 .. (serviceCount - 1)

\* subscribe_service: a subscription becomes active only in a step in which
\* the subscriber pays the service cost to the publisher (a publisher
\* subscribing to its own service pays nothing) -- including a
\* re-subscription that overwrites an inactive record.
PaidSubscription ==
  [][\A id \in ServiceIndex, a \in Accounts :
       (~IsActive(id, a) /\ IsActive(id, a)') =>
          LET svc == services[id] IN
          \/ a = svc.publisher
          \/ /\ free'[a] = free[a] - svc.cost
             /\ free'[svc.publisher] = free[svc.publisher] + svc.cost]_vars

\* subscribe_service (the AlreadySubscribed check): a step that rewrites an
\* active subscription never takes money from its subscriber, so nobody
\* pays twice for a subscription that is still running.
NoChargeWhileActive ==
  [][\A id \in ServiceIndex, a \in Accounts :
       /\ IsActive(id, a)
       /\ subscriptions'[<<id, a>>] # subscriptions[<<id, a>>]
       => free'[a] >= free[a]]_vars

\* Takedown freezes access (lib.rs:408 with lib.rs:384): once a service is
\* unpublished, no call changes whether any of its subscriptions is active.
\* unsubscribe_service and subscribe_service refuse an Unpublished
\* service, and renew_subscription, which checks no status, keeps `active`
\* as it is -- so a subscription left active at the takedown stays active
\* for good and can still be renewed.
UnpublishedFreezesAccess ==
  [][\A k \in DOMAIN subscriptions :
       services[k[1]].status = "Unpublished" =>
         subscriptions'[k].active = subscriptions[k].active]_vars

\* Spec 4.2, renew_subscription: "recompute start_on = current_block,
\* expire_on = start_on + period", so a periodic subscription always ends
\* one period after it started.
TermMatchesPeriod ==
  \A k \in DOMAIN subscriptions :
    LET svc == services[k[1]] IN
    svc.maybe_periodic # NoPeriod =>
      subscriptions[k].expire_on = subscriptions[k].start_on + svc.maybe_periodic

\* Spec 3: ServiceCount is a monotonic counter, the source of the next index.
ServiceCountMonotonic == [][serviceCount' >= serviceCount]_serviceCount

\* Deposited events: every call that changes the registry, the approvals
\* or a subscription's activity deposits the event that says so, so a
\* client folding the events sees exactly the storage -- across revoke and
\* re-approval, unpublish and re-subscription.
EventsReflectStorage ==
  /\ observed.publishers = approvedPublisher
  /\ observed.published = {i \in DOMAIN services : services[i].status = "Published"}
  /\ observed.subscribed = {k \in DOMAIN subscriptions : subscriptions[k].active}

(***************************************************************************)
(* Refinement: the pallet keeps the promises of Marketplace.  A service's  *)
(* listing is its record without the period, access is the set of active  *)
(* subscriptions, a holding is free plus reserved balance, and what was   *)
(* slashed is what was forfeited.                                          *)
(***************************************************************************)
Abstract == INSTANCE Marketplace WITH
  Indices <- ServiceIndex,
  publishers <- approvedPublisher,
  listing <- [i \in DOMAIN services |->
                [publisher |-> services[i].publisher, cost |-> services[i].cost,
                 bond |-> services[i].bond, status |-> services[i].status]],
  access <- {k \in DOMAIN subscriptions : subscriptions[k].active},
  holdings <- [a \in Accounts |-> free[a] + reserved[a]],
  forfeited <- slashed

\* Every behaviour of the pallet is one of Marketplace: publish_service
\* lists under a fresh index only for an approved publisher, subscribe
\* grants access only against its cost, unpublish forfeits exactly the
\* bond, and renewals, blocks and failed calls change nothing it promises.
Refinement == Abstract!Spec

=============================================================================

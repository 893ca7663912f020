------------------------- MODULE SubscriptionTests -------------------------
(***************************************************************************)
(* The pallet's unit tests (src/pallets/subscription/src/tests.rs) replayed *)
(* through the Subscription model.  Every test is a sequence of steps:     *)
(*   assert_ok!(call)        the model's <Name>Error gives Ok, and the     *)
(*                           call's action is taken;                       *)
(*   assert_noop!(call, e)   the model's <Name>Error gives e, and the      *)
(*                           state is left as it is;                       *)
(*   assert_eq!(...)         the storage or balance read holds.            *)
(* A step whose expectation the model does not meet fails the replay.      *)
(* The constants are those of the test runtime (cfg), accounts 0 .. 4.     *)
(***************************************************************************)
EXTENDS Subscription, Sequences

\* new_test_ext: the genesis balances of accounts 0 .. 4.
MockInitialFree == [a \in 0 .. 4 |-> <<100, 100, 10, 10, 2>>[a + 1]]

\* Lengths of the byte strings the tests pass as name and description.
Nobody == 6          \* b"nobody"
NoDesc == 7          \* b"no desc"
NobodyTooLong == 15  \* b"nobody too long"
NoDescTooLong == 16  \* b"no desc too long"

\* The calls, with their arguments.
Request(o) == [op |-> "request", o |-> o]
Approve(o, a) == [op |-> "approve", o |-> o, a |-> a]
Revoke(o, a) == [op |-> "revoke", o |-> o, a |-> a]
Publish(o, cost, name, desc) ==
  [op |-> "publish", o |-> o, cost |-> cost, name |-> name, desc |-> desc]
Subscribe(o, id) == [op |-> "subscribe", o |-> o, id |-> id]
Unsubscribe(o, id) == [op |-> "unsubscribe", o |-> o, id |-> id]
Unpublish(o, id) == [op |-> "unpublish", o |-> o, id |-> id]

\* The steps of a test.
AssertOk(c) == [kind |-> "call", call |-> c, expect |-> Ok]
AssertNoop(c, e) == [kind |-> "call", call |-> c, expect |-> e]
AssertEq(w) == [kind |-> "assert", what |-> w]
\* new_test_ext(): genesis storage with the mock's balances, at block 0.
NewTestExt == [kind |-> "genesis"]
\* System::set_block_number(n)
SetBlockNumber(n) == [kind |-> "block", number |-> n]

\* The error the call returns in the current state.
ErrorOf(c) ==
  CASE c.op = "request"     -> RequestApprovedPublisherError(c.o)
    [] c.op = "approve"     -> ApprovePublisherError(c.o, c.a)
    [] c.op = "revoke"      -> RevokePublisherError(c.o, c.a)
    [] c.op = "publish"     -> PublishServiceError(c.o, c.name, c.desc)
    [] c.op = "subscribe"   -> SubscribeServiceError(c.o, c.id)
    [] c.op = "unsubscribe" -> UnsubscribeServiceError(c.o, c.id)
    [] c.op = "unpublish"   -> UnpublishServiceError(c.o, c.id)

\* The call's action (maybe_periodic is None in every test).
Perform(c) ==
  CASE c.op = "request"     -> RequestApprovedPublisher(c.o)
    [] c.op = "approve"     -> ApprovePublisher(c.o, c.a)
    [] c.op = "revoke"      -> RevokePublisher(c.o, c.a)
    [] c.op = "publish"     -> PublishService(c.o, c.cost, c.name, c.desc, NoPeriod)
    [] c.op = "subscribe"   -> SubscribeService(c.o, c.id)
    [] c.op = "unsubscribe" -> UnsubscribeService(c.o, c.id)
    [] c.op = "unpublish"   -> UnpublishService(c.o, c.id)

\* The reads the tests compare, through the pallet's getters and Balances.
Holds(w) ==
  CASE w[1] = "approved_publisher" ->
         IF w[3] = "None" THEN w[2] \notin DOMAIN approvedPublisher
         ELSE w[2] \in DOMAIN approvedPublisher /\ approvedPublisher[w[2]] = w[3]
    [] w[1] = "service_count" -> serviceCount = w[2]
    [] w[1] = "services" -> w[2] \in DOMAIN services
    [] w[1] = "service_descriptions" -> w[2] \in descriptions
    [] w[1] = "reserved_balance" -> reserved[w[2]] = w[3]
    [] w[1] = "free_balance" -> free[w[2]] = w[3]
    [] w[1] = "subscriptions" ->
         HasSubscription(w[2], w[3]) /\ subscriptions[<<w[2], w[3]>>] = w[4]
    [] w[1] = "active" ->
         HasSubscription(w[2], w[3]) /\ subscriptions[<<w[2], w[3]>>].active = w[4]

(***************************************************************************)
(* The tests, in the order of tests.rs.                                    *)
(***************************************************************************)
request_approved_publisher_works ==
  << NewTestExt,
     AssertOk(Request(4)),
     AssertEq(<<"approved_publisher", 4, "Requested">>) >>

request_new_approved_publisher_fails ==
  << NewTestExt,
     AssertOk(Request(4)),
     AssertNoop(Request(4), "AlreadyApprovedOrRequested"),
     AssertEq(<<"approved_publisher", 4, "Requested">>) >>

approve_publisher_works ==
  << NewTestExt,
     AssertOk(Request(4)),
     AssertOk(Approve(Root, 4)),
     AssertEq(<<"approved_publisher", 4, "Approved">>) >>

approve_unrequest_publisher_fails ==
  << NewTestExt,
     AssertNoop(Approve(Root, 4), "NotRequestForApproval"),
     AssertEq(<<"approved_publisher", 4, "None">>),
     AssertOk(Request(4)),
     AssertNoop(Approve(4, 4), "BadOrigin") >>

approved_request_for_new_approval_fails ==
  << NewTestExt,
     AssertOk(Request(4)),
     AssertOk(Approve(Root, 4)),
     AssertNoop(Approve(Root, 4), "AlreadyApprovedPublisher") >>

revoke_approved_publisher_works ==
  << NewTestExt,
     AssertOk(Request(4)),
     AssertOk(Approve(Root, 4)),
     AssertOk(Revoke(Root, 4)),
     AssertEq(<<"approved_publisher", 4, "None">>) >>

revoke_unrequest_publisher_fails ==
  << NewTestExt,
     AssertNoop(Revoke(Root, 3), "NotRequestForApproval") >>

revoke_unapproved_publisher_fails ==
  << NewTestExt,
     AssertOk(Request(3)),
     AssertNoop(Revoke(Root, 3), "NotApprovedPublisher") >>

not_root_revoke_publisher_fails ==
  << NewTestExt,
     AssertOk(Request(3)),
     AssertOk(Approve(Root, 3)),
     AssertNoop(Revoke(0, 3), "BadOrigin"),
     AssertEq(<<"approved_publisher", 3, "Approved">>) >>

\* deposit = 10 + len(name) + len(description) = 23
publish_service_works ==
  << NewTestExt,
     SetBlockNumber(1),
     AssertOk(Request(0)),
     AssertOk(Approve(Root, 0)),
     AssertOk(Publish(0, 11, Nobody, NoDesc)),
     AssertEq(<<"service_count", 1>>),
     AssertEq(<<"services", 0>>),
     AssertEq(<<"service_descriptions", 0>>),
     AssertEq(<<"reserved_balance", 0, 23>>),
     AssertEq(<<"free_balance", 0, 100 - 23>>) >>

publish_service_fails ==
  << NewTestExt,
     AssertNoop(Publish(1, 22, Nobody, NoDesc), "NotRequestForApproval"),
     AssertOk(Request(1)),
     AssertNoop(Publish(1, 22, Nobody, NoDesc), "NotApprovedPublisher"),
     AssertOk(Approve(Root, 1)),
     AssertNoop(Publish(1, 22, NobodyTooLong, NoDesc), "NameTooLong"),
     AssertNoop(Publish(1, 22, Nobody, NoDescTooLong), "DescriptionTooLong"),
     AssertOk(Request(2)),
     AssertOk(Approve(Root, 2)),
     AssertNoop(Publish(2, 22, Nobody, NoDesc), "InsufficientPublisherBalance") >>

subscribe_service_works ==
  << NewTestExt,
     SetBlockNumber(1),
     AssertOk(Request(0)),
     AssertOk(Approve(Root, 0)),
     AssertOk(Publish(0, 10, Nobody, NoDesc)),
     AssertOk(Subscribe(1, 0)),
     AssertEq(<<"free_balance", 0, 100 - 23 + 10>>),
     AssertEq(<<"free_balance", 1, 100 - 10>>),
     AssertEq(<<"subscriptions", 0, 1,
                [start_on |-> 1, expire_on |-> NoPeriod, active |-> TRUE]>>) >>

subscribe_service_fails ==
  << NewTestExt,
     AssertNoop(Subscribe(4, 0), "ServiceNotFound"),
     AssertOk(Request(1)),
     AssertOk(Approve(Root, 1)),
     AssertOk(Publish(1, 10, Nobody, NoDesc)),
     AssertOk(Subscribe(0, 0)),
     AssertNoop(Subscribe(0, 0), "AlreadySubscribed"),
     AssertNoop(Subscribe(4, 0), "InsufficientSubscriberBalance") >>

unsubscribe_service_works ==
  << NewTestExt,
     AssertOk(Request(0)),
     AssertOk(Approve(Root, 0)),
     AssertOk(Publish(0, 10, Nobody, NoDesc)),
     AssertOk(Subscribe(1, 0)),
     AssertOk(Unsubscribe(1, 0)),
     AssertEq(<<"active", 0, 1, FALSE>>) >>

unsubscribe_service_fails ==
  << NewTestExt,
     AssertOk(Request(0)),
     AssertOk(Approve(Root, 0)),
     AssertOk(Publish(0, 10, Nobody, NoDesc)),
     AssertOk(Subscribe(1, 0)),
     AssertOk(Unsubscribe(1, 0)),
     AssertNoop(Unsubscribe(1, 0), "SubscriptionInactive"),
     AssertOk(Unpublish(Root, 0)),
     AssertNoop(Subscribe(1, 0), "ServiceAlreadyUnpublished") >>

Tests ==
  << request_approved_publisher_works, request_new_approved_publisher_fails,
     approve_publisher_works, approve_unrequest_publisher_fails,
     approved_request_for_new_approval_fails, revoke_approved_publisher_works,
     revoke_unrequest_publisher_fails, revoke_unapproved_publisher_fails,
     not_root_revoke_publisher_fails, publish_service_works,
     publish_service_fails, subscribe_service_works, subscribe_service_fails,
     unsubscribe_service_works, unsubscribe_service_fails >>

(***************************************************************************)
(* The replay: one test per behaviour.  Before new_test_ext the ledger is  *)
(* empty and the block number is 0.                                       *)
(***************************************************************************)
VARIABLES
  test,    \* index of the test being run
  pc,      \* index of its next step
  verdict  \* "running" or "passed"

replayVars == <<vars, test, pc, verdict>>

Matches(st) ==
  CASE st.kind = "assert" -> Holds(st.what)
    [] st.kind = "call"   -> ErrorOf(st.call) = st.expect
    [] OTHER              -> TRUE

\* What the step does to the state: a call that returns an error is rolled
\* back, so only a successful one changes it.
Execute(st) ==
  CASE st.kind = "genesis" -> /\ free' = InitialFree
                              /\ UNCHANGED <<storage, reserved, slashed, now, observed>>
    [] st.kind = "block"   -> /\ now' = st.number
                              /\ UNCHANGED <<storage, ledger, observed>>
    [] st.kind = "call" /\ st.expect = Ok -> Perform(st.call)
    [] OTHER               -> UNCHANGED vars

ReplayInit ==
  /\ approvedPublisher = <<>>
  /\ serviceCount = 0
  /\ services = <<>>
  /\ descriptions = {}
  /\ subscriptions = <<>>
  /\ free = [a \in Accounts |-> 0]
  /\ reserved = [a \in Accounts |-> 0]
  /\ slashed = 0
  /\ now = 0
  /\ observed = [publishers |-> <<>>, published |-> {}, subscribed |-> {}]
  /\ test \in DOMAIN Tests
  /\ pc = 1
  /\ verdict = "running"

\* The test takes its next step.
Step ==
  LET st == Tests[test][pc] IN
  /\ verdict = "running"
  /\ Execute(st)
  /\ pc' = pc + 1
  /\ verdict' = IF pc = Len(Tests[test]) THEN "passed" ELSE "running"
  /\ UNCHANGED test

\* A test ends when its last step is taken.
ReplaySpec == ReplayInit /\ [][Step]_replayVars

\* Every unit test of the pallet passes against the model: each call the
\* test expects to succeed returns Ok, each call it expects to fail returns
\* the error it names, and each storage and balance read holds, in the
\* state the earlier steps of the test left.
TestsPass == verdict = "running" => Matches(Tests[test][pc])

====

--------------------------- MODULE StripeCheckout ---------------------------
(***************************************************************************)
(* createCheckoutSession of src/payment/stripe/stripe.service.ts for one   *)
(* user, together with the part of the Stripe webhook that writes the same *)
(* columns.  The service runs as a serverless function: every request is a *)
(* process, each `await` of the handler is a step, and the steps of        *)
(* different requests and webhook deliveries interleave freely.  Every     *)
(* database statement is atomic (one SQL statement); nothing else is.      *)
(*                                                                         *)
(* The columns of the user row are stripeCustomerId, stripeTrialUsedAt     *)
(* (only whether it is set matters) and stripeTrialSubscriptionId, which   *)
(* holds null, a reservation key `pending:<uuid>` or a Stripe subscription *)
(* id.  A reservation key is identified by the request that drew it, a     *)
(* subscription by the request whose checkout session was paid, and a      *)
(* Stripe customer by the request that created it.                         *)
(***************************************************************************)
EXTENDS FiniteSets

CONSTANTS
  Requests,   \* POST checkout calls of this user
  Prior,      \* the Stripe customer saved by an earlier life of the account
  Manual,     \* a trialing subscription that support opens in the dashboard
  Null        \* SQL NULL

Customers == Requests \cup {Prior}
Subs      == Requests \cup {Manual}

Pending(r) == [kind |-> "pending", of |-> r]   \* `pending:${randomUUID()}`
SubId(s)   == [kind |-> "sub", of |-> s]       \* Stripe's subscription id
TrialMarks == {Pending(r) : r \in Requests} \cup {SubId(s) : s \in Subs}

ASSUME ConstantsDistinct ==
  /\ Prior \notin Requests /\ Manual \notin Requests
  /\ Null \notin Customers \cup Subs \cup TrialMarks

VARIABLES
  stripeCustomerId,            \* users.stripe_customer_id
  stripeTrialUsedAt,           \* users.stripe_trial_used_at IS NOT NULL
  stripeTrialSubscriptionId,   \* users.stripe_trial_subscription_id
  row,                         \* this user's subscription row of each Stripe subscription
  pc, snapshot, customerId, eligible, error,  \* locals of each request
  session,                     \* the checkout session returned to the client
  stranded,                    \* history: requests that ended without running the release
  live, deleted,               \* Stripe: its customers, and the deleted ones
  stripeSub, events,           \* Stripe: subscriptions, and the events it (re)delivers
  hook                         \* the webhook invocation handling each subscription

dbVars      == <<stripeCustomerId, stripeTrialUsedAt, stripeTrialSubscriptionId>>
requestVars == <<pc, snapshot, customerId, eligible, error, session, stranded>>
stripeVars  == <<live, deleted, stripeSub, events>>
vars == <<dbVars, row, requestVars, stripeVars, hook>>

Terminal == {"rejected", "noPrice", "failed", "crashed", "done"}
BeforeReserve == {"idle", "guard", "newCustomer", "saveCustomer", "lookup", "reserve"}
Running == (BeforeReserve \ {"idle"}) \cup {"create", "rollback", "clear", "retry"}

SubStates == {"trialing", "active", "canceled"}
Events    == [sub : Subs, status : SubStates]

TypeOK ==
  /\ stripeCustomerId \in Customers \cup {Null}
  /\ stripeTrialUsedAt \in BOOLEAN
  /\ stripeTrialSubscriptionId \in TrialMarks \cup {Null}
  /\ row \in [Subs -> {"none", "active", "lapsed", "ended"}]
  /\ pc \in [Requests -> BeforeReserve \cup Running \cup Terminal]
  /\ snapshot \in [Requests -> [customer : Customers \cup {Null}, used : BOOLEAN]]
  /\ customerId \in [Requests -> Customers \cup {Null}]
  /\ eligible \in [Requests -> BOOLEAN]
  /\ error \in [Requests -> {"none", "missing", "price", "other"}]
  /\ session \in [Requests -> {"none", "plain", "trial"}]
  /\ stranded \in SUBSET Requests
  /\ live \in SUBSET Customers /\ deleted \in SUBSET Customers
  /\ stripeSub \in [Subs -> {"none"} \cup SubStates]
  /\ events \in SUBSET Events
  /\ hook \in [Subs -> [at : {"idle", "mark", "stamp", "row"}, status : SubStates]]

-----------------------------------------------------------------------------
(* The account is new to Stripe, or has a customer but never subscribed.   *)
Init ==
  /\ stripeCustomerId \in {Null, Prior}
  /\ live = {stripeCustomerId} \ {Null} /\ deleted = {}
  /\ stripeTrialUsedAt = FALSE /\ stripeTrialSubscriptionId = Null
  /\ row = [s \in Subs |-> "none"]
  /\ pc = [r \in Requests |-> "idle"]
  /\ snapshot = [r \in Requests |-> [customer |-> Null, used |-> FALSE]]
  /\ customerId = [r \in Requests |-> Null]
  /\ eligible = [r \in Requests |-> FALSE]
  /\ error = [r \in Requests |-> "none"]
  /\ session = [r \in Requests |-> "none"]
  /\ stranded = {}
  /\ stripeSub = [s \in Subs |-> "none"] /\ events = {}
  /\ hook = [s \in Subs |-> [at |-> "idle", status |-> "active"]]

-----------------------------------------------------------------------------
(* A checkout request                                                      *)

Goto(r, from, to) == pc[r] = from /\ pc' = [pc EXCEPT ![r] = to]

HasActiveSubscription == \E s \in Subs : row[s] = "active"

\* The user row is read once; the handler works on this copy from here on.
ReadUser(r) ==
  /\ Goto(r, "idle", "guard")
  /\ snapshot' = [snapshot EXCEPT ![r] =
                    [customer |-> stripeCustomerId, used |-> stripeTrialUsedAt]]
  /\ customerId' = [customerId EXCEPT ![r] = stripeCustomerId]
  /\ UNCHANGED <<dbVars, row, eligible, error, session, stranded, stripeVars, hook>>

GuardActive(r) ==
  /\ Goto(r, "guard", CASE HasActiveSubscription  -> "rejected"
                        [] ~HasActiveSubscription /\ customerId[r] = Null -> "newCustomer"
                        [] ~HasActiveSubscription /\ customerId[r] # Null -> "lookup")
  /\ UNCHANGED <<dbVars, row, snapshot, customerId, eligible, error, session,
                 stranded, stripeVars, hook>>

CreateCustomer(r) ==
  /\ Goto(r, "newCustomer", "saveCustomer")
  /\ live' = live \cup {r}
  /\ UNCHANGED <<dbVars, row, snapshot, customerId, eligible, error, session,
                 stranded, deleted, stripeSub, events, hook>>

SaveCustomer(r) ==
  /\ Goto(r, "saveCustomer", "lookup")
  /\ stripeCustomerId' = r
  /\ customerId' = [customerId EXCEPT ![r] = r]
  /\ UNCHANGED <<stripeTrialUsedAt, stripeTrialSubscriptionId, row, snapshot,
                 eligible, error, session, stranded, stripeVars, hook>>

\* eligibleBySnapshot: the usedAt of the copy, the subscription rows of now.
EligibleBySnapshot(r) == ~snapshot[r].used /\ \A s \in Subs : row[s] = "none"

LookupSubscription(r) ==
  /\ Goto(r, "lookup", IF EligibleBySnapshot(r) THEN "reserve" ELSE "create")
  /\ UNCHANGED <<dbVars, row, snapshot, customerId, eligible, error, session,
                 stranded, stripeVars, hook>>

\* UPDATE ... WHERE usedAt IS NULL AND subscriptionId IS NULL: one statement.
BugReserveWithoutCheck == TRUE
MayReserve == ~stripeTrialUsedAt /\ stripeTrialSubscriptionId = Null

ReserveTrial(r) ==
  /\ Goto(r, "reserve", "create")
  /\ eligible' = [eligible EXCEPT ![r] = MayReserve]
  /\ stripeTrialUsedAt' = (stripeTrialUsedAt \/ MayReserve)
  /\ stripeTrialSubscriptionId' =
       IF MayReserve THEN Pending(r) ELSE stripeTrialSubscriptionId
  /\ UNCHANGED <<stripeCustomerId, row, snapshot, customerId, error, session,
                 stranded, stripeVars, hook>>

\* The plan has no price id: thrown outside the try, the reservation stays.
NoPriceForPlan(r) ==
  /\ Goto(r, "create", "noPrice")
  /\ stranded' = stranded \cup {r}
  /\ UNCHANGED <<dbVars, row, snapshot, customerId, eligible, error, session,
                 stripeVars, hook>>

BugOfferBySnapshot(r) == IF snapshot[r].used THEN "plain" ELSE "trial"
Offer(r) == IF eligible[r] THEN "trial" ELSE "plain"

CreateSession(r) ==
  /\ Goto(r, "create", "done")
  /\ customerId[r] \notin deleted
  /\ session' = [session EXCEPT ![r] = Offer(r)]
  /\ UNCHANGED <<dbVars, row, snapshot, customerId, eligible, error, stranded,
                 stripeVars, hook>>

\* Where the catch block continues once the reservation has been dealt with.
\* A missing price is taken for a missing customer.
AfterRelease(r, e) == IF e \in {"missing", "price"} /\ snapshot[r].customer # Null
                      THEN "clear" ELSE "failed"

BugKeepReservation(r, e) == AfterRelease(r, e)
AfterError(r, e) == IF eligible[r] THEN "rollback" ELSE AfterRelease(r, e)

\* Stripe does not find the customer or the price, or something else fails.
CreateSessionFails(r) ==
  \E e \in {"missing", "price", "other"} :
    /\ e = "missing" => customerId[r] \in deleted
    /\ Goto(r, "create", AfterError(r, e))
    /\ error' = [error EXCEPT ![r] = e]
    /\ UNCHANGED <<dbVars, row, snapshot, customerId, eligible, session, stranded,
                   stripeVars, hook>>

\* UPDATE ... SET both columns null WHERE subscriptionId = this request's key.
BugReleaseAny(r) == TRUE
HoldsReservation(r) == stripeTrialSubscriptionId = Pending(r)

ReleaseTrial(r) ==
  /\ Goto(r, "rollback", AfterRelease(r, error[r]))
  /\ stripeTrialUsedAt' = (stripeTrialUsedAt /\ ~HoldsReservation(r))
  /\ stripeTrialSubscriptionId' =
       IF HoldsReservation(r) THEN Null ELSE stripeTrialSubscriptionId
  /\ UNCHANGED <<stripeCustomerId, row, snapshot, customerId, eligible, error,
                 session, stranded, stripeVars, hook>>

\* The release itself fails: logged, and the handler goes on.
ReleaseFails(r) ==
  /\ Goto(r, "rollback", AfterRelease(r, error[r]))
  /\ stranded' = stranded \cup {r}
  /\ UNCHANGED <<dbVars, row, snapshot, customerId, eligible, error, session,
                 stripeVars, hook>>

\* ensureCustomer() after the stored id was cleared.  It returns the local
\* customerId when that is set, and the local still holds the missing id.
BugRetryWithNewCustomer(r) == r
RetryCustomer(r) == customerId[r]

ClearCustomer(r) ==
  /\ Goto(r, "clear", "retry")
  /\ stripeCustomerId' = Null
  /\ customerId' = [customerId EXCEPT ![r] = RetryCustomer(r)]
  /\ UNCHANGED <<stripeTrialUsedAt, stripeTrialSubscriptionId, row, snapshot,
                 eligible, error, session, stranded, stripeVars, hook>>

\* The second attempt still offers the trial the first one had reserved.  A price
\* that was missing is so again.
RetrySession(r) ==
  /\ pc[r] = "retry"
  /\ \/ /\ error[r] = "missing" /\ customerId[r] \notin deleted
        /\ pc' = [pc EXCEPT ![r] = "done"]
        /\ session' = [session EXCEPT ![r] = Offer(r)]
     \/ /\ pc' = [pc EXCEPT ![r] = "failed"]
        /\ UNCHANGED session
  /\ UNCHANGED <<dbVars, row, snapshot, customerId, eligible, error, stranded,
                 stripeVars, hook>>

\* The invocation is killed, or an await outside the try blocks throws.
Crash(r) ==
  /\ pc[r] \in Running
  /\ pc' = [pc EXCEPT ![r] = "crashed"]
  /\ stranded' = stranded \cup {r}
  /\ UNCHANGED <<dbVars, row, snapshot, customerId, eligible, error, session,
                 stripeVars, hook>>

-----------------------------------------------------------------------------
(* Stripe and its dashboard (external)                                     *)

CustomerOf(s) == IF s \in Requests THEN customerId[s] ELSE Prior
Ongoing(s)    == stripeSub[s] \in {"trialing", "active"}

Publish(changed, status) ==
  /\ stripeSub' = [s \in Subs |-> IF s \in changed THEN status ELSE stripeSub[s]]
  /\ events' = events \cup {[sub |-> s, status |-> status] : s \in changed}

PayCheckout(r) ==
  /\ session[r] # "none" /\ stripeSub[r] = "none" /\ customerId[r] \notin deleted
  /\ Publish({r}, IF session[r] = "trial" THEN "trialing" ELSE "active")
  /\ UNCHANGED <<dbVars, row, requestVars, live, deleted, hook>>

OpenManualTrial ==
  /\ stripeSub[Manual] = "none" /\ Prior \in live
  /\ Publish({Manual}, "trialing")
  /\ UNCHANGED <<dbVars, row, requestVars, live, deleted, hook>>

EndTrial(s) ==
  /\ stripeSub[s] = "trialing"
  /\ Publish({s}, "active")
  /\ UNCHANGED <<dbVars, row, requestVars, live, deleted, hook>>

CancelSub(s) ==
  /\ Ongoing(s)
  /\ Publish({s}, "canceled")
  /\ UNCHANGED <<dbVars, row, requestVars, live, deleted, hook>>

DeleteCustomer(c) ==
  /\ c \in live
  /\ live' = live \ {c} /\ deleted' = deleted \cup {c}
  /\ Publish({s \in Subs : Ongoing(s) /\ CustomerOf(s) = c}, "canceled")
  /\ UNCHANGED <<dbVars, row, requestVars, hook>>

\* A stored period end goes by with no renewal recorded.
PeriodEnds(s) ==
  /\ row[s] = "active"
  /\ row' = [row EXCEPT ![s] = "lapsed"]
  /\ UNCHANGED <<dbVars, requestVars, stripeVars, hook>>

-----------------------------------------------------------------------------
(* The webhook: any published event, any number of times, in any order     *)

HookGoto(s, from, to) == hook[s].at = from /\ hook' = [hook EXCEPT ![s].at = to]

HookBegin(e) ==
  /\ e \in events /\ e.status # "canceled"
  /\ CustomerOf(e.sub) \notin deleted          \* a deleted customer has no email
  /\ hook[e.sub].at = "idle"
  /\ hook' = [hook EXCEPT ![e.sub] =
                [at |-> IF e.status = "trialing" THEN "mark" ELSE "row",
                 status |-> e.status]]
  /\ UNCHANGED <<dbVars, row, requestVars, stripeVars>>

\* WHERE subscriptionId <> id: SQL's NULL <> id is not true.
MarkTrialSubscription(s) ==
  /\ HookGoto(s, "mark", "stamp")
  /\ stripeTrialSubscriptionId' =
       IF stripeTrialSubscriptionId = Null THEN Null ELSE SubId(s)
  /\ UNCHANGED <<stripeCustomerId, stripeTrialUsedAt, row, requestVars, stripeVars>>

\* WHERE usedAt IS NULL
BugStampKeepsId(s) == stripeTrialSubscriptionId
StampedId(s) == IF stripeTrialUsedAt THEN stripeTrialSubscriptionId ELSE SubId(s)

StampTrialUsed(s) ==
  /\ HookGoto(s, "stamp", "row")
  /\ stripeTrialUsedAt' = TRUE
  /\ stripeTrialSubscriptionId' = StampedId(s)
  /\ UNCHANGED <<stripeCustomerId, row, requestVars, stripeVars>>

\* Either update throws: caught as non-fatal.
TrialMarkFails(s) ==
  /\ hook[s].at \in {"mark", "stamp"}
  /\ hook' = [hook EXCEPT ![s].at = "row"]
  /\ UNCHANGED <<dbVars, row, requestVars, stripeVars>>

\* Create or update the row; a payload of the lapsed period renews nothing.
BugRawStatus(s) == {hook[s].status}
SavedStates(s) == {"active"} \cup (IF row[s] = "lapsed" THEN {"lapsed"} ELSE {})

SaveRow(s) ==
  /\ HookGoto(s, "row", "idle")
  /\ \E st \in SavedStates(s) : row' = [row EXCEPT ![s] = st]
  /\ UNCHANGED <<dbVars, requestVars, stripeVars>>

\* The invocation dies; Stripe delivers the event again.
HookCrash(s) ==
  /\ hook[s].at # "idle"
  /\ hook' = [hook EXCEPT ![s].at = "idle"]
  /\ UNCHANGED <<dbVars, row, requestVars, stripeVars>>

HookDeleted(e) ==
  /\ e \in events /\ e.status = "canceled" /\ row[e.sub] # "none"
  /\ row' = [row EXCEPT ![e.sub] = "ended"]
  /\ UNCHANGED <<dbVars, requestVars, stripeVars, hook>>

-----------------------------------------------------------------------------
Request(r) ==
  \/ ReadUser(r) \/ GuardActive(r) \/ CreateCustomer(r) \/ SaveCustomer(r)
  \/ LookupSubscription(r) \/ ReserveTrial(r) \/ NoPriceForPlan(r)
  \/ CreateSession(r) \/ CreateSessionFails(r) \/ ReleaseTrial(r)
  \/ ReleaseFails(r) \/ ClearCustomer(r) \/ RetrySession(r) \/ Crash(r)

Stripe ==
  \/ \E r \in Requests : PayCheckout(r)
  \/ OpenManualTrial
  \/ \E s \in Subs : EndTrial(s) \/ CancelSub(s) \/ PeriodEnds(s)
  \/ \E c \in Customers : DeleteCustomer(c)

Webhook ==
  \/ \E e \in Events : HookBegin(e) \/ HookDeleted(e)
  \/ \E s \in Subs : \/ MarkTrialSubscription(s) \/ StampTrialUsed(s)
                     \/ TrialMarkFails(s) \/ SaveRow(s) \/ HookCrash(s)

Next == (\E r \in Requests : Request(r)) \/ Stripe \/ Webhook

Spec == Init /\ [][Next]_vars

-----------------------------------------------------------------------------
(* Properties                                                              *)

\* The holder of the trial: the request whose key is stored, that is about to
\* create its session with the reservation it made, or whose client has the
\* trial session.
Holds(r) ==
  \/ stripeTrialSubscriptionId = Pending(r)
  \/ eligible[r] /\ pc[r] = "create"
  \/ session[r] = "trial"

TrialStage ==
  IF ~stripeTrialUsedAt THEN "unused"
  ELSE IF \E r \in Requests : stripeTrialSubscriptionId = Pending(r) /\ session[r] = "none"
  THEN "reserved" ELSE "used"

\* Reservations, releases, retries and webhooks implement the one-time trial:
\* a session with trial_period_days is handed out once, by the request that
\* reserved it, and what was given or recorded is never given back.
Once == INSTANCE OneTimeTrial WITH
          trial  <- TrialStage,
          holder <- {r \in Requests : Holds(r)},
          given  <- {r \in Requests : session[r] = "trial"}
TrialGivenOnce == Once!Spec

\* However many checkouts of a user run at once, retry, fail or race with
\* the webhook, at most one session is handed out with trial_period_days:
\* the promise of the comment at stripe.service.ts:129.
OneTrialSession ==
  \A r, q \in Requests : session[r] = "trial" /\ session[q] = "trial" => r = q

\* Once a client holds a trial session the user row records the trial as
\* used, whatever other requests roll back and webhooks overwrite.
TrialSessionIsRecorded ==
  (\E r \in Requests : session[r] = "trial") => stripeTrialUsedAt

\* A request that fails after reserving gives the trial back: a reservation
\* key without a session belongs to a request still on its way, or to one
\* that could not run the release (no price, failed update, killed).
FailedCheckoutReleases ==
  \A r \in Requests :
    stripeTrialSubscriptionId = Pending(r) /\ session[r] = "none"
      => pc[r] \in {"create", "rollback"} \/ r \in stranded

\* The columns move together: a trial that is used names its subscription
\* or reservation, and an unused one names nothing.
MarkedTogether == stripeTrialUsedAt <=> stripeTrialSubscriptionId # Null

\* A used trial becomes unused only by the release of the very request whose
\* key is stored, and never when a trialing subscription has been recorded.
OnlyHolderReleases ==
  [][stripeTrialUsedAt /\ ~stripeTrialUsedAt'
       => \E r \in Requests : /\ stripeTrialSubscriptionId = Pending(r)
                              /\ pc[r] = "rollback" /\ session[r] = "none"]_vars

\* stripe.service.ts:79 "never allow checkout when an active subscription
\* exists": no session is handed out while an active row is stored.
NoCheckoutWhileActive ==
  [][\A r \in Requests : session'[r] # session[r] => ~HasActiveSubscription]_vars

=============================================================================

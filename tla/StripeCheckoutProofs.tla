------------------------ MODULE StripeCheckoutProofs ------------------------
(***************************************************************************)
(* Proofs about StripeCheckout for any set of requests.                    *)
(*                                                                         *)
(* The safety argument follows the holder of the trial: the request whose  *)
(* key is stored, the one about to create its session with the reservation *)
(* it made, or the one whose client already has the trial session.  There  *)
(* is at most one holder, and while there is one the trial is recorded as  *)
(* used, so no other request can reserve it.  The retry path needs the     *)
(* fact that it uses a customer Stripe no longer has: with any other       *)
(* customer it would hand out a trial it no longer holds.                  *)
(***************************************************************************)
EXTENDS StripeCheckout, TLAPS

OneHolder == \A r, q \in Requests : Holds(r) /\ Holds(q) => r = q

HeldIsUsed == \A r \in Requests : Holds(r) => stripeTrialUsedAt

\* Nothing is reserved, and nothing has gone wrong, before the reserve step.
CleanBeforeReserve ==
  \A r \in Requests : pc[r] \in BeforeReserve => ~eligible[r] /\ error[r] = "none"

KeyMeansEligible ==
  \A r \in Requests : stripeTrialSubscriptionId = Pending(r) => eligible[r]

\* The second attempt fails: its customer is the one that was missing.
RetryIsDead ==
  \A r \in Requests : error[r] = "missing" => customerId[r] \in deleted

SessionMeansDone == \A r \in Requests : session[r] # "none" => pc[r] = "done"

IInv ==
  /\ TypeOK
  /\ MarkedTogether
  /\ OneHolder
  /\ HeldIsUsed
  /\ CleanBeforeReserve
  /\ KeyMeansEligible
  /\ RetryIsDead
  /\ SessionMeansDone
  /\ FailedCheckoutReleases

USE ConstantsDistinct

-----------------------------------------------------------------------------
(* Types                                                                   *)

LEMMA TypeInit == Init => TypeOK
<1> SUFFICES ASSUME Init PROVE TypeOK
  OBVIOUS
<1> USE DEF Init
<1>1. stripeCustomerId \in Customers \cup {Null} /\ live \in SUBSET Customers
  BY DEF Customers
<1>2. /\ pc \in [Requests -> BeforeReserve \cup Running \cup Terminal]
      /\ snapshot \in [Requests -> [customer : Customers \cup {Null}, used : BOOLEAN]]
      /\ customerId \in [Requests -> Customers \cup {Null}]
  BY DEF BeforeReserve
<1>3. /\ eligible \in [Requests -> BOOLEAN]
      /\ error \in [Requests -> {"none", "missing", "price", "other"}]
      /\ session \in [Requests -> {"none", "plain", "trial"}]
  OBVIOUS
<1>4. /\ row \in [Subs -> {"none", "active", "lapsed", "ended"}]
      /\ stripeSub \in [Subs -> {"none"} \cup SubStates]
      /\ hook \in [Subs -> [at : {"idle", "mark", "stamp", "row"}, status : SubStates]]
  BY DEF SubStates
<1>5. stripeTrialUsedAt \in BOOLEAN /\ stripeTrialSubscriptionId \in TrialMarks \cup {Null}
  OBVIOUS
<1>6. stranded \in SUBSET Requests /\ events \in SUBSET Events /\ deleted \in SUBSET Customers
  OBVIOUS
<1>7. QED
  BY <1>1, <1>2, <1>3, <1>4, <1>5, <1>6 DEF TypeOK

LEMMA TypeRequest ==
  ASSUME TypeOK, NEW r \in Requests, Request(r)
  PROVE  TypeOK'
<1> USE DEF TypeOK, Goto, dbVars, stripeVars, BeforeReserve, Running, Terminal
<1>1. CASE ReadUser(r)  BY <1>1 DEF ReadUser
<1>2. CASE GuardActive(r)  BY <1>2 DEF GuardActive
<1>3. CASE CreateCustomer(r)  BY <1>3 DEF CreateCustomer, Customers
<1>4. CASE SaveCustomer(r)  BY <1>4 DEF SaveCustomer, Customers
<1>5. CASE LookupSubscription(r)  BY <1>5 DEF LookupSubscription
<1>6. CASE ReserveTrial(r)  BY <1>6 DEF ReserveTrial, MayReserve, TrialMarks
<1>7. CASE NoPriceForPlan(r)  BY <1>7 DEF NoPriceForPlan
<1>8. CASE CreateSession(r)  BY <1>8 DEF CreateSession, Offer
<1>9. CASE CreateSessionFails(r)  BY <1>9 DEF CreateSessionFails, AfterError, AfterRelease
<1>10. CASE ReleaseTrial(r)  BY <1>10 DEF ReleaseTrial, AfterRelease
<1>11. CASE ReleaseFails(r)  BY <1>11 DEF ReleaseFails, AfterRelease
<1>12. CASE ClearCustomer(r)  BY <1>12 DEF ClearCustomer, RetryCustomer
<1>13. CASE RetrySession(r)  BY <1>13 DEF RetrySession, Offer
<1>14. CASE Crash(r)  BY <1>14 DEF Crash
<1>15. QED
  BY <1>1, <1>2, <1>3, <1>4, <1>5, <1>6, <1>7, <1>8, <1>9, <1>10, <1>11, <1>12,
     <1>13, <1>14 DEF Request

LEMMA TypeStripe == TypeOK /\ Stripe => TypeOK'
<1> SUFFICES ASSUME TypeOK, Stripe PROVE TypeOK'
  OBVIOUS
<1> USE DEF TypeOK, dbVars, requestVars, Publish, SubStates, Events
<1>1. ASSUME NEW r \in Requests, PayCheckout(r) PROVE TypeOK'
  BY <1>1 DEF PayCheckout, Subs
<1>2. CASE OpenManualTrial
  BY <1>2 DEF OpenManualTrial, Subs
<1>3. ASSUME NEW s \in Subs, EndTrial(s) PROVE TypeOK'
  BY <1>3 DEF EndTrial
<1>4. ASSUME NEW s \in Subs, CancelSub(s) PROVE TypeOK'
  BY <1>4 DEF CancelSub
<1>5. ASSUME NEW s \in Subs, PeriodEnds(s) PROVE TypeOK'
  BY <1>5 DEF PeriodEnds, stripeVars
<1>6. ASSUME NEW c \in Customers, DeleteCustomer(c) PROVE TypeOK'
  BY <1>6 DEF DeleteCustomer
<1>7. QED
  BY <1>1, <1>2, <1>3, <1>4, <1>5, <1>6 DEF Stripe

LEMMA TypeWebhook == TypeOK /\ Webhook => TypeOK'
<1> SUFFICES ASSUME TypeOK, Webhook PROVE TypeOK'
  OBVIOUS
<1> USE DEF TypeOK, dbVars, requestVars, stripeVars, HookGoto
<1>1. ASSUME NEW e \in Events, HookBegin(e) PROVE TypeOK'
  BY <1>1 DEF HookBegin, Events
<1>2. ASSUME NEW e \in Events, HookDeleted(e) PROVE TypeOK'
  BY <1>2 DEF HookDeleted, Events
<1>3. ASSUME NEW s \in Subs, MarkTrialSubscription(s) PROVE TypeOK'
  BY <1>3 DEF MarkTrialSubscription, TrialMarks
<1>4. ASSUME NEW s \in Subs, StampTrialUsed(s) PROVE TypeOK'
  BY <1>4 DEF StampTrialUsed, StampedId, TrialMarks
<1>5. ASSUME NEW s \in Subs, TrialMarkFails(s) PROVE TypeOK'
  BY <1>5 DEF TrialMarkFails
<1>6. ASSUME NEW s \in Subs, SaveRow(s) PROVE TypeOK'
  BY <1>6 DEF SaveRow, SavedStates
<1>7. ASSUME NEW s \in Subs, HookCrash(s) PROVE TypeOK'
  BY <1>7 DEF HookCrash
<1>8. QED
  BY <1>1, <1>2, <1>3, <1>4, <1>5, <1>6, <1>7 DEF Webhook

\* Every reachable state is well typed.
THEOREM TypeCorrect == Spec => []TypeOK
<1>1. TypeOK /\ UNCHANGED vars => TypeOK'
  BY DEF TypeOK, vars, dbVars, requestVars, stripeVars
<1>2. TypeOK /\ [Next]_vars => TypeOK'
  BY <1>1, TypeRequest, TypeStripe, TypeWebhook DEF Next
<1>3. QED
  BY <1>2, TypeInit, PTL DEF Spec

-----------------------------------------------------------------------------
(* One holder of the trial                                                 *)

LEMMA MarksDiffer ==
  /\ \A r, q \in Requests : Pending(r) = Pending(q) => r = q
  /\ \A r \in Requests, s \in Subs : Pending(r) # SubId(s)
  /\ \A r \in Requests : Pending(r) # Null
  /\ \A s \in Subs : SubId(s) # Null
<1>1. \A r \in Requests : Pending(r) \in TrialMarks
  BY DEF TrialMarks
<1>2. \A s \in Subs : SubId(s) \in TrialMarks
  BY DEF TrialMarks
<1>3. \A r, q \in Requests : Pending(r) = Pending(q) => r = q
  BY DEF Pending
<1>4. \A r \in Requests, s \in Subs : Pending(r) # SubId(s)
  BY DEF Pending, SubId
<1>5. QED
  BY <1>1, <1>2, <1>3, <1>4

LEMMA InitIInv == Init => IInv
<1> SUFFICES ASSUME Init PROVE IInv
  OBVIOUS
<1>1. TypeOK
  BY TypeInit
<1>2. \A r \in Requests : ~Holds(r)
  BY MarksDiffer DEF Init, Holds
<1>3. QED
  BY <1>1, <1>2, MarksDiffer DEF Init, IInv, MarkedTogether, OneHolder, HeldIsUsed,
     CleanBeforeReserve, KeyMeansEligible, RetryIsDead, SessionMeansDone, FailedCheckoutReleases

\* Steps before the reservation, and steps that end a request, make no
\* request a holder and touch neither column.
LEMMA RequestIInv ==
  ASSUME IInv, NEW r \in Requests, Request(r)
  PROVE  IInv'
<1> USE MarksDiffer DEF IInv, MarkedTogether, OneHolder, HeldIsUsed, CleanBeforeReserve,
        KeyMeansEligible, RetryIsDead, SessionMeansDone, FailedCheckoutReleases, Holds
<1>0. TypeOK'
  BY TypeRequest
<1> USE DEF TypeOK, Goto, dbVars, stripeVars, BeforeReserve, Running
<1>1. CASE ReadUser(r)
  <2>1. \A q \in Requests : pc'[q] \in {"clear", "retry"} => q # r
    BY <1>1 DEF ReadUser
  <2>2. RetryIsDead'
    BY <1>1, <2>1 DEF ReadUser
  <2>3. \A q \in Requests : Holds(q)' <=> Holds(q)
    BY <1>1 DEF ReadUser
  <2>4. CleanBeforeReserve' /\ KeyMeansEligible' /\ SessionMeansDone' /\ FailedCheckoutReleases'
    BY <1>1 DEF ReadUser
  <2>5. QED
    BY <1>0, <1>1, <2>2, <2>3, <2>4 DEF ReadUser
<1>2. CASE GuardActive(r)  BY <1>0, <1>2 DEF GuardActive
<1>3. CASE CreateCustomer(r)  BY <1>0, <1>3 DEF CreateCustomer
<1>4. CASE SaveCustomer(r)  BY <1>0, <1>4 DEF SaveCustomer
<1>5. CASE LookupSubscription(r)
  <2>1. \A q \in Requests : Holds(q)' <=> Holds(q)
    BY <1>5 DEF LookupSubscription
  <2>2. /\ CleanBeforeReserve' /\ KeyMeansEligible' /\ RetryIsDead'
      /\ SessionMeansDone' /\ FailedCheckoutReleases'
    BY <1>5 DEF LookupSubscription
  <2>3. QED
    BY <1>0, <1>5, <2>1, <2>2 DEF LookupSubscription
<1>6. CASE ReserveTrial(r)
  <2>1. CASE MayReserve
    <3>1. \A q \in Requests : ~Holds(q)
      BY <2>1 DEF MayReserve
    <3>2. \A q \in Requests : Holds(q)' => q = r
      BY <1>6, <2>1, <3>1 DEF ReserveTrial
    <3>3. stripeTrialUsedAt' /\ MarkedTogether'
      BY <1>6, <2>1 DEF ReserveTrial
    <3>4. KeyMeansEligible' /\ FailedCheckoutReleases'
      <4>1. stripeTrialSubscriptionId' = Pending(r) /\ eligible'[r] /\ pc'[r] = "create"
        BY <1>6, <2>1 DEF ReserveTrial
      <4>2. QED
        BY <1>6, <4>1 DEF ReserveTrial
    <3>5. CleanBeforeReserve' /\ RetryIsDead' /\ SessionMeansDone'
      BY <1>6, <2>1 DEF ReserveTrial
    <3>6. QED
      BY <1>0, <3>2, <3>3, <3>4, <3>5
  <2>2. CASE ~MayReserve
    <3>1. /\ UNCHANGED <<stripeTrialUsedAt, stripeTrialSubscriptionId>>
          /\ \A q \in Requests : eligible'[q] = eligible[q]
      <4>1. eligible[r] = FALSE /\ MayReserve = FALSE
        BY <1>6, <2>2 DEF ReserveTrial, MayReserve
      <4>2. QED
        BY <1>6, <4>1 DEF ReserveTrial
    <3>2. \A q \in Requests : Holds(q)' <=> Holds(q)
      BY <1>6, <3>1 DEF ReserveTrial
    <3>3. /\ CleanBeforeReserve' /\ KeyMeansEligible' /\ RetryIsDead'
          /\ SessionMeansDone' /\ FailedCheckoutReleases'
      BY <1>6, <3>1 DEF ReserveTrial
    <3>4. QED
      BY <1>0, <3>1, <3>2, <3>3
  <2>3. QED
    BY <2>1, <2>2
<1>7. CASE NoPriceForPlan(r)  BY <1>0, <1>7 DEF NoPriceForPlan
<1>8. CASE CreateSession(r)  BY <1>0, <1>8 DEF CreateSession, Offer
<1>9. CASE CreateSessionFails(r)  BY <1>0, <1>9 DEF CreateSessionFails, AfterError, AfterRelease
<1>10. CASE ReleaseTrial(r)
  <2>1. /\ CleanBeforeReserve' /\ RetryIsDead' /\ SessionMeansDone'
    BY <1>10 DEF ReleaseTrial, AfterRelease
  <2>2. CASE HoldsReservation(r)
    <3>1. \A q \in Requests : Holds(q) => q = r
      BY <2>2 DEF HoldsReservation
    <3>2. \A q \in Requests : ~Holds(q)'
      BY <1>10, <2>2, <3>1 DEF ReleaseTrial, AfterRelease
    <3>3. MarkedTogether' /\ KeyMeansEligible' /\ FailedCheckoutReleases'
      BY <1>10, <2>2 DEF ReleaseTrial
    <3>4. QED
      BY <1>0, <2>1, <3>2, <3>3
  <2>3. CASE ~HoldsReservation(r)
    <3>1. UNCHANGED <<stripeTrialUsedAt, stripeTrialSubscriptionId>>
      BY <1>10, <2>3 DEF ReleaseTrial
    <3>2. \A q \in Requests : Holds(q)' <=> Holds(q)
      BY <1>10, <3>1 DEF ReleaseTrial, AfterRelease
    <3>3. KeyMeansEligible' /\ FailedCheckoutReleases'
      BY <1>10, <2>3, <3>1 DEF ReleaseTrial, HoldsReservation
    <3>4. QED
      BY <1>0, <2>1, <3>1, <3>2, <3>3
  <2>4. QED
    BY <2>2, <2>3
<1>11. CASE ReleaseFails(r)  BY <1>0, <1>11 DEF ReleaseFails, AfterRelease
<1>12. CASE ClearCustomer(r)  BY <1>0, <1>12 DEF ClearCustomer, RetryCustomer
<1>13. CASE RetrySession(r)  BY <1>0, <1>13 DEF RetrySession, Offer
<1>14. CASE Crash(r)  BY <1>0, <1>14 DEF Crash
<1>15. QED
  BY <1>1, <1>2, <1>3, <1>4, <1>5, <1>6, <1>7, <1>8, <1>9, <1>10, <1>11, <1>12,
     <1>13, <1>14 DEF Request

\* Stripe never touches the user row, and never brings a customer back.
LEMMA StripeIInv == IInv /\ Stripe => IInv'
<1> SUFFICES ASSUME IInv, Stripe PROVE IInv'
  OBVIOUS
<1>1. TypeOK'
  BY TypeStripe DEF IInv
<1>2. UNCHANGED <<dbVars, requestVars>> /\ deleted \subseteq deleted'
  BY DEF Stripe, PayCheckout, OpenManualTrial, EndTrial, CancelSub, PeriodEnds,
         DeleteCustomer, stripeVars
<1>3. \A r \in Requests : Holds(r)' <=> Holds(r)
  BY <1>2 DEF Holds, dbVars, requestVars
<1>4. QED
  BY <1>1, <1>2, <1>3 DEF IInv, dbVars, requestVars, MarkedTogether, OneHolder, HeldIsUsed,
     CleanBeforeReserve, KeyMeansEligible, RetryIsDead, SessionMeansDone, FailedCheckoutReleases

\* A webhook only ever replaces a key by a subscription id, and only ever
\* marks the trial as used.
LEMMA WebhookIInv == IInv /\ Webhook => IInv'
<1> SUFFICES ASSUME IInv, Webhook PROVE IInv'
  OBVIOUS
<1>1. TypeOK'
  BY TypeWebhook DEF IInv
<1>2. UNCHANGED <<requestVars, deleted>> /\ (stripeTrialUsedAt => stripeTrialUsedAt')
  BY DEF Webhook, HookBegin, HookDeleted, MarkTrialSubscription, StampTrialUsed,
         TrialMarkFails, SaveRow, HookCrash, stripeVars, dbVars, IInv, TypeOK
<1>3. MarkedTogether'
  <2> USE MarksDiffer DEF IInv, TypeOK, MarkedTogether, dbVars
  <2>1. ASSUME NEW s \in Subs, MarkTrialSubscription(s) PROVE MarkedTogether'
    BY <2>1 DEF MarkTrialSubscription
  <2>2. ASSUME NEW s \in Subs, StampTrialUsed(s) PROVE MarkedTogether'
    BY <2>2 DEF StampTrialUsed, StampedId
  <2>3. CASE UNCHANGED dbVars
    BY <2>3
  <2>4. QED
    BY <2>1, <2>2, <2>3 DEF Webhook, HookBegin, HookDeleted, TrialMarkFails, SaveRow, HookCrash
<1>4. \A r \in Requests : stripeTrialSubscriptionId' = Pending(r)
                         => stripeTrialSubscriptionId = Pending(r)
  BY MarksDiffer DEF Webhook, HookBegin, HookDeleted, MarkTrialSubscription,
     StampTrialUsed, StampedId, TrialMarkFails, SaveRow, HookCrash, dbVars
<1>5. \A r \in Requests : Holds(r)' => Holds(r)
  BY <1>2, <1>4 DEF Holds, requestVars
<1>6. QED
  BY <1>1, <1>2, <1>3, <1>4, <1>5 DEF IInv, requestVars, OneHolder, HeldIsUsed,
     CleanBeforeReserve, KeyMeansEligible, RetryIsDead, SessionMeansDone, FailedCheckoutReleases

LEMMA StutterIInv == IInv /\ UNCHANGED vars => IInv'
  BY DEF IInv, vars, dbVars, requestVars, stripeVars, TypeOK, MarkedTogether, OneHolder,
         HeldIsUsed, Holds, CleanBeforeReserve, KeyMeansEligible, RetryIsDead,
         SessionMeansDone, FailedCheckoutReleases

LEMMA InductiveInvariant == Spec => []IInv
<1>1. IInv /\ [Next]_vars => IInv'
  BY RequestIInv, StripeIInv, WebhookIInv, StutterIInv DEF Next
<1>2. QED
  BY <1>1, InitIInv, PTL DEF Spec

\* At most one checkout session of a user ever carries the free trial, for
\* any number of concurrent requests.
THEOREM OneTrialSessionHolds == Spec => []OneTrialSession
<1>1. IInv => OneTrialSession
  BY DEF IInv, OneHolder, Holds, OneTrialSession
<1>2. QED
  BY <1>1, InductiveInvariant, PTL

\* A trial session in a client's hands is recorded on the user row.
THEOREM TrialSessionIsRecordedHolds == Spec => []TrialSessionIsRecorded
<1>1. IInv => TrialSessionIsRecorded
  BY DEF IInv, HeldIsUsed, Holds, TrialSessionIsRecorded
<1>2. QED
  BY <1>1, InductiveInvariant, PTL

\* A failed checkout leaves no reservation behind, unless it could not run
\* its release.
THEOREM FailedCheckoutReleasesHolds == Spec => []FailedCheckoutReleases
<1>1. IInv => FailedCheckoutReleases
  BY DEF IInv
<1>2. QED
  BY <1>1, InductiveInvariant, PTL

\* The two trial columns are set and cleared together.
THEOREM MarkedTogetherHolds == Spec => []MarkedTogether
<1>1. IInv => MarkedTogether
  BY DEF IInv
<1>2. QED
  BY <1>1, InductiveInvariant, PTL

\* Only the request whose key is stored gives the trial back.
THEOREM OnlyHolderReleasesHolds == Spec => OnlyHolderReleases
<1> DEFINE Release == stripeTrialUsedAt /\ ~stripeTrialUsedAt'
                        => \E r \in Requests : /\ stripeTrialSubscriptionId = Pending(r)
                                               /\ pc[r] = "rollback" /\ session[r] = "none"
<1>1. IInv /\ [Next]_vars => [Release]_vars
  <2> SUFFICES ASSUME IInv, Next, stripeTrialUsedAt, ~stripeTrialUsedAt'
               PROVE  \E r \in Requests : /\ stripeTrialSubscriptionId = Pending(r)
                                         /\ pc[r] = "rollback" /\ session[r] = "none"
    OBVIOUS
  <2>1. ~Stripe
    BY DEF Stripe, PayCheckout, OpenManualTrial, EndTrial, CancelSub, PeriodEnds,
           DeleteCustomer, dbVars
  <2>2. ~Webhook
    BY DEF Webhook, HookBegin, HookDeleted, MarkTrialSubscription, StampTrialUsed,
           TrialMarkFails, SaveRow, HookCrash, dbVars
  <2>3. PICK r \in Requests : Request(r)
    BY <2>1, <2>2 DEF Next
  <2>4. ReleaseTrial(r) /\ HoldsReservation(r)
    BY <2>3 DEF Request, ReadUser, GuardActive, CreateCustomer, SaveCustomer,
       LookupSubscription, ReserveTrial, NoPriceForPlan, CreateSession,
       CreateSessionFails, ReleaseTrial, ReleaseFails, ClearCustomer, RetrySession,
       Crash, dbVars
  <2>5. QED
    BY <2>4 DEF ReleaseTrial, Goto, HoldsReservation, IInv, SessionMeansDone
<1>2. QED
  BY <1>1, InductiveInvariant, PTL DEF Spec, OnlyHolderReleases

-----------------------------------------------------------------------------
(* The columns, reservations and sessions implement OneTimeTrial           *)

Holders == {r \in Requests : Holds(r)}
Givers  == {r \in Requests : session[r] = "trial"}
Refined == Once!Next \/ UNCHANGED <<TrialStage, Holders, Givers>>

\* Steps that leave the columns and the sessions: a request that was about to
\* create its session may lose the trial, when it has been recorded meanwhile.
LEMMA LosingRefines ==
  ASSUME IInv, NEW r \in Requests, Holds(r)' => Holds(r),
         UNCHANGED <<stripeTrialUsedAt, stripeTrialSubscriptionId, session>>,
         \A q \in Requests \ {r} : UNCHANGED <<eligible[q], pc[q]>>
  PROVE  Refined
<1>1. UNCHANGED <<TrialStage, Givers>>
  BY DEF TrialStage, Givers
<1>2. \A q \in Requests \ {r} : Holds(q)' <=> Holds(q)
  BY DEF Holds
<1>3. CASE Holds(r)' <=> Holds(r)
  BY <1>1, <1>2, <1>3 DEF Refined, Holders
<1>4. CASE Holds(r) /\ ~Holds(r)'
  <2>1. \A q \in Requests : Holds(q) => q = r
    BY <1>4 DEF IInv, OneHolder
  <2>2. Holders' = {} /\ Givers = {}
    BY <1>2, <1>4, <2>1 DEF Holders, Givers, Holds
  <2>3. TrialStage = "used"
    BY <1>4, <2>1 DEF TrialStage, IInv, HeldIsUsed, Holds
  <2>4. Once!Record
    BY <1>1, <2>2, <2>3 DEF Once!Record, Holders, Givers
  <2>5. QED
    BY <2>4 DEF Refined, Once!Next
<1>5. QED
  BY <1>3, <1>4

LEMMA ReserveRefines ==
  ASSUME IInv, IInv', NEW r \in Requests, ReserveTrial(r)
  PROVE  Refined
<1> USE MarksDiffer DEF IInv, TypeOK, Goto
<1>1. CASE ~MayReserve
  <2>1. UNCHANGED <<stripeTrialUsedAt, stripeTrialSubscriptionId, session>>
    BY <1>1 DEF ReserveTrial
  <2>2. \A q \in Requests \ {r} : UNCHANGED <<eligible[q], pc[q]>>
    BY DEF ReserveTrial
  <2>3. ~eligible'[r]
    BY <1>1 DEF ReserveTrial, MayReserve
  <2>4. QED
    BY <2>1, <2>2, <2>3, LosingRefines DEF Holds
<1>2. CASE MayReserve
  <2>1. Holders = {}
    BY <1>2 DEF Holders, HeldIsUsed, MayReserve
  <2>2. /\ stripeTrialUsedAt' /\ stripeTrialSubscriptionId' = Pending(r)
        /\ session' = session /\ session[r] = "none"
    BY <1>2 DEF ReserveTrial, SessionMeansDone
  <2>3. Holders' = {r}
    BY <2>2 DEF Holders, OneHolder, Holds
  <2>4. TrialStage = "unused" /\ TrialStage' = "reserved" /\ UNCHANGED Givers
    BY <1>2, <2>2 DEF TrialStage, MayReserve, Givers
  <2>5. Once!Reserve(r)
    BY <2>3, <2>4 DEF Once!Reserve, Holders, Givers
  <2>6. QED
    BY <2>5 DEF Refined, Once!Next
<1>3. QED
  BY <1>1, <1>2

LEMMA ReleaseRefines ==
  ASSUME IInv, IInv', NEW r \in Requests, ReleaseTrial(r)
  PROVE  Refined
<1> USE MarksDiffer DEF IInv, TypeOK, Goto
<1>1. CASE ~HoldsReservation(r)
  <2>1. UNCHANGED <<stripeTrialUsedAt, stripeTrialSubscriptionId, session>>
    BY <1>1 DEF ReleaseTrial
  <2>2. /\ \A q \in Requests \ {r} : UNCHANGED <<eligible[q], pc[q]>>
        /\ pc'[r] # "create"
    BY DEF ReleaseTrial, AfterRelease
  <2>3. QED
    BY <2>1, <2>2, LosingRefines DEF Holds
<1>2. CASE HoldsReservation(r)
  <2>1. /\ stripeTrialUsedAt /\ ~stripeTrialUsedAt' /\ stripeTrialSubscriptionId = Pending(r)
        /\ session' = session /\ session[r] = "none"
    BY <1>2 DEF ReleaseTrial, HoldsReservation, HeldIsUsed, Holds, SessionMeansDone
  <2>2. TrialStage = "reserved" /\ TrialStage' = "unused" /\ UNCHANGED Givers
    BY <2>1 DEF TrialStage, Givers
  <2>3. Holders' = {}
    BY <2>1 DEF Holders, HeldIsUsed
  <2>4. Once!GiveBack
    BY <2>2, <2>3 DEF Once!GiveBack, Holders, Givers
  <2>5. QED
    BY <2>4 DEF Refined, Once!Next
<1>3. QED
  BY <1>1, <1>2

\* The session of the one holder gives the trial; any other is a plain one.
LEMMA SessionRefines ==
  ASSUME IInv, IInv', NEW r \in Requests, CreateSession(r)
  PROVE  Refined
<1> USE MarksDiffer DEF IInv, TypeOK, Goto
<1>1. /\ pc[r] = "create" /\ pc'[r] = "done" /\ session[r] = "none"
      /\ session' = [session EXCEPT ![r] = Offer(r)]
      /\ UNCHANGED <<stripeTrialUsedAt, stripeTrialSubscriptionId, eligible>>
      /\ \A q \in Requests \ {r} : pc'[q] = pc[q]
  BY DEF CreateSession, dbVars, SessionMeansDone
<1>2. CASE eligible[r]
  <2>1. Holders = {r} /\ session'[r] = "trial"
    BY <1>1, <1>2 DEF Holders, OneHolder, Holds, Offer
  <2>2. \A q \in Requests : session[q] # "trial" /\ (session'[q] = "trial" <=> q = r)
    BY <1>1, <2>1 DEF Holders, Holds
  <2>3. Givers = {} /\ Givers' = {r}
    BY <2>2 DEF Givers
  <2>4. Holders' = {r}
    BY <2>1 DEF Holders, OneHolder, Holds
  <2>5. TrialStage' = "used"
    <3>1. \A q \in Requests : stripeTrialSubscriptionId' = Pending(q) => q = r
      BY <2>1, <2>4 DEF Holders, Holds
    <3>2. stripeTrialUsedAt'
      BY <2>4 DEF Holders, HeldIsUsed
    <3>3. QED
      BY <2>1, <3>1, <3>2 DEF TrialStage
  <2>6. Once!Give(r)
    BY <2>1, <2>3, <2>4, <2>5 DEF Once!Give, Holders, Givers
  <2>7. QED
    BY <2>6 DEF Refined, Once!Next
<1>3. CASE ~eligible[r]
  <2>1. session'[r] = "plain" /\ \A q \in Requests \ {r} : session'[q] = session[q]
    BY <1>1, <1>3 DEF Offer
  <2>2. stripeTrialSubscriptionId # Pending(r)
    BY <1>3 DEF KeyMeansEligible
  <2>3. \A q \in Requests : Holds(q)' <=> Holds(q)
    BY <1>1, <1>3, <2>1, <2>2 DEF Holds
  <2>4. UNCHANGED Givers
    BY <1>1, <2>1 DEF Givers
  <2>5. UNCHANGED TrialStage
    BY <1>1, <2>1, <2>2 DEF TrialStage
  <2>6. QED
    BY <2>3, <2>4, <2>5 DEF Refined, Holders
<1>4. QED
  BY <1>2, <1>3

LEMMA RequestRefines ==
  ASSUME IInv, IInv', NEW r \in Requests, Request(r)
  PROVE  Refined
<1> DEFINE Quiet == /\ UNCHANGED <<stripeTrialUsedAt, stripeTrialSubscriptionId, session>>
                    /\ \A q \in Requests \ {r} : UNCHANGED <<eligible[q], pc[q]>>
                    /\ Holds(r)' => Holds(r)
<1>1. Quiet \/ ReserveTrial(r) \/ CreateSession(r) \/ ReleaseTrial(r)
  <2> USE DEF IInv, TypeOK, Goto, dbVars, Holds
  <2>1. CASE ReadUser(r)  BY <2>1 DEF ReadUser
  <2>2. CASE GuardActive(r)  BY <2>2 DEF GuardActive
  <2>3. CASE CreateCustomer(r)  BY <2>3 DEF CreateCustomer
  <2>4. CASE SaveCustomer(r)  BY <2>4 DEF SaveCustomer
  <2>5. CASE LookupSubscription(r)
    BY <2>5 DEF LookupSubscription, CleanBeforeReserve, BeforeReserve
  <2>6. CASE NoPriceForPlan(r)  BY <2>6 DEF NoPriceForPlan
  <2>7. CASE CreateSessionFails(r)  BY <2>7 DEF CreateSessionFails, AfterError, AfterRelease
  <2>8. CASE ReleaseFails(r)  BY <2>8 DEF ReleaseFails, AfterRelease
  <2>9. CASE ClearCustomer(r)  BY <2>9 DEF ClearCustomer
  <2>10. CASE RetrySession(r)
    <3>1. ~(error[r] = "missing" /\ customerId[r] \notin deleted)
      BY <2>10 DEF RetrySession, RetryIsDead
    <3>2. QED
      BY <2>10, <3>1 DEF RetrySession
  <2>11. CASE Crash(r)  BY <2>11 DEF Crash
  <2>12. QED
    BY <2>1, <2>2, <2>3, <2>4, <2>5, <2>6, <2>7, <2>8, <2>9, <2>10, <2>11 DEF Request
<1>2. QED
  BY <1>1, LosingRefines, ReserveRefines, SessionRefines, ReleaseRefines

\* A webhook records a trial that is used; a key it overwrites is lost, unless
\* its request is about to create its session or has done so.
LEMMA WebhookRefines ==
  ASSUME IInv, IInv', Webhook
  PROVE  Refined
<1>1. /\ UNCHANGED <<session, eligible, pc>> /\ (stripeTrialUsedAt => stripeTrialUsedAt')
      /\ \/ UNCHANGED <<stripeTrialUsedAt, stripeTrialSubscriptionId>>
         \/ /\ stripeTrialUsedAt'
            /\ \E s \in Subs : stripeTrialSubscriptionId' = SubId(s)
  <2> USE DEF IInv, TypeOK, MarkedTogether, dbVars, requestVars
  <2>1. ASSUME NEW s \in Subs, MarkTrialSubscription(s)
        PROVE  /\ UNCHANGED <<requestVars, stripeTrialUsedAt>>
               /\ \/ UNCHANGED stripeTrialSubscriptionId
                  \/ stripeTrialUsedAt /\ stripeTrialSubscriptionId' = SubId(s)
    BY <2>1 DEF MarkTrialSubscription
  <2>2. ASSUME NEW s \in Subs, StampTrialUsed(s)
        PROVE  /\ UNCHANGED requestVars /\ stripeTrialUsedAt'
               /\ \/ UNCHANGED <<stripeTrialUsedAt, stripeTrialSubscriptionId>>
                  \/ stripeTrialSubscriptionId' = SubId(s)
    BY <2>2 DEF StampTrialUsed, StampedId
  <2>3. CASE UNCHANGED <<dbVars, requestVars>>
    BY <2>3
  <2>4. QED
    BY <2>1, <2>2, <2>3 DEF Webhook, HookBegin, HookDeleted, TrialMarkFails, SaveRow, HookCrash
<1>2. UNCHANGED Givers
  BY <1>1 DEF Givers
<1>3. CASE UNCHANGED <<stripeTrialUsedAt, stripeTrialSubscriptionId>>
  <2>1. \A q \in Requests : Holds(q)' <=> Holds(q)
    BY <1>1, <1>3 DEF Holds
  <2>2. UNCHANGED TrialStage
    BY <1>1, <1>3 DEF TrialStage
  <2>3. QED
    BY <1>2, <2>1, <2>2 DEF Refined, Holders
<1>4. ASSUME stripeTrialUsedAt', NEW s \in Subs, stripeTrialSubscriptionId' = SubId(s)
      PROVE  Refined
  <2>1. \A q \in Requests : stripeTrialSubscriptionId' # Pending(q)
    BY <1>4, MarksDiffer
  <2>2. TrialStage' = "used"
    BY <1>4, <2>1 DEF TrialStage
  <2>3. \A q \in Requests : Holds(q)' <=> session[q] = "trial" \/ (eligible[q] /\ pc[q] = "create")
    BY <1>1, <2>1 DEF Holds
  <2>4. Holders' \subseteq Holders /\ Givers \subseteq Holders'
    BY <2>3 DEF Holders, Holds, Givers
  <2>5. \A p, q \in Holders : p = q
    BY DEF Holders, IInv, OneHolder
  <2>6. Holders' \in {Holders, Givers}
    BY <2>4, <2>5
  <2>7. Once!Record
    BY <1>2, <2>2, <2>6 DEF Once!Record, Holders, Givers
  <2>8. QED
    BY <2>7 DEF Refined, Once!Next
<1>5. QED
  BY <1>1, <1>3, <1>4

\* However many checkouts race, retry and fail, and whatever the webhook
\* records meanwhile, the trial is given once, by the request that reserved
\* it, and never after it was recorded or given.
THEOREM TrialGivenOnceHolds == Spec => TrialGivenOnce
<1>1. Init => Once!Init
  <2> SUFFICES ASSUME Init PROVE Once!Init
    OBVIOUS
  <2>1. \A r \in Requests : ~Holds(r)
    BY MarksDiffer DEF Init, Holds
  <2>2. QED
    BY <2>1 DEF Init, Once!Init, TrialStage
<1>2. IInv /\ IInv' /\ [Next]_vars => [Once!Next]_(Once!vars)
  <2> SUFFICES ASSUME IInv, IInv', [Next]_vars PROVE Refined
    BY DEF Refined, Once!vars, Holders, Givers
  <2>1. CASE UNCHANGED <<dbVars, requestVars>>
    <3>1. \A q \in Requests : Holds(q)' <=> Holds(q)
      BY <2>1 DEF Holds, dbVars, requestVars
    <3>2. QED
      BY <2>1, <3>1 DEF Refined, TrialStage, Holders, Givers, dbVars, requestVars
  <2>2. Stripe => UNCHANGED <<dbVars, requestVars>>
    BY DEF Stripe, PayCheckout, OpenManualTrial, EndTrial, CancelSub, PeriodEnds, DeleteCustomer
  <2>3. QED
    BY <2>1, <2>2, RequestRefines, WebhookRefines DEF Next, vars
<1>3. QED
  BY <1>1, <1>2, InductiveInvariant, PTL DEF Spec, TrialGivenOnce, Once!Spec
=============================================================================

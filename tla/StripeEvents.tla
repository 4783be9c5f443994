----------------------------- MODULE StripeEvents -----------------------------
(***************************************************************************)
(* The Stripe webhook: how the events of a subscription become the rows    *)
(* of the subscriptions table, one per billing period.                     *)
(*   - Stripe publishes an event for each change and delivers it until it  *)
(*     is answered, in any order, several at a time, some more than once;  *)
(*   - a delivery reads, writes and answers in separate steps, outside any *)
(*     transaction, and its process may die between two of them;           *)
(*   - the cancel request of a user writes the same rows.                  *)
(* A handler that finds no user for the event returns early, and the event *)
(* is answered with nothing stored.  Users are not deleted.  Left out are  *)
(* events that are not of a subscription, whose handlers do nothing, plan  *)
(* and price columns, e-mails (nothing reads whether they went out), the   *)
(* trial columns and grants (StripeCheckout, Trials) and the mappings of   *)
(* linked accounts (AccountLinks).                                         *)
(***************************************************************************)
EXTENDS Integers, FiniteSets

CONSTANTS
  Subs,        \* Stripe subscriptions
  Hooks,       \* concurrent deliveries of the webhook
  MaxPeriod,   \* bound: billing periods of a subscription
  MaxChanges,  \* bound: changes at Stripe
  MaxFaults,   \* bound: deaths of a process, and deliveries after the answer
  MaxCancels,  \* bound: rows whose cancellation is requested
  MaxPassed,   \* bound: events whose handler returns early
  MaxLost,     \* bound: messages about a subscription after which no answer is lost
  None         \* no value

ASSUME ConstantsOK ==
  /\ MaxPeriod \in Nat \ {0}
  /\ {MaxChanges, MaxFaults, MaxCancels, MaxPassed, MaxLost} \subseteq Nat
  /\ None \notin Subs

VARIABLES
  stripe,    \* the subscriptions at Stripe
  changes,   \* number of changes at Stripe
  events,    \* events published
  answered,  \* events answered with 200
  passed,    \* history: events whose handler returned early, with nothing stored
  row,       \* rows of subscriptions, by Stripe id and period
  owned,     \* rows that have their OWNER mapping
  hook,      \* what each delivery is doing
  cancel,    \* the row a cancel request has read
  promised,  \* history: rows whose cancellation was confirmed to the user
  faults,    \* number of deaths and of deliveries after the answer
  claimed, notice, told, posted    \* PaidConversion

remoteVars == <<stripe, changes, events>>
noticeVars == <<claimed, notice, told, posted>>
vars == <<stripe, changes, events, answered, passed, row, owned, hook, cancel, promised,
          faults, claimed, notice, told, posted>>

Conversion == INSTANCE PaidConversion WITH Workers <- Hooks, Keys <- Subs

Periods  == 1..MaxPeriod
\* "incomplete" stands for it, "unpaid", "incomplete_expired" and "paused".
Statuses == {"trialing", "active", "past_due", "incomplete", "canceled"}
Stored   == {"TRIALING", "ACTIVE", "PAST_DUE", "CANCELLED"}
Kinds    == {"snapshot", "retrieve", "deleted"}

\* A snapshot carries the subscription as it was; the handlers of `retrieve`
\* events (checkout completed, invoice paid) fetch it as it is now.
Events == [kind : Kinds, sub : Subs, status : Statuses, period : Periods, stopping : BOOLEAN]

Absent == [status |-> None, period |-> 1, stopping |-> FALSE]
NoHook == [at |-> "idle", event |-> None, status |-> "active", period |-> 1,
           stopping |-> FALSE, exists |-> FALSE]
Rows   == [status : Stored, stopping : BOOLEAN, ended : BOOLEAN]

ASSUME NoneIsNoRow == None \notin Rows

TypeOK ==
  /\ stripe \in [Subs -> [status : Statuses \cup {None}, period : Periods, stopping : BOOLEAN]]
  /\ changes \in Nat /\ faults \in Nat
  /\ events \in SUBSET Events /\ answered \in SUBSET events /\ passed \in SUBSET events
  /\ row \in [Subs \X Periods -> Rows \cup {None}]
  /\ owned \in SUBSET (Subs \X Periods)
  /\ hook \in [Hooks -> [at : {"idle", "find", "write", "own", "notice", "telling",
                               "findRow", "cancelRow"},
                         event : Events \cup {None}, status : Statuses, period : Periods,
                         stopping : BOOLEAN, exists : BOOLEAN]]
  /\ cancel \in (Subs \X Periods) \cup {None}
  /\ promised \in SUBSET (Subs \X Periods)
  /\ Conversion!NoticeTypeOK

Init ==
  /\ stripe = [s \in Subs |-> Absent] /\ changes = 0
  /\ events = {} /\ answered = {} /\ passed = {}
  /\ row = [r \in Subs \X Periods |-> None]
  /\ owned = {}
  /\ hook = [h \in Hooks |-> NoHook]
  /\ cancel = None /\ promised = {}
  /\ faults = 0
  /\ Conversion!NoticeInit

-----------------------------------------------------------------------------
(* Stripe                                                                  *)

Event(kind, s) == [kind |-> kind, sub |-> s, status |-> stripe'[s].status,
                   period |-> stripe'[s].period, stopping |-> stripe'[s].stopping]

\* Subscription s becomes x; the change is published as events of these kinds.
Change(s, x, kinds) ==
  /\ changes < MaxChanges /\ changes' = changes + 1
  /\ stripe' = [stripe EXCEPT ![s] = x]
  /\ events' = events \cup {Event(kind, s) : kind \in kinds}
  /\ UNCHANGED <<answered, passed, row, owned, hook, cancel, promised, faults, noticeVars>>

Ongoing(s) == stripe[s].status \notin {None, "canceled"}

Subscribe(s) ==
  /\ stripe[s].status = None
  /\ \/ \E st \in {"trialing", "active"} :
          Change(s, [stripe[s] EXCEPT !.status = st], {"snapshot", "retrieve"})
     \/ Change(s, [stripe[s] EXCEPT !.status = "incomplete"], {"snapshot"})

\* The next period is paid, or its invoice stays open.
Renew(s) ==
  /\ Ongoing(s) /\ stripe[s].period < MaxPeriod /\ ~stripe[s].stopping
  /\ \/ Change(s, [stripe[s] EXCEPT !.status = "active", !.period = @ + 1],
               {"snapshot", "retrieve"})
     \/ Change(s, [stripe[s] EXCEPT !.status = "past_due", !.period = @ + 1], {"snapshot"})

Recover(s) ==
  /\ stripe[s].status \in {"past_due", "incomplete"}
  /\ Change(s, [stripe[s] EXCEPT !.status = "active"], {"snapshot", "retrieve"})

\* In the customer portal: stop at the end of the period, or change one's mind.
Toggle(s) ==
  /\ Ongoing(s)
  /\ Change(s, [stripe[s] EXCEPT !.stopping = ~@], {"snapshot"})

Delete(s) ==
  /\ Ongoing(s)
  /\ Change(s, [stripe[s] EXCEPT !.status = "canceled"], {"deleted"})

-----------------------------------------------------------------------------
(* handleWebhookEvent                                                      *)

HookGoto(h, to) == hook' = [hook EXCEPT ![h].at = to]
HookEnd(h)      == hook' = [hook EXCEPT ![h] = NoHook]
Sub(h)          == hook[h].event.sub
Key(h)          == <<Sub(h), hook[h].period>>

\* The handler of an event starts, with the subscription it will store.
Handling(e) ==
  LET now == IF e.kind = "retrieve" THEN stripe[e.sub] ELSE e IN
    [at |-> IF e.kind = "deleted" THEN "findRow" ELSE "find", event |-> e,
     status |-> now.status, period |-> now.period, stopping |-> now.stopping, exists |-> FALSE]

\* Stripe delivers an event again until it is answered, and sometimes after.
Deliver(h, e) ==
  /\ hook[h].at = "idle" /\ e \in events
  /\ \/ e \notin answered /\ UNCHANGED faults
     \/ e \in answered /\ faults < MaxFaults /\ faults' = faults + 1
  /\ hook' = [hook EXCEPT ![h] = Handling(e)]
  /\ UNCHANGED <<remoteVars, answered, passed, row, owned, cancel, promised, noticeVars>>

\* Is there a row of this period?
BugNeverFound(r) == FALSE
Found(r) == row[r] # None

FindPeriod(h) ==
  /\ hook[h].at = "find"
  /\ hook' = [hook EXCEPT ![h].at = "write", ![h].exists = Found(Key(h))]
  /\ UNCHANGED <<remoteVars, answered, passed, row, owned, cancel, promised, faults, noticeVars>>

\* The handler returns before it stores anything: the subscription of the
\* session or invoice is not given by its id, the customer is deleted or has no
\* e-mail address, no user is found, or the period has no dates.
PassOver(h) ==
  /\ hook[h].at = "find" /\ Cardinality(passed) < MaxPassed
  /\ passed' = passed \cup {hook[h].event}
  /\ HookGoto(h, "telling")
  /\ UNCHANGED <<remoteVars, answered, row, owned, cancel, promised, faults, noticeVars>>

\* Upper-cased, a status must be one of the enum SubscriptionStatus.
StoredStatus == [trialing |-> "TRIALING", active |-> "ACTIVE", past_due |-> "PAST_DUE",
                 canceled |-> "CANCELLED"]
BugRawStatus(status) == status
ToStored(status) == StoredStatus[status]
Storable(status) == status \in DOMAIN StoredStatus

\* Update the row that was found, or create it; an update keeps cancelledAt.
Saved(h) == [status   |-> ToStored(hook[h].status),
             stopping |-> hook[h].stopping,
             ended    |-> hook[h].exists /\ row[Key(h)].ended]

WriteRow(h) ==
  /\ hook[h].at = "write" /\ Storable(hook[h].status)
  /\ hook[h].exists = (row[Key(h)] # None)
  /\ row' = [row EXCEPT ![Key(h)] = Saved(h)]
  /\ HookGoto(h, "own")
  /\ UNCHANGED <<remoteVars, answered, passed, owned, cancel, promised, faults, noticeVars>>

\* The enum refuses the status, or the unique key the second row of a period:
\* the answer is 500.
WriteFails(h) ==
  /\ hook[h].at = "write"
  /\ ~Storable(hook[h].status) \/ hook[h].exists # (row[Key(h)] # None)
  /\ HookEnd(h)
  /\ UNCHANGED <<remoteVars, answered, passed, row, owned, cancel, promised, faults, noticeVars>>

\* ensureSubscriptionUserMapping, which ignores a mapping that exists.  It runs
\* after both branches, so a redelivery completes what a dead process began.
BugOwnNewRowsOnly(h) == IF hook[h].exists THEN owned ELSE owned \cup {Key(h)}
OwnedAfter(h) == owned \cup {Key(h)}

EnsureOwner(h) ==
  /\ hook[h].at = "own"
  /\ owned' = OwnedAfter(h)
  /\ HookGoto(h, "notice")
  /\ UNCHANGED <<remoteVars, answered, passed, row, cancel, promised, faults, noticeVars>>

\* maybeNotifyStripePaidConversion
NotifyPaid(h) ==
  /\ hook[h].at = "notice"
  /\ IF hook[h].status = "active" THEN Conversion!Acquire(h, Sub(h), "send")
                                  ELSE UNCHANGED noticeVars
  /\ HookGoto(h, "telling")
  /\ UNCHANGED <<remoteVars, answered, passed, row, owned, cancel, promised, faults>>

Tell(h) ==
  /\ Conversion!NoticeStep(h)
  /\ UNCHANGED <<remoteVars, answered, passed, row, owned, hook, cancel, promised, faults>>

\* handleSubscriptionDeleted takes one row of the subscription, in no order.
FindRow(h) ==
  /\ hook[h].at = "findRow"
  /\ \/ \E p \in Periods :
          /\ row[<<Sub(h), p>>] # None
          /\ hook' = [hook EXCEPT ![h].at = "cancelRow", ![h].period = p]
     \/ (\A p \in Periods : row[<<Sub(h), p>>] = None) /\ HookGoto(h, "telling")
  /\ UNCHANGED <<remoteVars, answered, passed, row, owned, cancel, promised, faults, noticeVars>>

CancelRow(h) ==
  /\ hook[h].at = "cancelRow"
  /\ row' = [row EXCEPT ![Key(h)] = [status |-> "CANCELLED", stopping |-> FALSE, ended |-> TRUE]]
  /\ HookGoto(h, "telling")
  /\ UNCHANGED <<remoteVars, answered, passed, owned, cancel, promised, faults, noticeVars>>

Answer(h) ==
  /\ hook[h].at = "telling" /\ notice[h].at = "idle"
  /\ answered' = answered \cup {hook[h].event}
  /\ HookEnd(h)
  /\ UNCHANGED <<remoteVars, passed, row, owned, cancel, promised, faults, noticeVars>>

\* The process dies, or a statement fails: the event is not answered.
Dies(h) ==
  /\ hook[h].at # "idle" /\ faults < MaxFaults /\ faults' = faults + 1
  /\ HookEnd(h)
  /\ IF notice[h].at = "idle" THEN UNCHANGED noticeVars ELSE Conversion!NoticeDies(h)
  /\ UNCHANGED <<remoteVars, answered, passed, row, owned, cancel, promised>>

\* Deleting the key fails: the handler goes on, the row stays.
ReleaseFails(h) ==
  /\ notice[h].at = "release" /\ faults < MaxFaults /\ faults' = faults + 1
  /\ Conversion!NoticeDies(h)
  /\ UNCHANGED <<remoteVars, answered, passed, row, owned, hook, cancel, promised>>

-----------------------------------------------------------------------------
(* SubscriptionService.cancel                                              *)

\* One request at a time is enough to follow.
CancelRead ==
  /\ cancel = None /\ Cardinality(promised) < MaxCancels
  /\ \E r \in Subs \X Periods :
       /\ row[r] # None /\ row[r].status \in {"ACTIVE", "TRIALING"}
       /\ cancel' = r
  /\ UNCHANGED <<remoteVars, answered, passed, row, owned, hook, promised, faults, noticeVars>>

\* Only the row is written; Stripe is not told.
CancelWrite ==
  /\ cancel # None
  /\ row' = [row EXCEPT ![cancel].stopping = TRUE]
  /\ promised' = promised \cup {cancel}
  /\ cancel' = None
  /\ UNCHANGED <<remoteVars, answered, passed, owned, hook, faults, noticeVars>>

-----------------------------------------------------------------------------
HookStep(h) ==
  \/ FindPeriod(h) \/ PassOver(h) \/ WriteRow(h) \/ WriteFails(h) \/ EnsureOwner(h) \/ NotifyPaid(h)
  \/ Tell(h) \/ FindRow(h) \/ CancelRow(h) \/ Answer(h)

Next ==
  \/ \E s \in Subs : \/ Subscribe(s) \/ Renew(s) \/ Recover(s)
                     \/ Toggle(s) \/ Delete(s)
  \/ \E h \in Hooks : \/ \E e \in events : Deliver(h, e)
                      \/ HookStep(h) \/ Dies(h) \/ ReleaseFails(h)
  \/ CancelRead \/ CancelWrite

\* An event that a handler could store if it started now.
Manageable(e) == Storable(Handling(e).status)

\* Stripe delivers an unanswered event again and again, also while others keep
\* failing; all that is asked here is that the manageable ones are not passed
\* over for ever.  A delivery that is not interrupted runs to its end.
Fairness ==
  /\ \A h \in Hooks : WF_vars(HookStep(h))
  /\ SF_vars(\E e \in events \ answered : Manageable(e) /\ \E h \in Hooks : Deliver(h, e))

Spec     == Init /\ [][Next]_vars
FairSpec == Spec /\ Fairness

-----------------------------------------------------------------------------
(* Properties                                                              *)

\* The 200 that ends the redelivery of an event is sent too early only by a
\* handler that returned early: any other answered event has its row, and the
\* row its user, whichever of the racing, dying and repeated deliveries wrote
\* them.
HasOwnedRow(s, p) == row[<<s, p>>] # None /\ <<s, p>> \in owned
AnsweredStored ==
  \A e \in answered \ passed : e.kind # "deleted" =>
    \E p \in Periods : HasOwnedRow(e.sub, p) /\ (e.kind = "snapshot" => p = e.period)

\* A row may be created by a process that dies before it is given to its user;
\* the delivery that follows gives it, so no row stays without an owner, unless
\* that delivery no longer finds the user.
RowsGetOwner ==
  \A s \in Subs, p \in Periods :
    row[<<s, p>>] # None ~> <<s, p>> \in owned \/ \E e \in passed : e.sub = s

\* Deliveries of one period race for the same row, and the loser answers 500;
\* still the webhook catches up with Stripe: again and again no event is left
\* unanswered but those whose status has no place in the enum.
EventsAnswered == []<>(\A e \in events : e \in answered \/ ~Manageable(e))

\* Deliveries that race, die and are repeated never have two notices of one
\* conversion under way, and send none once Slack has acknowledged one:
\* PaidConversion, as embedded here, is followed.
ConversionLogged == Conversion!ImplementsLog

\* paid-conversion-slack.service.ts:16 "Deduped per Stripe subscription id so
\* webhooks cannot double-notify": one message of each conversion.
NotifiedOnce == Conversion!NotifiedOnce

\* subscription.service.ts:253 "Subscription will be cancelled at the end of
\* the current period": the row shows it until the subscription is cancelled.
CancellationStands ==
  \A r \in promised : row[r].stopping \/ row[r].status = "CANCELLED"
=============================================================================

---------------------------- MODULE PaidConversion ----------------------------
(***************************************************************************)
(* PaidConversionSlackService: the Slack notice that a purchase has become *)
(* a paid one.  A worker inserts the dedupe key of the purchase, which is  *)
(* unique, sends the notice, and deletes its row again when Slack did not  *)
(* take it, as far as it knows: a lost answer looks like a refusal.  The   *)
(* variables are shared with the service that carries the workers:         *)
(* StripeEvents and ApplePurchases embed these actions.                    *)
(***************************************************************************)
EXTENDS Integers

CONSTANTS
  Workers,   \* requests and webhook deliveries that may send a notice
  Keys,      \* dedupe keys, one per purchase
  MaxLost,   \* bound: messages about one purchase after which no answer is lost
  None       \* no key

\* What the proofs ask of the constants.
ConversionConstants == None \notin Keys

VARIABLES
  claimed,   \* rows of paid_conversion_slack_notifications, by key
  notice,    \* what each worker is doing
  told,      \* history: keys whose notice Slack acknowledged
  posted     \* history: messages about each key that reached Slack

noticeVars == <<claimed, notice, told, posted>>

Quiet == [at |-> "idle", key |-> None]

NoticeTypeOK ==
  /\ claimed \in SUBSET Keys
  /\ notice \in [Workers -> [at : {"idle", "check", "send", "release"}, key : Keys \cup {None}]]
  /\ told \in SUBSET Keys
  /\ posted \in [Keys -> Nat]

NoticeInit ==
  /\ claimed = {}
  /\ notice = [w \in Workers |-> Quiet]
  /\ told = {}
  /\ posted = [k \in Keys |-> 0]

NoticeGoto(w, to) == notice' = [notice EXCEPT ![w].at = to]
NoticeEnd(w)      == notice' = [notice EXCEPT ![w] = Quiet]

\* The unique key refuses a second row: the caller returns silently.
BugAcquireAny(k) == TRUE
Acquirable(k) == k \notin claimed

\* `first` is what comes after the key: Stripe sends at once, Apple first
\* looks at the trial of the user.
Acquire(w, k, first) ==
  /\ notice[w].at = "idle"
  /\ IF Acquirable(k)
     THEN claimed' = claimed \cup {k} /\ notice' = [notice EXCEPT ![w] = [at |-> first, key |-> k]]
     ELSE UNCHANGED <<claimed, notice>>
  /\ UNCHANGED <<told, posted>>

\* A trial that is still running is not a conversion.
CheckTrial(w) ==
  /\ notice[w].at = "check"
  /\ \E next \in {"send", "release"} : NoticeGoto(w, next)
  /\ UNCHANGED <<claimed, told, posted>>

BugReleaseAfterSend(w) == NoticeGoto(w, "release")
AfterSend(w) == NoticeEnd(w)

Reached(k) == posted' = [posted EXCEPT ![k] = @ + 1]

Sent(w) ==
  /\ notice[w].at = "send"
  /\ told' = told \cup {notice[w].key}
  /\ Reached(notice[w].key)
  /\ AfterSend(w)
  /\ UNCHANGED claimed

\* Slack refuses the message.
Refused(w) ==
  /\ notice[w].at = "send"
  /\ NoticeGoto(w, "release")
  /\ UNCHANGED <<claimed, told, posted>>

\* The message reaches Slack and the answer is lost or says otherwise.
AnswerLost(w) ==
  /\ notice[w].at = "send" /\ posted[notice[w].key] < MaxLost
  /\ Reached(notice[w].key)
  /\ NoticeGoto(w, "release")
  /\ UNCHANGED <<claimed, told>>

\* DELETE ... WHERE id = the row this worker inserted
Release(w) ==
  /\ notice[w].at = "release"
  /\ claimed' = claimed \ {notice[w].key}
  /\ NoticeEnd(w)
  /\ UNCHANGED <<told, posted>>

\* The process dies, before or (AnswerLost) after the message went out, or the
\* delete fails: the row stays.
NoticeDies(w) ==
  /\ notice[w].at # "idle"
  /\ NoticeEnd(w)
  /\ UNCHANGED <<claimed, told, posted>>

NoticeStep(w) == CheckTrial(w) \/ Sent(w) \/ Refused(w) \/ AnswerLost(w) \/ Release(w)

NoticeNext ==
  \E w \in Workers :
    \/ \E k \in Keys, first \in {"check", "send"} : Acquire(w, k, first)
    \/ NoticeStep(w) \/ NoticeDies(w)

NoticeSpec == NoticeInit /\ [][NoticeNext]_noticeVars

-----------------------------------------------------------------------------
(* Properties                                                              *)

\* Of one purchase there are no two notices at a time, each message is of a
\* telling of its own, and none follows one that Slack has acknowledged, however
\* the workers race, die and repeat: the notices implement NoticeLog.  A key is
\* taken while a worker may still send its notice.
Telling(k)  == \E w \in Workers : notice[w].at \in {"check", "send"} /\ notice[w].key = k
LogEntry(k) == IF k \in told THEN "told" ELSE IF Telling(k) THEN "taken" ELSE "open"
Log == INSTANCE NoticeLog WITH log <- [k \in Keys |-> LogEntry(k)], messages <- posted
ImplementsLog == Log!Spec

\* paid-conversion-slack.service.ts:16 "Deduped per Stripe subscription id so
\* webhooks cannot double-notify".
NotifiedOnce == \A k \in Keys : posted[k] <= 1

\* The invariant behind it.  A worker that is sending or releasing owns the
\* row of its key, alone; the key has not been told; and what was told keeps
\* its row.
IdleHasNoKey == \A w \in Workers : notice[w].at = "idle" <=> notice[w].key = None
KeyIsClaimed == \A w \in Workers : notice[w].key # None => notice[w].key \in claimed \ told
KeyIsAlone   == \A v, w \in Workers : v # w /\ notice[v].key = notice[w].key
                  => notice[v].key = None
ToldIsKept   == told \subseteq claimed
HolderOwnsKey == IdleHasNoKey /\ KeyIsClaimed /\ KeyIsAlone /\ ToldIsKept
=============================================================================

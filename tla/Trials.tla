-------------------------------- MODULE Trials --------------------------------
(***************************************************************************)
(* TrialService: the one-time free trial of a user, its copy in the trial  *)
(* columns of the user row, and the Slack notice of its start.             *)
(*   - grants: grantIfEligible, called when a Stripe or Apple subscription *)
(*     has been stored.  Its transaction runs at READ COMMITTED: reads     *)
(*     take no lock, and what it writes becomes visible at the commit, so  *)
(*     each read is a step and the writes with the commit are one;         *)
(*   - checks: SubscriptionService.getStatusWithSession, which expires the *)
(*     trial (twice) and then reports and repairs the user row;            *)
(*   - sessions: AuthService.verifySession, which ends a trial of its own; *)
(*   - the Stripe webhook and Apple's receipts, which record the trial of  *)
(*     a subscription in the same columns.                                 *)
(* The feature flag is on, the users form one cluster of linked accounts,  *)
(* and no account is deleted.  Left out are trialStartsAt and trialTier,   *)
(* written together with trialEndsAt and trialActive.                      *)
(***************************************************************************)
EXTENDS Integers, FiniteSets

CONSTANTS
  Users,       \* user ids, in the order of the database
  Devices,     \* device hashes sent by the Apple clients
  Grants,      \* workers carrying grantIfEligible
  Checks,      \* workers carrying a status or session request
  Duration,    \* TRIAL_DURATION_DAYS, in clock units
  MaxTime,     \* bound: where the model's clock stops
  MaxLost,     \* bound: messages about one start after which no answer is lost
  None         \* SQL NULL

ASSUME ConstantsOK ==
  /\ Users \subseteq Nat
  /\ Duration \in Nat \ {0} /\ MaxTime \in Nat /\ MaxLost \in Nat
  /\ None \notin Nat \cup Devices \cup Grants

VARIABLES
  trial,        \* users.trial_active and trial_ends_at
  grant,        \* trial_grants, with its slack_trial_started_notified_at
  fingerprint,  \* device_trial_fingerprints: the user a hash belongs to
  call,         \* what each grant worker is doing
  check,        \* what each status or session worker is doing
  announced,    \* history: coordinators whose notice Slack acknowledged
  posted,       \* history: messages about each coordinator that reached Slack
  now

vars == <<trial, grant, fingerprint, call, check, announced, posted, now>>

Instants == 0..MaxTime

\* `claim` is the worker whose claimAt is stored, `device` None the hash 'unknown';
\* no row while `expires` is None.
NoGrant == [expires |-> None, device |-> None, claim |-> None]
NoCall  == [at |-> "idle", user |-> None, device |-> None, start |-> 0, coordinator |-> None]
NoCheck == [at |-> "idle", user |-> None, round |-> 1, asked |-> 0]

TypeOK ==
  /\ trial \in [Users -> [active : BOOLEAN, ends : Nat \cup {None}]]
  /\ grant \in [Users -> [expires : Nat \cup {None}, device : Devices \cup {None},
                          claim : Grants \cup {None}]]
  /\ fingerprint \in [Devices -> Users \cup {None}]
  /\ call \in [Grants -> [at : {"idle", "read", "restore", "device", "create",
                                "cluster", "claim", "send", "release"},
                          user : Users \cup {None}, device : Devices \cup {None},
                          start : Nat, coordinator : Users \cup {None}]]
  /\ check \in [Checks -> [at : {"idle", "read", "expire", "look", "repair", "session"},
                           user : Users \cup {None}, round : {1, 2}, asked : Nat]]
  /\ announced \in SUBSET Users /\ posted \in [Users -> Nat]
  /\ now \in Nat

Init ==
  /\ trial = [u \in Users |-> [active |-> FALSE, ends |-> None]]
  /\ grant = [u \in Users |-> NoGrant]
  /\ fingerprint = [d \in Devices |-> None]
  /\ call = [w \in Grants |-> NoCall]
  /\ check = [c \in Checks |-> NoCheck]
  /\ announced = {} /\ posted = [u \in Users |-> 0] /\ now = 0

Granted(u) == grant[u].expires # None

\* The trial columns that a grant stands for, as seen at an instant.
FromGrant(u, instant) == [active |-> instant < grant[u].expires, ends |-> grant[u].expires]

-----------------------------------------------------------------------------
(* grantIfEligible                                                         *)

CallGoto(w, to) == call' = [call EXCEPT ![w].at = to]
EndCall(w)      == call' = [call EXCEPT ![w] = NoCall]

GrantBegin(w) ==
  /\ call[w].at = "idle"
  /\ \E u \in Users, d \in Devices \cup {None} :
       call' = [call EXCEPT ![w] = [NoCall EXCEPT !.at = "read", !.user = u,
                                                  !.device = d, !.start = now]]
  /\ UNCHANGED <<trial, grant, fingerprint, check, announced, posted, now>>

\* Read the user's grant and, without one, whether an active subscription
\* is stored, which billing may change at any time.
GrantRead(w) ==
  LET u == call[w].user IN
    /\ call[w].at = "read"
    /\ \/ Granted(u) /\ CallGoto(w, "restore")
       \/ ~Granted(u) /\ EndCall(w)
       \/ ~Granted(u) /\ CallGoto(w, IF call[w].device = None THEN "create" ELSE "device")
    /\ UNCHANGED <<trial, grant, fingerprint, check, announced, posted, now>>

\* Existing grant: copy it to the user row.
GrantRestore(w) ==
  LET u == call[w].user IN
    /\ call[w].at = "restore"
    /\ trial' = [trial EXCEPT ![u] = FromGrant(u, call[w].start)]
    /\ EndCall(w)
    /\ UNCHANGED <<grant, fingerprint, check, announced, posted, now>>

\* A hash that belongs to another user ends the call.
GrantDevice(w) ==
  LET owner == fingerprint[call[w].device] IN
    /\ call[w].at = "device"
    /\ IF owner \in {None, call[w].user} THEN CallGoto(w, "create") ELSE EndCall(w)
    /\ UNCHANGED <<trial, grant, fingerprint, check, announced, posted, now>>

\* Take the fingerprint, insert the grant, update the user row, commit.  A
\* second grant of the user breaks the unique key (GrantFails).
BugGrantAgain(u) == TRUE
MayInsert(u) == ~Granted(u)

NewTrial(w) == [active |-> TRUE, ends |-> call[w].start + Duration]

GrantCreate(w) ==
  LET u == call[w].user IN
    /\ call[w].at = "create" /\ MayInsert(u)
    /\ CallGoto(w, "cluster")
    /\ fingerprint' = [d \in Devices |-> IF d = call[w].device THEN u ELSE fingerprint[d]]
    /\ grant' = [grant EXCEPT ![u] = [expires |-> call[w].start + Duration,
                                      device |-> call[w].device, claim |-> None]]
    /\ trial' = [trial EXCEPT ![u] = NewTrial(w)]
    /\ UNCHANGED <<check, announced, posted, now>>

\* A statement fails, the transaction rolls back, or the process dies; the
\* claim of a notice stays.
GrantFails(w) ==
  /\ call[w].at # "idle"
  /\ EndCall(w)
  /\ UNCHANGED <<trial, grant, fingerprint, check, announced, posted, now>>

-----------------------------------------------------------------------------
(* maybeNotifyTrialStartedSlack                                            *)

Holders == {u \in Users : Granted(u)}
First(S) == CHOOSE u \in S : \A v \in S : u <= v

\* Stop if any user of the cluster has been claimed; else pick the coordinator.
NoticeCluster(w) ==
  /\ call[w].at = "cluster"
  /\ IF \E u \in Holders : grant[u].claim # None
     THEN EndCall(w)
     ELSE call' = [call EXCEPT ![w].at = "claim", ![w].coordinator = First(Holders)]
  /\ UNCHANGED <<trial, grant, fingerprint, check, announced, posted, now>>

\* UPDATE ... WHERE notifiedAt IS NULL
BugClaimAnyway(u) == TRUE
MayClaim(u) == grant[u].claim = None

NoticeClaim(w) ==
  LET u == call[w].coordinator IN
    /\ call[w].at = "claim"
    /\ IF MayClaim(u)
       THEN CallGoto(w, "send") /\ grant' = [grant EXCEPT ![u].claim = w]
       ELSE EndCall(w) /\ UNCHANGED grant
    /\ UNCHANGED <<trial, fingerprint, check, announced, posted, now>>

Reached(u) == posted' = [posted EXCEPT ![u] = @ + 1]

NoticeSent(w) ==
  /\ call[w].at = "send"
  /\ announced' = announced \cup {call[w].coordinator}
  /\ Reached(call[w].coordinator)
  /\ EndCall(w)
  /\ UNCHANGED <<trial, grant, fingerprint, check, now>>

NoticeRefused(w) ==
  /\ call[w].at = "send"
  /\ CallGoto(w, "release")
  /\ UNCHANGED <<trial, grant, fingerprint, check, announced, posted, now>>

\* The message reaches Slack and the answer is lost or says otherwise.
NoticeLost(w) ==
  /\ call[w].at = "send" /\ posted[call[w].coordinator] < MaxLost
  /\ Reached(call[w].coordinator)
  /\ CallGoto(w, "release")
  /\ UNCHANGED <<trial, grant, fingerprint, check, announced, now>>

\* UPDATE ... SET notifiedAt = NULL WHERE notifiedAt = claimAt
NoticeRelease(w) ==
  LET u == call[w].coordinator IN
    /\ call[w].at = "release"
    /\ grant' = [grant EXCEPT ![u].claim = IF @ = w THEN None ELSE @]
    /\ EndCall(w)
    /\ UNCHANGED <<trial, fingerprint, check, announced, posted, now>>

-----------------------------------------------------------------------------
(* expireIfNeeded and status                                               *)

CheckGoto(c, to) == check' = [check EXCEPT ![c].at = to]
EndCheck(c)      == check' = [check EXCEPT ![c] = NoCheck]

\* The first expireIfNeeded is followed by the one inside status.
BugKeepsExpiring(c) == check' = [check EXCEPT ![c].at = "read", ![c].round = @ + 1]
Expired(c) == IF check[c].round = 1
              THEN check' = [check EXCEPT ![c].at = "read", ![c].round = 2]
              ELSE CheckGoto(c, "look")

StatusBegin(c) ==
  /\ check[c].at = "idle"
  /\ \E u \in Users : check' = [check EXCEPT ![c].at = "read", ![c].user = u]
  /\ UNCHANGED <<trial, grant, fingerprint, call, announced, posted, now>>

ExpireRead(c) ==
  LET t == trial[check[c].user] IN
    /\ check[c].at = "read"
    /\ IF t.active /\ t.ends # None /\ t.ends <= now
       THEN CheckGoto(c, "expire")
       ELSE Expired(c)
    /\ UNCHANGED <<trial, grant, fingerprint, call, announced, posted, now>>

\* By the id alone: the row may have changed since it was read.
ExpireWrite(c) ==
  /\ check[c].at = "expire"
  /\ trial' = [trial EXCEPT ![check[c].user].active = FALSE]
  /\ Expired(c)
  /\ UNCHANGED <<grant, fingerprint, call, announced, posted, now>>

\* Read the user row; only without an end date is the grant looked at.
StatusLook(c) ==
  /\ check[c].at = "look"
  /\ IF trial[check[c].user].ends = None
     THEN check' = [check EXCEPT ![c].at = "repair", ![c].asked = now]
     ELSE EndCheck(c)
  /\ UNCHANGED <<trial, grant, fingerprint, call, announced, posted, now>>

\* Read the grant (it never changes) and copy it to the user row.
StatusRepair(c) ==
  LET u == check[c].user IN
    /\ check[c].at = "repair"
    /\ trial' = IF Granted(u) THEN [trial EXCEPT ![u] = FromGrant(u, check[c].asked)]
                ELSE trial
    /\ EndCheck(c)
    /\ UNCHANGED <<grant, fingerprint, call, announced, posted, now>>

\* verifySession reads the user row, looks up the subscription and ends a
\* trial whose end, as it was read (asked), has passed, by the id alone.
\* Without a running trial with an end it writes nothing.
SessionRead(c) ==
  /\ check[c].at = "idle"
  /\ \E u \in Users :
       /\ trial[u].active /\ trial[u].ends # None
       /\ check' = [check EXCEPT ![c].at = "session", ![c].user = u, ![c].asked = trial[u].ends]
  /\ UNCHANGED <<trial, grant, fingerprint, call, announced, posted, now>>

SessionExpire(c) ==
  /\ check[c].at = "session"
  /\ trial' = IF check[c].asked < now THEN [trial EXCEPT ![check[c].user].active = FALSE]
              ELSE trial
  /\ EndCheck(c)
  /\ UNCHANGED <<grant, fingerprint, call, announced, posted, now>>

StatusFails(c) ==
  /\ check[c].at # "idle"
  /\ EndCheck(c)
  /\ UNCHANGED <<trial, grant, fingerprint, call, announced, posted, now>>

-----------------------------------------------------------------------------
(* Stripe, Apple and the clock                                             *)

\* The trial of a subscription is shown on the user row unless one already
\* is: the Stripe webhook and Apple's renewals and links make one UPDATE.
BugMarkAnyway(u) == TRUE
MayMark(u) == ~trial[u].active /\ trial[u].ends = None

ProviderMark(u) ==
  /\ MayMark(u)
  /\ \E e \in Instants : trial' = [trial EXCEPT ![u] = [active |-> TRUE, ends |-> e]]
  /\ UNCHANGED <<grant, fingerprint, call, check, announced, posted, now>>

Tick ==
  /\ now < MaxTime /\ now' = now + 1
  /\ UNCHANGED <<trial, grant, fingerprint, call, check, announced, posted>>

-----------------------------------------------------------------------------
GrantStep(w) ==
  \/ GrantBegin(w) \/ GrantRead(w) \/ GrantRestore(w) \/ GrantDevice(w)
  \/ GrantCreate(w) \/ GrantFails(w) \/ NoticeCluster(w) \/ NoticeClaim(w)
  \/ NoticeSent(w) \/ NoticeRefused(w) \/ NoticeLost(w) \/ NoticeRelease(w)

CheckStep(c) ==
  \/ StatusBegin(c) \/ ExpireRead(c) \/ ExpireWrite(c) \/ StatusLook(c)
  \/ StatusRepair(c) \/ SessionRead(c) \/ SessionExpire(c) \/ StatusFails(c)

Next ==
  \/ \E w \in Grants : GrantStep(w)
  \/ \E c \in Checks : CheckStep(c)
  \/ \E u \in Users : ProviderMark(u)
  \/ Tick

Spec == Init /\ [][Next]_vars

-----------------------------------------------------------------------------
(* Properties                                                              *)

\* The user row shows the end date of the user's grant, although Stripe, Apple,
\* grants and status requests write the same columns concurrently.
TrialFollowsGrant ==
  \A u \in Users : Granted(u) => trial[u].ends = grant[u].expires

\* A device hash that is taken was taken by a trial: its user has a grant, made
\* with that hash, although the calls of two users read the hash unlocked, take it
\* from each other and fail, and calls of one user with and without a hash meet.
FingerprintHasGrant ==
  \A d \in Devices : fingerprint[d] # None =>
    Granted(fingerprint[d]) /\ grant[fingerprint[d]].device = d

\* Whoever is about to send holds the claim of its coordinator, and no notice
\* is sent again once Slack has acknowledged it for that coordinator.
SenderHoldsClaim ==
  \A w \in Grants : call[w].at = "send" =>
    /\ grant[call[w].coordinator].claim = w
    /\ call[w].coordinator \notin announced

\* Of the trials of one coordinator there are no two notices at a time, each
\* message is of a telling of its own, and none follows one that Slack has
\* acknowledged: claim, answer and release of racing callers implement NoticeLog.
StartTelling(u) == \E w \in Grants : call[w].at = "send" /\ call[w].coordinator = u
StartNotice(u) ==
  IF u \in announced THEN "told" ELSE IF StartTelling(u) THEN "taken" ELSE "open"
Log == INSTANCE NoticeLog WITH Keys <- Users, messages <- posted,
                               log <- [u \in Users |-> StartNotice(u)]
StartLogged == Log!Spec

\* trial.service.ts:230 "One Slack message per linked identity cluster".
OneNoticePerCluster == Cardinality(announced) <= 1

\* trial.service.ts:167 "Trial blocked: Device hash already used by another
\* user": one device gives a trial to one user.
OneTrialPerDevice ==
  \A u, v \in Users : u # v /\ grant[u].device # None => grant[u].device # grant[v].device

\* trial.service.ts:348 "Reconcile from source-of-truth trial grant when user
\* fields drift": a status request that ends while nothing else is going on
\* leaves the user row showing a running grant as active.
Alone(c) == (\A w \in Grants : call[w].at = "idle")
              /\ \A d \in Checks \ {c} : check[d].at = "idle"
StatusReconciles ==
  [][\A c \in Checks :
       LET u == check[c].user IN
         check[c].at = "look" /\ check'[c].at = "idle" /\ Alone(c)
             /\ Granted(u) /\ now < grant[u].expires
           => trial'[u].active]_vars
=============================================================================

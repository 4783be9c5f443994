---------------------------- MODULE ApplePurchases ----------------------------
(***************************************************************************)
(* Apple in-app purchases: one purchase (an original transaction id, whose *)
(* renewals are numbered transactions), the row of the ledger that records *)
(* it (apple_iap_purchases) and the subscriptions made from it.            *)
(*   - AppleService: capture, link, bulk link, renewal, refund;            *)
(*   - AuthService.googleSignIn, which turns a purchase of the account or  *)
(*     of its e-mail address into a subscription when it finds none;       *)
(*   - the deletion of accounts, with the cascades of the schema.          *)
(* A step ends at an await; of a transaction, the reads that are taken     *)
(* before its first row lock are a step of their own.  Left out are plan,  *)
(* price and renewal preference columns, the trial columns and grants      *)
(* (Trials) and the mappings of linked accounts (AccountLinks).            *)
(***************************************************************************)
EXTENDS Integers

CONSTANTS
  Users,     \* accounts
  EmailOf,   \* their e-mail addresses
  Workers,   \* concurrent requests and notifications
  RowIds,    \* bound: ids of subscriptions made from the purchase
  MaxTerm,   \* bound: transactions of the purchase
  MaxLost,   \* bound of PaidConversion: lost answers of Slack
  None       \* no value

ASSUME AppleConstants ==
  /\ MaxTerm \in Nat /\ MaxLost \in Nat /\ None \notin Users /\ None \notin RowIds
  /\ None # "purchase" /\ \A u \in Users : EmailOf[u] # None

VARIABLES
  account,   \* users table
  term,      \* Apple: the latest transaction of the purchase
  now,       \* the clock: transaction k runs out at time k
  ledger,    \* the purchase's row of apple_iap_purchases
  row,       \* subscriptions made from the purchase
  owners,    \* their OWNER mappings, <<row, account>>
  call,      \* what each worker is doing
  linked,    \* history: accounts the purchase was ever linked to
  overtaken, \* history: workers that read the purchase before its last link
  overrun,   \* history: a sign-in wrote back a row that was linked away from it
  claimed, notice, told, posted    \* PaidConversion

tables     == <<account, ledger, row, owners>>
history    == <<linked, overtaken, overrun>>
noticeVars == <<claimed, notice, told, posted>>
vars == <<account, term, now, ledger, row, owners, call, linked, overtaken,
          overrun, claimed, notice, told, posted>>

Key == "purchase"
Conversion == INSTANCE PaidConversion WITH Keys <- {Key}

Terms  == 0..MaxTerm
Emails == {EmailOf[u] : u \in Users}
Rows   == [user : Users, txn : Terms, status : {"ACTIVE", "INACTIVE", "CANCELLED"}, ends : Terms]
Ledger == [txn : Terms, ends : Terms, user : Users \cup {None}, email : Emails \cup {None}]
NoCall == [at |-> "idle", user |-> None, txn |-> 0, ends |-> 0, seen |-> 0,
           row |-> None, status |-> "INACTIVE"]

ASSUME NoneIsNoRecord == None \notin Rows /\ None \notin Ledger

TypeOK ==
  /\ account \in [Users -> {"new", "live", "gone"}]
  /\ term \in Terms /\ now \in Terms
  /\ ledger \in Ledger \cup {None}
  /\ row \in [RowIds -> Rows \cup {None}]
  /\ owners \in SUBSET (RowIds \X Users)
  /\ call \in [Workers -> [at : {"idle", "read", "commit", "bulk", "receipt", "update",
                                 "insert", "refund", "seek", "match", "renew", "create",
                                 "own", "notice"},
                           user : Users \cup {None}, txn : Terms, ends : Terms,
                           seen : Terms, row : RowIds \cup {None},
                           status : {"ACTIVE", "INACTIVE"}]]
  /\ linked \in SUBSET Users /\ overtaken \in SUBSET Workers /\ overrun \in BOOLEAN
  /\ Conversion!NoticeTypeOK

Init ==
  /\ account = [u \in Users |-> "new"]
  /\ term = 0 /\ now = 0
  /\ ledger = None
  /\ row = [r \in RowIds |-> None] /\ owners = {}
  /\ call = [w \in Workers |-> NoCall]
  /\ linked = {} /\ overtaken = {} /\ overrun = FALSE
  /\ Conversion!NoticeInit

-----------------------------------------------------------------------------
(* The world around: accounts, Apple and the clock                         *)

\* users.email is unique.
Register(u) ==
  /\ account[u] = "new"
  /\ \A v \in Users : account[v] = "live" => EmailOf[v] # EmailOf[u]
  /\ account' = [account EXCEPT ![u] = "live"]
  /\ UNCHANGED <<term, now, ledger, row, owners, call, history, noticeVars>>

\* The cascades: subscriptions and mappings of the account go, the purchase
\* loses its user and keeps the e-mail address.
DeleteAccount(u) ==
  /\ account[u] = "live"
  /\ account' = [account EXCEPT ![u] = "gone"]
  /\ ledger' = IF ledger # None /\ ledger.user = u THEN [ledger EXCEPT !.user = None] ELSE ledger
  /\ row' = [r \in RowIds |-> IF row[r] # None /\ row[r].user = u THEN None ELSE row[r]]
  /\ owners' = {o \in owners : o[2] # u /\ row'[o[1]] # None}
  /\ UNCHANGED <<term, now, call, history, noticeVars>>

\* The purchase is made, or renewed for the period that begins.
Renew ==
  /\ term = now /\ term < MaxTerm
  /\ term' = term + 1
  /\ UNCHANGED <<now, tables, call, history, noticeVars>>

Tick ==
  /\ now < MaxTerm
  /\ now' = now + 1
  /\ UNCHANGED <<term, tables, call, history, noticeVars>>

-----------------------------------------------------------------------------
(* Requests                                                                *)

Free(w) == call[w].at = "idle" /\ notice[w].at = "idle"
Begin(w, at, u, txn, ends, status) ==
  call' = [call EXCEPT ![w] = [NoCall EXCEPT !.at = at, !.user = u, !.txn = txn,
                                             !.ends = ends, !.status = status]]
Answer(w, status) == call' = [call EXCEPT ![w] = [NoCall EXCEPT !.at = "notice", !.status = status]]
End(w) == call' = [call EXCEPT ![w] = NoCall]

\* getExpectedSubscriptionStatus
BugRawStatus(ends) == IF ends > now THEN "ACTIVE" ELSE "EXPIRED"
Expected(ends) == IF ends > now THEN "ACTIVE" ELSE "INACTIVE"

\* capturePurchase, for the transaction the app sends: verified or not, a
\* matching one is recorded; who it is linked to stays.
Capture(k) ==
  /\ k \in 1..term
  /\ ledger' = IF ledger = None
               THEN [txn |-> k, ends |-> k, user |-> None, email |-> None]
               ELSE [ledger EXCEPT !.txn = k, !.ends = k]
  /\ UNCHANGED <<account, term, now, row, owners, call, history, noticeVars>>

\* Only an unlinked purchase, or one's own, can be linked.
BugAnyoneMay(u) == TRUE
MayLink(u) == ledger = None \/ ledger.user \in {None, u}

\* The receipt of transaction k: Apple's answer must name the transaction that
\* was sent, and then tells when it runs out; there may be no answer.
VerifiedEnds(k) == {0} \cup {e \in {k} : k = term}

\* linkPurchase: without an answer the link goes on.
LinkBegin(w, u, k) ==
  /\ Free(w) /\ account[u] = "live" /\ k \in 1..term
  /\ \E ends \in VerifiedEnds(k) : Begin(w, "read", u, k, ends, "INACTIVE")
  /\ UNCHANGED <<term, now, tables, history, noticeVars>>

\* The transaction reads the account and the purchase.
LinkRead(w) ==
  /\ call[w].at = "read"
  /\ IF account[call[w].user] = "live" /\ MayLink(call[w].user)
     THEN IF ledger = None
          THEN call' = [call EXCEPT ![w].at = "commit"]
          ELSE call' = [call EXCEPT ![w].at = "commit", ![w].seen = ledger.txn,
                                    ![w].ends = IF @ = 0 THEN ledger.ends ELSE @]
     ELSE End(w)
  /\ overtaken' = overtaken \ {w}
  /\ UNCHANGED <<term, now, tables, linked, overrun, noticeVars>>

\* The purchase is written by the transaction id that was read.
StillThere(w) ==
  IF call[w].seen = 0 THEN ledger = None ELSE ledger # None /\ ledger.txn = call[w].seen

\* The subscription of the purchase: any that there is, else a new one.
Existing   == {r \in RowIds : row[r] # None}
Candidates == IF Existing # {} THEN Existing ELSE RowIds

\* An account that owns the subscription already violates the unique key of its
\* mapping.  The error is caught, but the transaction is aborted: nothing that
\* it wrote is stored.
BugKeepsLedger(w, r) == TRUE
Aborted(w, r) == <<r, call[w].user>> \in owners
LedgerStored(w, r) == ~Aborted(w, r)

\* A transaction is named by one subscription at most (apple_transaction_id).
Taken(r, k) == \E q \in Existing \ {r} : row[q].txn = k

\* The row of u for the transaction of the call; without an end date the stored
\* one stays.
Paid(w, r, u, status) ==
  [user |-> u, txn |-> call[w].txn, status |-> status,
   ends |-> IF call[w].ends = 0 /\ row[r] # None THEN row[r].ends ELSE call[w].ends]

\* The transaction of a link ends: the purchase becomes x, and its subscription
\* r the account's, with this status.
StoreLink(w, r, x, status) ==
  LET u == call[w].user IN
    /\ IF LedgerStored(w, r)
       THEN /\ ledger' = x
            /\ linked' = linked \cup {u}
            /\ overtaken' = {v \in Workers \ {w} : call[v].at \in {"commit", "bulk"}}
            /\ overrun' = FALSE
       ELSE UNCHANGED <<ledger, history>>
    /\ IF Aborted(w, r)
       THEN UNCHANGED <<row, owners>>
       ELSE /\ row' = [row EXCEPT ![r] = Paid(w, r, u, status)]
            /\ owners' = owners \cup {<<r, u>>}
    /\ ~Taken(r, call[w].txn)
    /\ Answer(w, status)
    /\ UNCHANGED <<account, term, now, noticeVars>>

\* The user is gone, the purchase no longer where it was read, or the transaction
\* that of another subscription.
LinkFails(w) ==
  /\ \/ call[w].at = "commit" /\ (account[call[w].user] # "live" \/ ~StillThere(w))
     \/ call[w].at = "bulk" /\ account[call[w].user] # "live"
     \/ /\ call[w].at \in {"commit", "bulk"}
        /\ \E r \in Candidates : Taken(r, call[w].txn)
  /\ End(w)
  /\ UNCHANGED <<term, now, tables, history, noticeVars>>

LinkCommit(w) ==
  /\ call[w].at = "commit" /\ account[call[w].user] = "live" /\ StillThere(w)
  /\ \E r \in Candidates :
       StoreLink(w, r, [txn |-> call[w].txn, ends |-> call[w].ends, user |-> call[w].user,
                        email |-> EmailOf[call[w].user]],
                 Expected(call[w].ends))

\* linkWithTransactionIds: the purchase is read before the transaction.
BulkBegin(w, u) ==
  /\ Free(w) /\ account[u] = "live"
  /\ ledger # None /\ MayLink(u)
  /\ Begin(w, "bulk", u, ledger.txn, ledger.ends, Expected(ledger.ends))
  /\ overtaken' = overtaken \ {w}
  /\ UNCHANGED <<term, now, tables, linked, overrun, noticeVars>>

BulkCommit(w) ==
  /\ call[w].at = "bulk" /\ account[call[w].user] = "live"
  /\ \E r \in Candidates :
       StoreLink(w, r, [ledger EXCEPT !.user = call[w].user, !.email = EmailOf[call[w].user]],
                 call[w].status)

-----------------------------------------------------------------------------
(* Notifications of Apple, late, repeated and in any order                 *)

\* DID_RENEW of transaction k, for the account of the purchase
ReceiptBegin(w, k) ==
  /\ Free(w) /\ k \in 1..term
  /\ ledger # None /\ ledger.user # None
  /\ Begin(w, "receipt", ledger.user, k, k, Expected(k))
  /\ UNCHANGED <<term, now, tables, history, noticeVars>>

At(w, at, r) == call' = [call EXCEPT ![w].at = at, ![w].row = r]

\* The transaction reads the subscription, without a lock.
ReceiptFind(w) ==
  /\ call[w].at = "receipt"
  /\ IF Existing = {} THEN At(w, "insert", None) ELSE \E r \in Existing : At(w, "update", r)
  /\ UNCHANGED <<term, now, tables, history, noticeVars>>

\* Update it by its id, whoever has it by now, or create it for the account
\* that was read.
ReceiptUpdate(w) ==
  LET r == call[w].row IN
    /\ call[w].at = "update" /\ row[r] # None /\ ~Taken(r, call[w].txn)
    /\ row' = [row EXCEPT ![r] = Paid(w, r, @.user, call[w].status)]
    /\ Answer(w, call[w].status)
    /\ UNCHANGED <<account, term, now, ledger, owners, history, noticeVars>>

ReceiptInsert(w) ==
  /\ call[w].at = "insert" /\ account[call[w].user] = "live"
  /\ \E r \in RowIds \ Existing :
       /\ ~Taken(r, call[w].txn)
       /\ row' = [row EXCEPT ![r] = Paid(w, r, call[w].user, call[w].status)]
       /\ owners' = owners \cup {<<r, call[w].user>>}
  /\ Answer(w, call[w].status)
  /\ UNCHANGED <<account, term, now, ledger, history, noticeVars>>

\* A write that the database refuses: the row or the account is gone, or the
\* transaction that of another subscription.
Refused(w, r) == account[call[w].user] # "live" \/ Taken(r, call[w].txn)

ReceiptFails(w) ==
  /\ \/ call[w].at = "update" /\ (row[call[w].row] = None \/ Taken(call[w].row, call[w].txn))
     \/ call[w].at = "insert" /\ Refused(w, None)
  /\ End(w)
  /\ UNCHANGED <<term, now, tables, history, noticeVars>>

RefundFind(w) ==
  /\ Free(w)
  /\ \E r \in Existing :
       call' = [call EXCEPT ![w] = [NoCall EXCEPT !.at = "refund", !.row = r]]
  /\ UNCHANGED <<term, now, tables, history, noticeVars>>

RefundWrite(w) ==
  /\ call[w].at = "refund"
  /\ row' = IF row[call[w].row] = None THEN row
            ELSE [row EXCEPT ![call[w].row].status = "CANCELLED"]
  /\ End(w)
  /\ UNCHANGED <<account, term, now, ledger, owners, history, noticeVars>>

-----------------------------------------------------------------------------
(* AuthService.googleSignIn                                                *)

Running(x) == x.status = "ACTIVE" /\ x.ends > now

\* No subscription of the account, and none shared with it that is active.
NoSubscription(u) ==
  \A r \in Existing : row[r].user # u /\ (<<r, u>> \in owners => ~Running(row[r]))

SignInLook(w, u) ==
  /\ Free(w) /\ account[u] = "live" /\ NoSubscription(u)
  /\ Begin(w, "seek", u, 0, 0, "INACTIVE")
  /\ UNCHANGED <<term, now, tables, history, noticeVars>>

\* A running purchase of the account, or of its e-mail address.
BugAnyPurchase(u) == ledger # None
OfAccount(u) == ledger # None /\ (ledger.user = u \/ ledger.email = EmailOf[u])

SignInSeek(w) ==
  /\ call[w].at = "seek"
  /\ IF OfAccount(call[w].user) /\ ledger.ends > now
     THEN call' = [call EXCEPT ![w].at = "match", ![w].txn = ledger.txn, ![w].ends = ledger.ends]
     ELSE End(w)
  /\ UNCHANGED <<term, now, tables, history, noticeVars>>

\* A subscription of the account made from the purchase.
SignInMatch(w) ==
  /\ call[w].at = "match"
  /\ LET mine == {r \in Existing : row[r].user = call[w].user} IN
       IF mine = {} THEN At(w, "create", None) ELSE \E r \in mine : At(w, "renew", r)
  /\ UNCHANGED <<term, now, tables, history, noticeVars>>

\* It is written by its id, with the account that it had when it was read.
SignInRenew(w) ==
  LET r == call[w].row
      u == call[w].user IN
    /\ call[w].at = "renew" /\ row[r] # None /\ ~Refused(w, r)
    /\ row' = [row EXCEPT ![r] = Paid(w, r, u, "ACTIVE")]
    /\ overrun' = (overrun \/ row[r].user # u)
    /\ End(w)
    /\ UNCHANGED <<account, term, now, ledger, owners, linked, overtaken, noticeVars>>

SignInCreate(w) ==
  /\ call[w].at = "create"
  /\ \E r \in RowIds \ Existing :
       /\ ~Refused(w, r)
       /\ row' = [row EXCEPT ![r] = Paid(w, r, call[w].user, "ACTIVE")]
       /\ At(w, "own", r)
  /\ UNCHANGED <<account, term, now, ledger, owners, history, noticeVars>>

SignInFails(w) ==
  /\ \/ call[w].at = "renew" /\ (row[call[w].row] = None \/ Refused(w, call[w].row))
     \/ call[w].at = "create" /\ Refused(w, None)
  /\ End(w)
  /\ UNCHANGED <<term, now, tables, history, noticeVars>>

\* A second statement; the row, or the account, may be gone.
SignInOwn(w) ==
  /\ call[w].at = "own"
  /\ LET o == <<call[w].row, call[w].user>> IN
       owners' = IF row[o[1]] # None /\ account[o[2]] = "live" THEN owners \cup {o} ELSE owners
  /\ End(w)
  /\ UNCHANGED <<account, term, now, ledger, row, history, noticeVars>>

-----------------------------------------------------------------------------
(* Paid conversion notices                                                 *)

\* Of an active subscription, unless the receipt is one of a trial.
NotifyPaid(w) ==
  /\ call[w].at = "notice"
  /\ \/ call[w].status = "ACTIVE" /\ Conversion!Acquire(w, Key, "check")
     \/ UNCHANGED noticeVars
  /\ End(w)
  /\ UNCHANGED <<term, now, tables, history>>

Notice(w) ==
  /\ Conversion!NoticeStep(w)
  /\ UNCHANGED <<term, now, tables, call, history>>

\* The process dies, or a statement fails.
Dies(w) ==
  /\ ~Free(w)
  /\ End(w)
  /\ IF notice[w].at = "idle" THEN UNCHANGED noticeVars ELSE Conversion!NoticeDies(w)
  /\ UNCHANGED <<term, now, tables, history>>

-----------------------------------------------------------------------------
Next ==
  \/ Renew \/ Tick
  \/ \E u \in Users : Register(u) \/ DeleteAccount(u)
  \/ \E k \in Terms : Capture(k)
  \/ \E w \in Workers :
       \/ \E u \in Users : \/ \E k \in Terms : LinkBegin(w, u, k)
                           \/ BulkBegin(w, u) \/ SignInLook(w, u)
       \/ \E k \in Terms : ReceiptBegin(w, k)
       \/ LinkRead(w) \/ LinkCommit(w) \/ LinkFails(w) \/ BulkCommit(w)
       \/ ReceiptFind(w) \/ ReceiptUpdate(w) \/ ReceiptInsert(w) \/ ReceiptFails(w)
       \/ RefundFind(w) \/ RefundWrite(w)
       \/ SignInSeek(w) \/ SignInMatch(w) \/ SignInRenew(w) \/ SignInCreate(w)
       \/ SignInFails(w) \/ SignInOwn(w)
       \/ NotifyPaid(w) \/ Notice(w) \/ Dies(w)

Spec == Init /\ [][Next]_vars

-----------------------------------------------------------------------------
(* Properties                                                              *)

\* The account a purchase is linked to has the subscription: whatever links,
\* renewals, sign-ins, deletions and aborted transactions interleave, a row of
\* the purchase is the account's and carries its OWNER mapping.  The exception:
\* a sign-in that found the row before it was linked away writes its own account
\* back into it, and until the next link the purchase and the row disagree.
LinkedHasSubscription ==
  ledger # None /\ ledger.user # None =>
    \/ overrun
    \/ \E r \in RowIds : /\ row[r] # None /\ row[r].user = ledger.user
                         /\ <<r, ledger.user>> \in owners

\* Access to what a purchase pays for is only ever had by accounts it was
\* linked to, or by accounts that come back with the e-mail address of one.
AccessComesFromLink ==
  \A r \in RowIds, u \in Users :
    <<r, u>> \in owners => \E v \in linked : EmailOf[v] = EmailOf[u]

\* A purchase moves from one account to another only through a request that
\* had read it before it was linked to the first: who comes later is refused.
OnlyOvertakenTake ==
  [][ledger # None /\ ledger.user # None /\ ledger'.user \notin {ledger.user, None}
       => \E w \in overtaken : call[w].at \in {"commit", "bulk"} /\ call'[w].at = "notice"]_vars

\* Apple's side of the notices: of a purchase there are no two tellings at a
\* time, and none after the one that Slack has acknowledged.
ConversionLogged == Conversion!ImplementsLog

\* apple.service.ts:981 "Each purchase can only be linked to one account": no
\* two accounts own what the purchase pays for.
OneAccountPerPurchase ==
  \A p, q \in owners : p[2] = q[2]
=============================================================================

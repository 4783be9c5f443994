----------------------------- MODULE AccountLinks -----------------------------
(***************************************************************************)
(* Linked accounts and the access they share.  An account is of Google or  *)
(* of Apple; linkProvider stores a link between two accounts and gives one *)
(* the other's active subscription, as a LINKED row of subscription_users; *)
(* unlinkProvider deletes both; whoever records a payment (the Stripe      *)
(* webhook, AppleService) writes an OWNER row and LINKED rows for the      *)
(* accounts then linked.  Linking an Apple purchase moves its subscription *)
(* to another account and leaves the rows that there are.  None of it runs *)
(* in a transaction but the move: every other step here ends at an await.  *)
(* How accounts are found and made is in SignIns.                          *)
(***************************************************************************)
EXTENDS Integers, FiniteSets

CONSTANTS
  Users,        \* accounts
  Subs,         \* ids of subscriptions; an id is used once
  Purchases,    \* those of an Apple purchase
  Workers,      \* concurrent requests and webhook deliveries
  MaxRequests,  \* bound: calls
  None          \* no account, no subscription

ASSUME LinkConstants ==
  None \notin Users \cup Subs /\ Purchases \subseteq Subs /\ MaxRequests \in Nat

VARIABLES
  live,      \* accounts that exist
  provider,  \* users.provider
  appleId,   \* accounts with an appleUserId
  links,     \* linked_accounts: <<primary, linked>>
  owner,     \* subscriptions.userId, or None: not stored
  active,    \* the subscriptions that give access
  owning,    \* OWNER rows of subscription_users: <<subscription, user>>
  shared,    \* LINKED rows of subscription_users
  call,      \* what each worker is doing
  begun,     \* calls so far
  had,       \* history: the accounts that a subscription was ever of
  circle,    \* history: accounts connected by links, past or present
  stray      \* history: rows of `shared` that an unlink cannot be expected to take

accounts == <<live, provider, appleId>>
subs     == <<owner, active, owning, had>>
history  == <<circle, stray>>
vars == <<live, provider, appleId, links, owner, active, owning, shared, call, begun, had,
          circle, stray>>

Providers == {"google", "apple"}
\* The subscription of a call and the account that is to share it; the accounts
\* that are left to share with, the subscriptions whose rows are to go.
NoCall == [at |-> "idle", user |-> None, other |-> None, target |-> "google",
           sub |-> None, to |-> None, todo |-> {}, drop |-> {}]

Calls == [at : {"idle", "seek", "keep", "change", "identify", "mine", "theirs", "store", "share",
                "unlink", "owned", "drop", "owner", "links", "grant"},
          user : Users \cup {None}, other : Users \cup {None}, target : Providers,
          sub : Subs \cup {None}, to : Users \cup {None},
          todo : SUBSET Users, drop : SUBSET Subs]

TypeOK ==
  /\ live \in SUBSET Users
  /\ provider \in [Users -> Providers] /\ appleId \in SUBSET Users
  /\ links \in SUBSET (Users \X Users)
  /\ owner \in [Subs -> Users \cup {None}] /\ active \in SUBSET Subs
  /\ owning \in SUBSET (Subs \X Users) /\ shared \in SUBSET (Subs \X Users)
  /\ owning \cap shared = {}
  /\ call \in [Workers -> Calls] /\ begun \in Nat
  /\ had \in SUBSET (Subs \X Users)
  /\ circle \in SUBSET (Users \X Users) /\ stray \in SUBSET (Subs \X Users)

\* Accounts of either provider, not linked yet.
Init ==
  /\ live = Users
  /\ provider \in [Users -> Providers] /\ appleId = {u \in Users : provider[u] = "apple"}
  /\ links = {} /\ owning = {} /\ shared = {}
  /\ owner = [r \in Subs |-> None] /\ active = {} /\ had = {}
  /\ call = [w \in Workers |-> NoCall] /\ begun = 0
  /\ circle = {<<u, u>> : u \in Users} /\ stray = {}

-----------------------------------------------------------------------------
Linked(u, v)  == <<u, v>> \in links \/ <<v, u>> \in links
BugAnyLinked(u) == {l[1] : l \in links} \cup {l[2] : l \in links}
LinkedWith(u) == {v \in Users : Linked(u, v)}
Has(u, p)     == provider[u] = p \/ (p = "apple" /\ u \in appleId)
Identified(u, p) == provider[u] = p /\ (p = "apple" => u \in appleId)

Starts(w, c) ==
  /\ call[w].at = "idle" /\ begun < MaxRequests /\ begun' = begun + 1
  /\ call' = [call EXCEPT ![w] = c]
Goto(w, to) == call' = [call EXCEPT ![w].at = to]
End(w)      == call' = [call EXCEPT ![w] = NoCall]

\* subscription_users: one row for a subscription and a user, of either role.
Rows == owning \cup shared
Storable(r, x) == owner[r] # None /\ x \in live /\ <<r, x>> \notin Rows

\* A LINKED row for user x of subscription r; it is stray when its account and x
\* are not linked, or not any more.
Grant(r, x) ==
  /\ shared' = shared \cup {<<r, x>>}
  /\ stray'  = IF Linked(owner[r], x) THEN stray ELSE stray \cup {<<r, x>>}
  /\ UNCHANGED circle

-----------------------------------------------------------------------------
(* linkProvider                                                            *)

\* Not one's own provider, and not one that a linked account has.
MayLink(u, p) == provider[u] # p /\ \A v \in LinkedWith(u) : ~Has(v, p)

LinkBegin(w, u, p) ==
  /\ u \in live /\ MayLink(u, p)
  /\ Starts(w, [NoCall EXCEPT !.at = "seek", !.user = u, !.target = p])
  /\ UNCHANGED <<accounts, links, subs, shared, history>>

\* The account of the token, as it is read.  It is to stay as it is if it is
\* identified already, or if the token for "apple" holds no Apple identity.
LinkSeek(w, v) ==
  /\ call[w].at = "seek" /\ v \in live /\ v # call[w].user
  /\ \/ /\ Identified(v, call[w].target) \/ call[w].target = "apple"
        /\ call' = [call EXCEPT ![w].at = "keep", ![w].other = v]
     \/ /\ ~Identified(v, call[w].target)
        /\ call' = [call EXCEPT ![w].at = "change", ![w].other = v]
  /\ UNCHANGED <<begun, accounts, links, subs, shared, history>>

\* On to the subscriptions; the provider is not needed any more.
GoShare(w) == call' = [call EXCEPT ![w].at = "mine", ![w].target = "google"]

\* It must not be linked.
LinkLook(w) ==
  /\ call[w].at \in {"keep", "change"}
  /\ IF LinkedWith(call[w].other) # {} THEN End(w)
     ELSE IF call[w].at = "change" THEN Goto(w, "identify") ELSE GoShare(w)
  /\ UNCHANGED <<begun, accounts, links, subs, shared, history>>

\* It becomes one of the provider.
BugRawProvider(w) == "apple.com"
NewProvider(w) == call[w].target

LinkIdentify(w) ==
  LET v == call[w].other IN
    /\ call[w].at = "identify"
    /\ IF v \in live
       THEN /\ provider' = [provider EXCEPT ![v] = NewProvider(w)]
            /\ appleId' = IF call[w].target = "apple" THEN appleId \cup {v} ELSE appleId
            /\ GoShare(w)
       ELSE End(w) /\ UNCHANGED <<provider, appleId>>
    /\ UNCHANGED <<begun, live, links, subs, shared, history>>

\* getActiveSubscriptionForUser: one's own, else one that a row of either role maps.
Active(u) ==
  LET own    == {r \in active : owner[r] = u}
      mapped == {r \in active : <<r, u>> \in Rows}
  IN  IF own # {} THEN own ELSE IF mapped # {} THEN mapped ELSE {None}

\* Who gets the subscription: the second account if it is the first one's, else
\* the first.
Receiver(w, r) == IF owner[r] = call[w].user THEN call[w].other ELSE call[w].user

LinkMine(w) ==
  /\ call[w].at = "mine"
  /\ \E r \in Active(call[w].user) :
       IF r = None THEN Goto(w, "theirs")
       ELSE call' = [call EXCEPT ![w].at = "theirs", ![w].sub = r, ![w].to = Receiver(w, r)]
  /\ UNCHANGED <<begun, accounts, links, subs, shared, history>>

LinkTheirs(w) ==
  /\ call[w].at = "theirs"
  /\ \E r \in Active(call[w].other) :
       IF r = None THEN Goto(w, "store")
       ELSE IF call[w].sub # None THEN End(w)
       ELSE call' = [call EXCEPT ![w].at = "store", ![w].sub = r, ![w].to = Receiver(w, r)]
  /\ UNCHANGED <<begun, accounts, links, subs, shared, history>>

\* The accounts of u's circle and of v's become one circle.
Joined(u, v) ==
  circle \cup {p \in Users \X Users : \/ <<p[1], u>> \in circle /\ <<v, p[2]>> \in circle
                                      \/ <<p[1], v>> \in circle /\ <<u, p[2]>> \in circle}

\* A link that is there already is taken for this one.
LinkStore(w) ==
  LET u == call[w].user
      v == call[w].other
  IN /\ call[w].at = "store"
     /\ IF u \in live /\ v \in live
        THEN /\ links' = links \cup {<<u, v>>} /\ circle' = Joined(u, v)
             /\ IF call[w].sub = None THEN End(w) ELSE Goto(w, "share")
        ELSE End(w) /\ UNCHANGED <<links, circle>>
     /\ UNCHANGED <<begun, accounts, subs, shared, stray>>

LinkShare(w) ==
  /\ call[w].at = "share"
  /\ IF Storable(call[w].sub, call[w].to)
     THEN Grant(call[w].sub, call[w].to) ELSE UNCHANGED <<shared, history>>
  /\ End(w)
  /\ UNCHANGED <<begun, accounts, links, subs>>

-----------------------------------------------------------------------------
(* unlinkProvider                                                          *)

\* Of a linked account with the provider, one link is chosen.
MayUnlink(u, v, p) == provider[u] # p /\ v \in LinkedWith(u) /\ Has(v, p)

UnlinkBegin(w, u, v, p) ==
  /\ u \in live /\ MayUnlink(u, v, p)
  /\ \E l \in links \cap {<<u, v>>, <<v, u>>} :
       Starts(w, [NoCall EXCEPT !.at = "unlink", !.user = l[1], !.other = l[2]])
  /\ UNCHANGED <<accounts, links, subs, shared, history>>

Pair(w) == {call[w].user, call[w].other}

UnlinkDelete(w) ==
  LET l == <<call[w].user, call[w].other>> IN
    /\ call[w].at = "unlink"
    /\ IF l \in links THEN links' = links \ {l} /\ Goto(w, "owned")
                      ELSE End(w) /\ UNCHANGED links
    /\ UNCHANGED <<begun, accounts, subs, shared, history>>

\* The subscriptions of the two.
BugCallersOnly(w) == {r \in Subs : owner[r] = call[w].user}
OwnedSubs(w) == {r \in Subs : owner[r] \in Pair(w)}

UnlinkRead(w) ==
  /\ call[w].at = "owned"
  /\ IF OwnedSubs(w) = {} THEN End(w)
     ELSE call' = [call EXCEPT ![w].at = "drop", ![w].drop = OwnedSubs(w)]
  /\ UNCHANGED <<begun, accounts, links, subs, shared, history>>

UnlinkDrop(w) ==
  /\ call[w].at = "drop"
  /\ shared' = shared \ (call[w].drop \X Pair(w))
  /\ stray' = stray \cap shared'
  /\ End(w)
  /\ UNCHANGED <<begun, accounts, links, subs, circle>>

-----------------------------------------------------------------------------
(* Payments and deletions                                                  *)

\* The subscription is u's from now on, whatever its status.  What accounts not
\* linked with u had of it already, they keep.
BecomesOf(r, u) ==
  /\ owner' = [owner EXCEPT ![r] = u] /\ active' \in {active \cup {r}, active \ {r}}
  /\ had' = had \cup {<<r, u>>}
  /\ stray' = IF owner[r] = u THEN stray
              ELSE stray \cup {s \in shared : s[1] = r /\ ~Linked(u, s[2])}

\* A payment, or the repetition of its event: the subscription is stored, then its
\* OWNER row, then the links of its account are read.  (A sign-in or a renewal that
\* records one ends before, and leaves what a call that dies there leaves.)
Pay(w, u, r) ==
  /\ u \in live /\ (owner[r] = u \/ \A v \in Users : <<r, v>> \notin had)
  /\ BecomesOf(r, u)
  /\ Starts(w, [NoCall EXCEPT !.at = "owner", !.user = u, !.sub = r])
  /\ UNCHANGED <<accounts, links, owning, shared, circle>>

PayOwner(w) ==
  LET row == <<call[w].sub, call[w].user>> IN
    /\ call[w].at = "owner"
    /\ owning' = IF Storable(row[1], row[2]) THEN owning \cup {row} ELSE owning
    /\ IF row \in owning' \cup shared THEN Goto(w, "links") ELSE End(w)
    /\ UNCHANGED <<begun, accounts, links, owner, active, had, shared, history>>

\* linkPurchase or linkWithTransactionIds for a purchase that has a subscription.
\* Its transaction moves it and stores the OWNER row; a row that u has already
\* aborts it, unnoticed: nothing is stored and the call goes on.
LinkPurchase(w, u, r) ==
  /\ u \in live /\ r \in Purchases /\ owner[r] # None
  /\ IF <<r, u>> \in Rows THEN UNCHANGED <<subs, stray>>
     ELSE BecomesOf(r, u) /\ owning' = owning \cup {<<r, u>>}
  /\ Starts(w, [NoCall EXCEPT !.at = "links", !.user = u, !.sub = r])
  /\ UNCHANGED <<accounts, links, shared, circle>>

\* googleSignIn writes back the account that the subscription was of when it read it.
Restore(u, r) ==
  /\ r \in Purchases /\ <<r, u>> \in had /\ owner[r] \notin {u, None} /\ u \in live
  /\ BecomesOf(r, u)
  /\ UNCHANGED <<begun, accounts, links, owning, shared, call, circle>>

PayLinks(w) ==
  /\ call[w].at = "links"
  /\ IF LinkedWith(call[w].user) = {} THEN End(w)
     ELSE call' = [call EXCEPT ![w].at = "grant", ![w].todo = LinkedWith(call[w].user)]
  /\ UNCHANGED <<begun, accounts, links, subs, shared, history>>

\* One LINKED row after the other; one that is there is passed over, and what
\* a deletion makes impossible ends the call.
PayGrant(w, x) ==
  LET r == call[w].sub IN
    /\ call[w].at = "grant" /\ x \in call[w].todo
    /\ IF Storable(r, x) THEN Grant(r, x) ELSE UNCHANGED <<shared, history>>
    /\ IF call[w].todo = {x} \/ owner[r] = None \/ x \notin live THEN End(w)
       ELSE call' = [call EXCEPT ![w].todo = @ \ {x}]
    /\ UNCHANGED <<begun, accounts, links, subs>>

Lapse(r) ==
  /\ r \in active /\ active' = active \ {r}
  /\ UNCHANGED <<begun, accounts, links, owner, owning, had, shared, call, history>>

\* deleteAccount, with the cascades of the schema
DeleteAccount(u) ==
  LET stays(s) == s[2] # u /\ owner[s[1]] # u IN
    /\ u \in live
    /\ live' = live \ {u}
    /\ owner' = [r \in Subs |-> IF owner[r] = u THEN None ELSE owner[r]]
    /\ active' = {r \in active : owner[r] # u}
    /\ links' = {l \in links : u \notin {l[1], l[2]}}
    /\ owning' = {s \in owning : stays(s)} /\ shared' = {s \in shared : stays(s)}
    /\ stray' = stray \cap shared'
    /\ UNCHANGED <<begun, provider, appleId, call, had, circle>>

\* The process dies, or a statement fails.  What an unlink that got as far as
\* the link leaves behind is stray.
Dies(w) ==
  /\ call[w].at # "idle"
  /\ stray' = IF call[w].at \in {"owned", "drop"}
              THEN stray \cup {s \in shared : {owner[s[1]], s[2]} \subseteq Pair(w)} ELSE stray
  /\ End(w)
  /\ UNCHANGED <<begun, accounts, links, subs, shared, circle>>

-----------------------------------------------------------------------------
Next ==
  \/ \E r \in Subs : Lapse(r)
  \/ \E u \in Users : DeleteAccount(u)
  \/ \E u \in Users, r \in Subs : Restore(u, r)
  \/ \E w \in Workers :
       \/ \E u \in Users, p \in Providers : LinkBegin(w, u, p)
       \/ \E v \in Users : LinkSeek(w, v)
       \/ LinkLook(w) \/ LinkIdentify(w) \/ LinkMine(w) \/ LinkTheirs(w)
       \/ LinkStore(w) \/ LinkShare(w)
       \/ \E u, v \in Users, p \in Providers : UnlinkBegin(w, u, v, p)
       \/ UnlinkDelete(w) \/ UnlinkRead(w) \/ UnlinkDrop(w)
       \/ \E u \in Users, r \in Subs : Pay(w, u, r) \/ LinkPurchase(w, u, r)
       \/ PayOwner(w) \/ PayLinks(w)
       \/ \E x \in Users : PayGrant(w, x)
       \/ Dies(w)

Spec == Init /\ [][Next]_vars

-----------------------------------------------------------------------------
(* Properties                                                              *)

\* A subscription is shared with accounts that links connect, or once did, to an
\* account it is or was of: no race of links, unlinks, payments, deletions and
\* moves of a purchase gives it to a stranger to all of them.
SharersConnected ==
  \A s \in shared : \E u \in Users : <<s[1], u>> \in had /\ <<u, s[2]>> \in circle

\* An unlink that is through has taken the access both ways: a LINKED row of an
\* account that is not linked with that of the subscription is one that an unlink
\* in progress is about to take, or a stray one: left by an unlink that died
\* after the link, or kept when the subscription moved to another account, or
\* written from a link read, or a subscription found, before that changed.
SharingNeedsLink ==
  \A s \in shared :
    \/ Linked(owner[s[1]], s[2])
    \/ s \in stray
    \/ \E w \in Workers : /\ {owner[s[1]], s[2]} \subseteq Pair(w)
                          /\ \/ call[w].at = "owned"
                             \/ call[w].at = "drop" /\ s[1] \in call[w].drop
=============================================================================

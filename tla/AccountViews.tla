----------------------------- MODULE AccountViews -----------------------------
(***************************************************************************)
(* What users are shown of linked accounts and shared subscriptions, in    *)
(* the states of AccountLinks.  Four services look the access up, each     *)
(* with queries of its own: SubscriptionService lists a history and opens  *)
(* its events, AccountService renders invoices and shows the linked        *)
(* providers, and the look-up of the active subscription decides on access.*)
(* The views write nothing; each is taken in one state.                    *)
(***************************************************************************)
EXTENDS AccountLinks

Stored    == {r \in Subs : owner[r] # None}
Own(u)    == {r \in Subs : owner[r] = u}
Mapped(u) == {r \in Subs : <<r, u>> \in Rows}

\* Of the subscriptions that pass the filter F on provider and dates.
Direct(u, F) == Own(u) \cap F

\* getHistory: one's own, and those of the mapping, filtered alike.
BugOwnOnly(u, F) == Direct(u, F)
History(u, F) == Direct(u, F) \cup (Stored \cap Mapped(u) \cap F)

\* getHistoryEventDetails: one's own, else by the mapping, whose foreign key
\* stands for the subscription.
EventDetails(u) == Own(u) \cup Mapped(u)

\* getInvoicePdf: the subscription, then who it is of, else the mapping.
Invoices(u) == {r \in Stored : owner[r] = u \/ <<r, u>> \in Rows}

\* getPayments
Payments(u) == Own(u)

\* The subscription that the profile and the sign-ins show.
Profile(u) == Active(u) \ {None}

\* getLinkedProviders
LinkedSelf(u)     == {p \in Providers : Has(u, p)}
LinkedOther(u)    == {p \in Providers : \E v \in LinkedWith(u) : Has(v, p)}
ShownProviders(u) == LinkedSelf(u) \cup LinkedOther(u)

-----------------------------------------------------------------------------
(* Properties                                                              *)

\* Through links, unlinks, payments, moves and deletions the views agree: what gives
\* access and what was paid is in the history, every event of the history and
\* no other opens and has an invoice, filters hold for shared subscriptions
\* too, a provider not shown can be linked, and one that can be unlinked is
\* shown on both accounts.
ViewsAgree ==
  \A u \in live :
    /\ Profile(u) \cup Payments(u) \subseteq History(u, Subs)
    /\ EventDetails(u) = History(u, Subs) /\ Invoices(u) = History(u, Subs)
    /\ \A r \in Subs : History(u, {r}) = History(u, Subs) \cap {r}
    /\ \A p \in Providers \ ShownProviders(u) : MayLink(u, p)
    /\ \A v \in Users, p \in Providers :
         MayUnlink(u, v, p) => {p, provider[u]} \subseteq ShownProviders(u) \cap ShownProviders(v)
=============================================================================

-------------------------- MODULE StripeEventsProofs --------------------------
(***************************************************************************)
(* Proofs about StripeEvents, for any subscriptions, deliveries and bounds:*)
(* its types, that an answered event is stored with its owner unless its   *)
(* handler returned early, and that its notices implement NoticeLog.       *)
(***************************************************************************)
EXTENDS StripeEvents, TLAPS

Deliveries == [at : {"idle", "find", "write", "own", "notice", "telling",
                     "findRow", "cancelRow"},
               event : Events \cup {None}, status : Statuses, period : Periods,
               stopping : BOOLEAN, exists : BOOLEAN]
Remotes == [status : Statuses \cup {None}, period : Periods, stopping : BOOLEAN]
RowKeys == Subs \X Periods

\* What a delivery has done when it is at its step: of an event that is not a
\* deletion, the row is there once written, and owned once given to its user,
\* unless the handler returned before.
StepKept(x) ==
  /\ x.at # "idle" => x.event \in events
  /\ x.at \in {"find", "write", "own", "notice"} => x.event.kind # "deleted"
  /\ x.at \in {"findRow", "cancelRow"} => x.event.kind = "deleted"
  /\ x.at # "idle" /\ x.event.kind = "snapshot" => x.period = x.event.period
  /\ x.at \in {"own", "notice"} => row[<<x.event.sub, x.period>>] # None
  /\ x.at \in {"notice", "telling"} /\ x.event.kind # "deleted"
       => \/ HasOwnedRow(x.event.sub, x.period)
          \/ x.at = "telling" /\ x.event \in passed

HooksKept == \A h \in Hooks : StepKept(hook[h])
CancelsARow == cancel # None => row[cancel] # None
EventsHaveSub == \A e \in events : stripe[e.sub].status \in Statuses

\* The part of the type invariant that is not the notices'.
OwnTypeOK ==
  /\ stripe \in [Subs -> Remotes]
  /\ changes \in Nat /\ faults \in Nat
  /\ events \in SUBSET Events /\ answered \in SUBSET events /\ passed \in SUBSET events
  /\ row \in [RowKeys -> Rows \cup {None}]
  /\ owned \in SUBSET RowKeys
  /\ hook \in [Hooks -> Deliveries]
  /\ cancel \in RowKeys \cup {None}
  /\ promised \in SUBSET RowKeys

\* The inductive invariant of the part that is not the notices'.
Inv == OwnTypeOK /\ HooksKept /\ CancelsARow /\ EventsHaveSub /\ AnsweredStored

LEMMA InvHoldsInitially == Init => Inv
  <1> SUFFICES ASSUME Init PROVE Inv  OBVIOUS
  <1>1. 1 \in Periods  BY ConstantsOK DEF Periods
  <1>2. Absent \in Remotes  BY <1>1 DEF Absent, Remotes
  <1>3. NoHook \in Deliveries /\ NoHook.at = "idle"  BY <1>1 DEF NoHook, Deliveries, Statuses
  <1>4. OwnTypeOK  BY <1>2, <1>3 DEF Init, OwnTypeOK, RowKeys
  <1>5. HooksKept  BY <1>3 DEF Init, HooksKept, StepKept
  <1>6. CancelsARow /\ EventsHaveSub /\ AnsweredStored
    BY DEF Init, CancelsARow, EventsHaveSub, AnsweredStored
  <1>7. QED  BY <1>4, <1>5, <1>6 DEF Inv

\* Rows and owners never go: what was stored and owned stays so, as do the
\* facts about the deliveries that a step leaves alone.
LEMMA Kept ==
  ASSUME Inv, NEW x \in Deliveries, StepKept(x), events \subseteq events', passed \subseteq passed',
         \A r \in RowKeys : row[r] # None => row'[r] # None, owned \subseteq owned'
  PROVE  StepKept(x)'
  <1>1. x.at # "idle" => <<x.event.sub, x.period>> \in RowKeys
    BY DEF StepKept, Inv, OwnTypeOK, Events, RowKeys, Deliveries
  <1>2. QED  BY <1>1 DEF StepKept, HasOwnedRow

\* The effect of a step of one delivery on the rest of the invariant.
LEMMA HookMoves ==
  ASSUME Inv, NEW h \in Hooks, NEW x \in Deliveries, StepKept(x)',
         hook' = [hook EXCEPT ![h] = x], events' = events, passed \subseteq passed',
         \A r \in RowKeys : row[r] # None => row'[r] # None, owned \subseteq owned'
  PROVE  HooksKept' /\ hook' \in [Hooks -> Deliveries]
  <1>1. hook \in [Hooks -> Deliveries]  BY DEF Inv, OwnTypeOK
  <1>2. \A g \in Hooks : hook'[g] = IF g = h THEN x ELSE hook[g]  BY <1>1
  <1>3. ASSUME NEW g \in Hooks PROVE \E y \in Deliveries : y = hook'[g] /\ StepKept(y)'
    <2>1. CASE g = h  BY <1>2, <2>1
    <2>2. CASE g # h
      <3>1. PICK y \in Deliveries : y = hook[g]  BY <1>1
      <3>2. StepKept(y)  BY <3>1 DEF Inv, HooksKept
      <3>3. StepKept(y)'  BY <3>2, Kept
      <3>4. QED  BY <1>2, <2>2, <3>1, <3>3
    <2>3. QED  BY <2>1, <2>2
  <1>4. HooksKept'
    <2>1. SUFFICES ASSUME NEW g \in Hooks PROVE StepKept(hook[g])'  BY DEF HooksKept
    <2>2. PICK y \in Deliveries : y = hook'[g] /\ StepKept(y)'  BY <1>3
    <2>3. QED  BY <2>2 DEF StepKept
  <1>5. QED  BY <1>1, <1>4

LEMMA AnswersStay ==
  ASSUME Inv, answered' = answered, passed \subseteq passed',
         \A r \in RowKeys : row[r] # None => row'[r] # None, owned \subseteq owned'
  PROVE  AnsweredStored'
  <1>1. ASSUME NEW e \in answered, NEW p \in Periods, HasOwnedRow(e.sub, p)
        PROVE  HasOwnedRow(e.sub, p)'
    <2>1. <<e.sub, p>> \in RowKeys  BY DEF Inv, OwnTypeOK, Events, RowKeys
    <2>2. QED  BY <1>1, <2>1 DEF HasOwnedRow
  <1>2. QED  BY <1>1 DEF Inv, AnsweredStored

-----------------------------------------------------------------------------
\* Stripe: only its own state and the published events change.
StripeSide == \E s \in Subs : Subscribe(s) \/ Renew(s) \/ Recover(s) \/ Toggle(s) \/ Delete(s)

\* What a change of subscription s leaves: its new state, and new events of it.
Published(s) ==
  /\ stripe' \in [Subs -> Remotes] /\ stripe'[s].status \in Statuses
  /\ \A t \in Subs : t # s => stripe'[t] = stripe[t]
  /\ changes' \in Nat
  /\ events \subseteq events'
  /\ \A e \in events' : e \in events \/ \E kind \in Kinds : e = Event(kind, s)
  /\ UNCHANGED <<answered, passed, row, owned, hook, cancel, promised, faults>>

LEMMA ChangeKeepsInv ==
  ASSUME Inv, NEW s \in Subs, Published(s)
  PROVE  Inv'
  <1>2. \A kind \in Kinds : Event(kind, s) \in Events
    BY DEF Published, Event, Events, Remotes
  <1>3. events \subseteq events' /\ events' \subseteq Events
    BY <1>2 DEF Published, Inv, OwnTypeOK
  <1>4. UNCHANGED <<answered, passed, row, owned, hook, cancel, promised, faults>>  BY DEF Published
  <1>5. OwnTypeOK'
    BY <1>3, <1>4 DEF Published, Inv, OwnTypeOK
  <1>6. HooksKept'
    <2>1. SUFFICES ASSUME NEW g \in Hooks PROVE StepKept(hook[g])'  BY DEF HooksKept
    <2>2. PICK y \in Deliveries : y = hook[g]  BY DEF Inv, OwnTypeOK
    <2>3. StepKept(y)  BY <2>2 DEF Inv, HooksKept
    <2>4. StepKept(y)'  BY <1>3, <1>4, <2>3, Kept
    <2>5. QED  BY <1>4, <2>2, <2>4 DEF StepKept
  <1>7. CancelsARow' /\ AnsweredStored'
    BY <1>4 DEF Inv, CancelsARow, AnsweredStored, HasOwnedRow
  <1>8. EventsHaveSub'
    BY <1>3 DEF Published, Event, Inv, OwnTypeOK, EventsHaveSub, Events
  <1>9. QED  BY <1>5, <1>6, <1>7, <1>8 DEF Inv

LEMMA StripeKeepsInv == Inv /\ StripeSide => Inv'
  <1> SUFFICES ASSUME Inv, NEW s \in Subs,
                      Subscribe(s) \/ Renew(s) \/ Recover(s) \/ Toggle(s) \/ Delete(s)
               PROVE  Inv'
    BY DEF StripeSide
  <1>1. PICK now \in Remotes : now = stripe[s]  BY DEF Inv, OwnTypeOK
  <1>2. now.period \in Nat  BY ConstantsOK DEF Remotes, Periods
  <1>3. stripe \in [Subs -> Remotes]  BY DEF Inv, OwnTypeOK
  <1>4. Renew(s) => now.period + 1 \in Periods
    BY <1>1, <1>2, ConstantsOK DEF Renew, Periods
  <1>5. Published(s)
    <2>1. CASE Subscribe(s)
      BY <1>1, <1>3, <2>1 DEF Subscribe, Change, Published, Kinds, Statuses, Remotes, Inv, OwnTypeOK
    <2>2. CASE Renew(s)
      <3>1. PICK st \in {"active", "past_due"} :
              \/ Change(s, [stripe[s] EXCEPT !.status = st, !.period = @ + 1],
                        {"snapshot", "retrieve"})
              \/ Change(s, [stripe[s] EXCEPT !.status = st, !.period = @ + 1], {"snapshot"})
        BY <2>2 DEF Renew
      <3>2. PICK x \in Remotes : x.status = st /\ stripe' = [stripe EXCEPT ![s] = x]
        BY <1>1, <1>4, <2>2, <3>1 DEF Change, Remotes, Statuses
      <3>3. stripe' \in [Subs -> Remotes] /\ stripe'[s].status \in Statuses
        BY <1>3, <3>2 DEF Statuses
      <3>4. QED  BY <1>3, <3>1, <3>2, <3>3 DEF Change, Published, Kinds, Inv, OwnTypeOK
    <2>3. CASE Recover(s)
      BY <1>1, <1>3, <2>3 DEF Recover, Change, Published, Kinds, Statuses, Remotes, Inv, OwnTypeOK
    <2>4. CASE Toggle(s)
      <3>1. Change(s, [stripe[s] EXCEPT !.stopping = ~@], {"snapshot"}) /\ now.status # None
        BY <1>1, <2>4 DEF Toggle, Ongoing
      <3>2. PICK b \in BOOLEAN : b = ~now.stopping  OBVIOUS
      <3>3. PICK x \in Remotes : x.status = now.status /\ stripe' = [stripe EXCEPT ![s] = x]
        BY <1>1, <3>1, <3>2 DEF Change, Remotes
      <3>4. stripe' \in [Subs -> Remotes] /\ stripe'[s].status \in Statuses
        BY <1>3, <3>1, <3>3 DEF Remotes
      <3>5. QED  BY <1>3, <3>1, <3>3, <3>4 DEF Change, Published, Kinds, Inv, OwnTypeOK
    <2>5. CASE Delete(s)
      BY <1>1, <1>3, <2>5 DEF Delete, Change, Published, Kinds, Statuses, Remotes, Inv, OwnTypeOK
    <2>6. QED  BY <2>1, <2>2, <2>3, <2>4, <2>5
  <1>6. QED  BY <1>5, ChangeKeepsInv

-----------------------------------------------------------------------------
(* The steps of a delivery.                                                *)

\* A step of delivery h that writes no row and answers nothing.
LEMMA QuietMoveKeepsInv ==
  ASSUME Inv, NEW h \in Hooks, NEW x \in Deliveries, StepKept(x)',
         hook' = [hook EXCEPT ![h] = x], faults' \in Nat, owned \subseteq owned',
         owned' \in SUBSET RowKeys, UNCHANGED <<remoteVars, answered, row, cancel, promised>>,
         passed \subseteq passed', passed' \in SUBSET events
  PROVE  Inv'
  <1>1. HooksKept' /\ hook' \in [Hooks -> Deliveries]  BY HookMoves DEF remoteVars
  <1>2. AnsweredStored'  BY AnswersStay
  <1>3. OwnTypeOK'  BY <1>1 DEF Inv, OwnTypeOK, remoteVars
  <1>4. CancelsARow' /\ EventsHaveSub'
    BY DEF Inv, CancelsARow, EventsHaveSub, remoteVars
  <1>5. QED  BY <1>1, <1>2, <1>3, <1>4 DEF Inv

\* Where delivery h is, and what its place says.
LEMMA Place ==
  ASSUME Inv, NEW h \in Hooks
  PROVE  /\ hook[h] \in Deliveries /\ StepKept(hook[h])
         /\ hook[h].at # "idle" => /\ hook[h].event \in events /\ hook[h].event \in Events
                                   /\ Key(h) \in RowKeys
  <1>1. hook[h] \in Deliveries /\ StepKept(hook[h])  BY DEF Inv, OwnTypeOK, HooksKept
  <1>2. hook[h].at # "idle" => hook[h].event \in events  BY <1>1 DEF StepKept
  <1>3. events \subseteq Events  BY DEF Inv, OwnTypeOK
  <1>4. QED  BY <1>1, <1>2, <1>3 DEF Key, Sub, RowKeys, Deliveries, Events

LEMMA NoHookKept == NoHook \in Deliveries /\ StepKept(NoHook)'
  BY ConstantsOK DEF NoHook, Deliveries, Statuses, Periods, StepKept

LEMMA DeliverKeepsInv ==
  ASSUME Inv, NEW h \in Hooks, NEW e \in events, Deliver(h, e)
  PROVE  Inv'
  <1>1. e \in Events /\ e.sub \in Subs /\ stripe \in [Subs -> Remotes] /\ faults \in Nat
    BY DEF Inv, OwnTypeOK, Events
  <1>2. PICK x : x = Handling(e)  OBVIOUS
  <1>3. hook' = [hook EXCEPT ![h] = x] /\ faults' \in Nat
    BY <1>1, <1>2 DEF Deliver
  <1>4. x \in Deliveries /\ StepKept(x)'
    <2>1. e.kind \in Kinds  BY <1>1 DEF Events
    <2>2. CASE e.kind = "retrieve"
      <3>1. PICK now \in Remotes : now = stripe[e.sub]  BY <1>1
      <3>2. now.status \in Statuses  BY <3>1 DEF Inv, EventsHaveSub
      <3>3. x = [at |-> "find", event |-> e, status |-> now.status, period |-> now.period,
                 stopping |-> now.stopping, exists |-> FALSE]
        BY <1>2, <2>2, <3>1 DEF Handling
      <3>4. QED  BY <1>1, <2>2, <3>2, <3>3 DEF Deliveries, Remotes, StepKept, Deliver, remoteVars
    <2>3. CASE e.kind # "retrieve"
      <3>1. x = [at |-> IF e.kind = "deleted" THEN "findRow" ELSE "find", event |-> e,
                 status |-> e.status, period |-> e.period, stopping |-> e.stopping,
                 exists |-> FALSE]
        BY <1>2, <2>3 DEF Handling
      <3>2. QED  BY <1>1, <2>3, <3>1 DEF Deliveries, Events, StepKept, Deliver, remoteVars
    <2>4. QED  BY <2>2, <2>3
  <1>5. QED  BY <1>3, <1>4, QuietMoveKeepsInv DEF Deliver, Inv, OwnTypeOK

LEMMA GotoIs ==
  ASSUME Inv, NEW h \in Hooks, NEW y \in Deliveries, y = hook[h], NEW to,
         to \in {"own", "notice", "telling"}, HookGoto(h, to)
  PROVE  /\ hook' = [hook EXCEPT ![h] = [y EXCEPT !.at = to]]
         /\ [y EXCEPT !.at = to] \in Deliveries
  BY DEF HookGoto, Deliveries, Inv, OwnTypeOK

LEMMA UnchangedKeepsInv ==
  ASSUME Inv, faults' \in Nat,
         UNCHANGED <<remoteVars, answered, passed, row, owned, hook, cancel, promised>>
  PROVE  Inv'
  BY DEF Inv, OwnTypeOK, HooksKept, StepKept, HasOwnedRow, CancelsARow, EventsHaveSub,
         AnsweredStored, remoteVars

LEMMA FindPeriodKeepsInv ==
  ASSUME Inv, NEW h \in Hooks, FindPeriod(h)
  PROVE  Inv'
  <1>1. PICK y \in Deliveries : y = hook[h] /\ StepKept(y)  BY Place
  <1>2. PICK b \in BOOLEAN : b = Found(Key(h))  BY DEF Found
  <1>3. hook' = [hook EXCEPT ![h] = [y EXCEPT !.at = "write", !.exists = b]]
    BY <1>1, <1>2 DEF FindPeriod, Inv, OwnTypeOK
  <1>4. [y EXCEPT !.at = "write", !.exists = b] \in Deliveries  BY <1>1 DEF Deliveries
  <1>5. StepKept([y EXCEPT !.at = "write", !.exists = b])'
    BY <1>1 DEF FindPeriod, StepKept, Deliveries, remoteVars
  <1>6. QED  BY <1>3, <1>4, <1>5, QuietMoveKeepsInv DEF FindPeriod, Inv, OwnTypeOK

LEMMA PassOverKeepsInv ==
  ASSUME Inv, NEW h \in Hooks, PassOver(h)
  PROVE  Inv'
  <1>1. PICK y \in Deliveries : y = hook[h] /\ StepKept(y)  BY Place
  <1>2. /\ hook' = [hook EXCEPT ![h] = [y EXCEPT !.at = "telling"]]
        /\ [y EXCEPT !.at = "telling"] \in Deliveries
    BY <1>1, GotoIs DEF PassOver
  <1>3. y.event \in events /\ passed' = passed \cup {y.event}
    BY <1>1 DEF PassOver, StepKept
  <1>4. StepKept([y EXCEPT !.at = "telling"])'
    BY <1>1, <1>3 DEF PassOver, StepKept, Deliveries, remoteVars
  <1>5. QED  BY <1>2, <1>3, <1>4, QuietMoveKeepsInv DEF PassOver, Inv, OwnTypeOK

LEMMA EndsKeepInv ==
  ASSUME Inv, NEW h \in Hooks, HookEnd(h), faults' \in Nat,
         UNCHANGED <<remoteVars, answered, passed, row, owned, cancel, promised>>
  PROVE  Inv'
  BY NoHookKept, QuietMoveKeepsInv DEF HookEnd, Inv, OwnTypeOK

LEMMA EnsureOwnerKeepsInv ==
  ASSUME Inv, NEW h \in Hooks, EnsureOwner(h)
  PROVE  Inv'
  <1>1. PICK y \in Deliveries : y = hook[h] /\ StepKept(y)  BY Place
  <1>2. Key(h) = <<y.event.sub, y.period>> /\ Key(h) \in RowKeys
    BY <1>1, Place DEF EnsureOwner, Key, Sub
  <1>3. owned' = owned \cup {Key(h)} /\ owned' \in SUBSET RowKeys
    BY <1>2 DEF EnsureOwner, OwnedAfter, Inv, OwnTypeOK
  <1>4. /\ hook' = [hook EXCEPT ![h] = [y EXCEPT !.at = "notice"]]
        /\ [y EXCEPT !.at = "notice"] \in Deliveries
    BY <1>1, GotoIs DEF EnsureOwner
  <1>5. HasOwnedRow(y.event.sub, y.period)'
    BY <1>1, <1>2, <1>3 DEF EnsureOwner, StepKept, HasOwnedRow
  <1>6. StepKept([y EXCEPT !.at = "notice"])'
    BY <1>1, <1>5 DEF EnsureOwner, StepKept, Deliveries, remoteVars
  <1>7. QED  BY <1>3, <1>4, <1>6, QuietMoveKeepsInv DEF EnsureOwner, Inv, OwnTypeOK

LEMMA NotifyPaidKeepsInv ==
  ASSUME Inv, NEW h \in Hooks, NotifyPaid(h)
  PROVE  Inv'
  <1>1. PICK y \in Deliveries : y = hook[h] /\ StepKept(y)  BY Place
  <1>2. /\ hook' = [hook EXCEPT ![h] = [y EXCEPT !.at = "telling"]]
        /\ [y EXCEPT !.at = "telling"] \in Deliveries
    BY <1>1, GotoIs DEF NotifyPaid
  <1>3. StepKept([y EXCEPT !.at = "telling"])'
    BY <1>1 DEF NotifyPaid, StepKept, HasOwnedRow, Deliveries, remoteVars
  <1>4. QED  BY <1>2, <1>3, QuietMoveKeepsInv DEF NotifyPaid, Inv, OwnTypeOK

\* A deletion: the row to cancel is one of the table.
LEMMA FindRowKeepsInv ==
  ASSUME Inv, NEW h \in Hooks, FindRow(h)
  PROVE  Inv'
  <1>1. PICK y \in Deliveries : y = hook[h] /\ StepKept(y)  BY Place
  <1>2. y.event.kind = "deleted"  BY <1>1 DEF FindRow, StepKept
  <1>3. CASE \E p \in Periods :
               /\ row[<<Sub(h), p>>] # None
               /\ hook' = [hook EXCEPT ![h].at = "cancelRow", ![h].period = p]
    <2>1. PICK p \in Periods :
            /\ row[<<Sub(h), p>>] # None
            /\ hook' = [hook EXCEPT ![h] = [y EXCEPT !.at = "cancelRow", !.period = p]]
      BY <1>1, <1>3 DEF Inv, OwnTypeOK
    <2>2. [y EXCEPT !.at = "cancelRow", !.period = p] \in Deliveries  BY <1>1 DEF Deliveries
    <2>3. StepKept([y EXCEPT !.at = "cancelRow", !.period = p])'
      BY <1>1, <1>2 DEF FindRow, StepKept, Deliveries, remoteVars
    <2>4. QED  BY <2>1, <2>2, <2>3, QuietMoveKeepsInv DEF FindRow, Inv, OwnTypeOK
  <1>4. CASE HookGoto(h, "telling")
    <2>1. /\ hook' = [hook EXCEPT ![h] = [y EXCEPT !.at = "telling"]]
          /\ [y EXCEPT !.at = "telling"] \in Deliveries
      BY <1>1, <1>4, GotoIs
    <2>2. StepKept([y EXCEPT !.at = "telling"])'
      BY <1>1, <1>2 DEF FindRow, StepKept, Deliveries, remoteVars
    <2>3. QED  BY <2>1, <2>2, QuietMoveKeepsInv DEF FindRow, Inv, OwnTypeOK
  <1>5. QED  BY <1>3, <1>4 DEF FindRow

-----------------------------------------------------------------------------
(* The steps that write a row.                                             *)

LEMMA RowWriteKeepsInv ==
  ASSUME Inv, NEW h \in Hooks, NEW x \in Deliveries, StepKept(x)',
         NEW k \in RowKeys, NEW r \in Rows, row' = [row EXCEPT ![k] = r],
         hook' = [hook EXCEPT ![h] = x], 
         UNCHANGED <<remoteVars, answered, passed, owned, cancel, promised, faults>>
  PROVE  Inv'
  <1>1. row' \in [RowKeys -> Rows \cup {None}]  BY DEF Inv, OwnTypeOK
  <1>2. \A j \in RowKeys : row[j] # None => row'[j] # None
    BY NoneIsNoRow DEF Inv, OwnTypeOK
  <1>3. HooksKept' /\ hook' \in [Hooks -> Deliveries]
    BY <1>2, HookMoves DEF remoteVars
  <1>4. AnsweredStored'  BY <1>2, AnswersStay
  <1>5. CancelsARow' /\ EventsHaveSub'
    BY <1>2 DEF Inv, OwnTypeOK, CancelsARow, EventsHaveSub, remoteVars
  <1>6. OwnTypeOK'  BY <1>1, <1>3 DEF Inv, OwnTypeOK, remoteVars
  <1>7. QED  BY <1>3, <1>4, <1>5, <1>6 DEF Inv

LEMMA WriteRowKeepsInv ==
  ASSUME Inv, NEW h \in Hooks, WriteRow(h)
  PROVE  Inv'
  <1>1. PICK y \in Deliveries : y = hook[h] /\ StepKept(y)  BY Place
  <1>2. PICK k \in RowKeys : k = Key(h) /\ k = <<y.event.sub, y.period>>
    BY <1>1, Place DEF WriteRow, Key, Sub
  <1>3. PICK r : r = Saved(h)  OBVIOUS
  <1>4. r \in Rows
    <2>1. ToStored(y.status) \in Stored
      BY <1>1 DEF WriteRow, Storable, ToStored, StoredStatus, Stored
    <2>2. y.exists => row[k] \in Rows  BY <1>1, <1>2 DEF WriteRow, Inv, OwnTypeOK
    <2>3. r = [status |-> ToStored(y.status), stopping |-> y.stopping,
               ended |-> y.exists /\ row[k].ended]
      BY <1>1, <1>2, <1>3 DEF Saved
    <2>4. y.stopping \in BOOLEAN /\ (y.exists /\ row[k].ended) \in BOOLEAN
      BY <1>1, <2>2 DEF Deliveries, Rows
    <2>5. QED  BY <2>1, <2>3, <2>4 DEF Rows
  <1>5. row' = [row EXCEPT ![k] = r] /\ row'[k] # None
    BY <1>2, <1>3, <1>4, NoneIsNoRow DEF WriteRow, Inv, OwnTypeOK
  <1>6. /\ hook' = [hook EXCEPT ![h] = [y EXCEPT !.at = "own"]]
        /\ [y EXCEPT !.at = "own"] \in Deliveries
    BY <1>1, GotoIs DEF WriteRow
  <1>7. StepKept([y EXCEPT !.at = "own"])'
    BY <1>1, <1>2, <1>5 DEF WriteRow, StepKept, Deliveries, remoteVars
  <1>8. QED  BY <1>4, <1>5, <1>6, <1>7, RowWriteKeepsInv DEF WriteRow

LEMMA CancelRowKeepsInv ==
  ASSUME Inv, NEW h \in Hooks, CancelRow(h)
  PROVE  Inv'
  <1>1. PICK y \in Deliveries : y = hook[h] /\ StepKept(y)  BY Place
  <1>2. PICK k \in RowKeys : k = Key(h)  BY Place DEF CancelRow
  <1>3. [status |-> "CANCELLED", stopping |-> FALSE, ended |-> TRUE] \in Rows
    BY DEF Rows, Stored
  <1>4. /\ hook' = [hook EXCEPT ![h] = [y EXCEPT !.at = "telling"]]
        /\ [y EXCEPT !.at = "telling"] \in Deliveries
    BY <1>1, GotoIs DEF CancelRow
  <1>5. StepKept([y EXCEPT !.at = "telling"])'
    BY <1>1 DEF CancelRow, StepKept, Deliveries, remoteVars
  <1>6. QED  BY <1>2, <1>3, <1>4, <1>5, RowWriteKeepsInv DEF CancelRow

\* The event that is answered was stored and owned by this very delivery, unless
\* its handler returned early.
LEMMA AnswerKeepsInv ==
  ASSUME Inv, NEW h \in Hooks, Answer(h)
  PROVE  Inv'
  <1>1. PICK y \in Deliveries : y = hook[h] /\ StepKept(y)  BY Place
  <1>2. answered' = answered \cup {y.event} /\ y.event \in events
    BY <1>1 DEF Answer, StepKept
  <1>3. y.event.kind # "deleted" /\ y.event \notin passed =>
          HasOwnedRow(y.event.sub, y.period) /\ (y.event.kind = "snapshot" => y.period = y.event.period)
    BY <1>1 DEF Answer, StepKept
  <1>4. y.period \in Periods  BY <1>1 DEF Deliveries
  <1>5. AnsweredStored'
    BY <1>2, <1>3, <1>4 DEF Answer, Inv, AnsweredStored, HasOwnedRow
  <1>6. HooksKept' /\ hook' \in [Hooks -> Deliveries]
    BY NoHookKept, HookMoves DEF Answer, HookEnd, remoteVars
  <1>7. OwnTypeOK'  BY <1>2, <1>6 DEF Answer, Inv, OwnTypeOK, remoteVars
  <1>8. CancelsARow' /\ EventsHaveSub'
    BY DEF Answer, Inv, CancelsARow, EventsHaveSub, remoteVars
  <1>9. QED  BY <1>5, <1>6, <1>7, <1>8 DEF Inv

-----------------------------------------------------------------------------
(* The cancel request.                                                     *)

\* Nothing that the facts about deliveries and answers read changes.
LEMMA OthersKept ==
  ASSUME Inv, UNCHANGED <<remoteVars, answered, passed, owned, hook>>,
         \A r \in RowKeys : row[r] # None => row'[r] # None
  PROVE  HooksKept' /\ AnsweredStored' /\ EventsHaveSub'
  <1>1. HooksKept'
    <2>1. SUFFICES ASSUME NEW g \in Hooks PROVE StepKept(hook[g])'  BY DEF HooksKept
    <2>2. PICK y \in Deliveries : y = hook[g]  BY DEF Inv, OwnTypeOK
    <2>3. StepKept(y)  BY <2>2 DEF Inv, HooksKept
    <2>4. StepKept(y)'  BY <2>3, Kept DEF remoteVars
    <2>5. QED  BY <2>2, <2>4 DEF StepKept
  <1>2. AnsweredStored'  BY AnswersStay
  <1>3. QED  BY <1>1, <1>2 DEF Inv, EventsHaveSub, remoteVars

LEMMA CancelReadKeepsInv == Inv /\ CancelRead => Inv'
  <1> SUFFICES ASSUME Inv, CancelRead PROVE Inv'  OBVIOUS
  <1>1. PICK r \in RowKeys : row[r] # None /\ cancel' = r  BY DEF CancelRead, RowKeys
  <1>2. CancelsARow'  BY <1>1 DEF CancelRead, CancelsARow
  <1>3. OwnTypeOK'  BY <1>1 DEF CancelRead, Inv, OwnTypeOK, remoteVars
  <1>4. HooksKept' /\ AnsweredStored' /\ EventsHaveSub'  BY OthersKept DEF CancelRead
  <1>5. QED  BY <1>2, <1>3, <1>4 DEF Inv

LEMMA CancelWriteKeepsInv == Inv /\ CancelWrite => Inv'
  <1> SUFFICES ASSUME Inv, CancelWrite PROVE Inv'  OBVIOUS
  <1>1. PICK k \in RowKeys : k = cancel /\ row[k] \in Rows
    BY DEF CancelWrite, Inv, OwnTypeOK, CancelsARow
  <1>2. PICK r \in Rows : row' = [row EXCEPT ![k] = r]
    BY <1>1 DEF CancelWrite, Rows, Inv, OwnTypeOK
  <1>3. \A j \in RowKeys : row[j] # None => row'[j] # None
    BY <1>1, <1>2, NoneIsNoRow DEF Inv, OwnTypeOK
  <1>4. OwnTypeOK'
    BY <1>1, <1>2 DEF CancelWrite, Inv, OwnTypeOK, remoteVars
  <1>5. CancelsARow'  BY DEF CancelWrite, CancelsARow
  <1>6. HooksKept' /\ AnsweredStored' /\ EventsHaveSub'
    BY <1>3, OthersKept DEF CancelWrite
  <1>7. QED  BY <1>4, <1>5, <1>6 DEF Inv

LEMMA NextKeepsInv == Inv /\ [Next]_vars => Inv'
  <1> SUFFICES ASSUME Inv, [Next]_vars PROVE Inv'  OBVIOUS
  <1>1. CASE StripeSide  BY <1>1, StripeKeepsInv
  <1>2. ASSUME NEW h \in Hooks, NEW e \in events, Deliver(h, e) PROVE Inv'
    BY <1>2, DeliverKeepsInv
  <1>3. ASSUME NEW h \in Hooks, HookStep(h) PROVE Inv'
    <2>1. CASE WriteFails(h)
      BY <2>1, EndsKeepInv DEF WriteFails, Inv, OwnTypeOK
    <2>2. CASE Tell(h)
      BY <2>2, UnchangedKeepsInv DEF Tell, Inv, OwnTypeOK
    <2>3. QED
      BY <1>3, <2>1, <2>2, FindPeriodKeepsInv, PassOverKeepsInv, WriteRowKeepsInv, EnsureOwnerKeepsInv,
         NotifyPaidKeepsInv, FindRowKeepsInv, CancelRowKeepsInv, AnswerKeepsInv DEF HookStep
  <1>4. ASSUME NEW h \in Hooks, Dies(h) PROVE Inv'
    BY <1>4, EndsKeepInv DEF Dies, Inv, OwnTypeOK
  <1>5. ASSUME NEW h \in Hooks, ReleaseFails(h) PROVE Inv'
    BY <1>5, UnchangedKeepsInv DEF ReleaseFails, Inv, OwnTypeOK
  <1>6. CASE CancelRead \/ CancelWrite  BY <1>6, CancelReadKeepsInv, CancelWriteKeepsInv
  <1>7. CASE UNCHANGED vars
    BY <1>7, UnchangedKeepsInv DEF vars, remoteVars, Inv, OwnTypeOK
  <1>8. QED  BY <1>1, <1>2, <1>3, <1>4, <1>5, <1>6, <1>7 DEF Next, StripeSide

-----------------------------------------------------------------------------
(* The notices                                                             *)

CP == INSTANCE PaidConversionProofs WITH Workers <- Hooks, Keys <- Subs

\* Every step of the webhook is a step of PaidConversion or leaves it alone.
LEMMA NextIsNoticeStep == Inv /\ [Next]_vars => [CP!NoticeNext]_CP!noticeVars
  <1> SUFFICES ASSUME Inv, [Next]_vars, ~ UNCHANGED noticeVars
               PROVE  CP!NoticeNext
    BY DEF noticeVars, CP!noticeVars
  <1>1. PICK h \in Hooks : NotifyPaid(h) \/ Tell(h) \/ Dies(h) \/ ReleaseFails(h)
    BY DEF Next, HookStep, vars, noticeVars, Subscribe, Renew, Recover, Toggle, Delete,
           Change, Deliver, FindPeriod, PassOver, WriteRow, WriteFails, EnsureOwner, FindRow,
           CancelRow, Answer, CancelRead, CancelWrite
  <1>2. CASE NotifyPaid(h)
    <2>1. Sub(h) \in Subs  BY <1>2, Place DEF NotifyPaid, Sub, Events
    <2>2. CP!Acquire(h, Sub(h), "send")
      BY <1>2 DEF NotifyPaid, Conversion!Acquire, CP!Acquire, Conversion!Acquirable,
                  CP!Acquirable, noticeVars
    <2>3. QED  BY <2>1, <2>2 DEF CP!NoticeNext
  <1>3. CASE Tell(h)
    BY <1>3 DEF Tell, CP!NoticeNext, CP!NoticeStep, Conversion!NoticeStep,
       Conversion!CheckTrial, CP!CheckTrial, Conversion!Sent, CP!Sent, Conversion!Refused,
       CP!Refused, Conversion!AnswerLost, CP!AnswerLost, Conversion!Reached, CP!Reached,
       Conversion!Release, CP!Release, Conversion!NoticeGoto, CP!NoticeGoto,
       Conversion!NoticeEnd, CP!NoticeEnd, Conversion!AfterSend, CP!AfterSend,
       Conversion!Quiet, CP!Quiet
  <1>4. CASE Dies(h) \/ ReleaseFails(h)
    BY <1>4 DEF Dies, ReleaseFails, CP!NoticeNext, Conversion!NoticeDies, CP!NoticeDies,
       Conversion!NoticeEnd, CP!NoticeEnd, Conversion!Quiet, CP!Quiet, noticeVars
  <1>5. QED  BY <1>1, <1>2, <1>3, <1>4

LEMMA SpecIsNoticeSpec == Spec => CP!NoticeSpec
  <1>1. Init => CP!NoticeInit
    BY DEF Init, Conversion!NoticeInit, CP!NoticeInit, Conversion!Quiet, CP!Quiet
  <1>2. QED
    BY <1>1, InvHoldsInitially, NextKeepsInv, NextIsNoticeStep, PTL DEF Spec, CP!NoticeSpec

-----------------------------------------------------------------------------
\* Rows, events, deliveries and notices keep their types: no status that the
\* enum refuses gets into the table.
THEOREM TypeCorrect == Spec => []TypeOK
  <1>1. Spec => []OwnTypeOK
    BY InvHoldsInitially, NextKeepsInv, PTL DEF Spec, Inv
  <1>2. Spec => []CP!NoticeTypeOK
    <2>1. None \notin Subs  BY ConstantsOK
    <2>2. CP!NoticeSpec => []CP!NoticeTypeOK
      BY <2>1, CP!NoticeTypeCorrect DEF CP!ConversionConstants
    <2>3. QED  BY <2>2, SpecIsNoticeSpec, PTL
  <1>3. OwnTypeOK /\ CP!NoticeTypeOK => TypeOK
    BY DEF OwnTypeOK, TypeOK, CP!NoticeTypeOK, Conversion!NoticeTypeOK, Deliveries, Remotes,
           RowKeys
  <1>4. QED  BY <1>1, <1>2, <1>3, PTL

\* An event that was answered, and will not come again, is stored with its
\* owner, for any number of deliveries and deaths, unless its handler returned
\* early.
THEOREM AnsweredIsStored == Spec => []AnsweredStored
  BY InvHoldsInitially, NextKeepsInv, PTL DEF Spec, Inv

\* The webhook's notices follow the log: of one subscription never two at a
\* time, and none after one that Slack has acknowledged.
THEOREM ConversionsLogged == Spec => ConversionLogged
  <1>1. None \notin Subs  BY ConstantsOK
  <1>2. CP!NoticeSpec => CP!ImplementsLog
    BY <1>1, CP!NoticesImplementLog DEF CP!ConversionConstants
  <1>3. CP!ImplementsLog => ConversionLogged
    BY PTL DEF CP!ImplementsLog, ConversionLogged, Conversion!ImplementsLog, CP!Log!Spec,
       Conversion!Log!Spec, CP!Log!Init, Conversion!Log!Init, CP!Log!Next,
       Conversion!Log!Next, CP!Log!Take, Conversion!Log!Take, CP!Log!GiveBack,
       Conversion!Log!GiveBack, CP!Log!Lose, Conversion!Log!Lose, CP!Log!Tell,
       Conversion!Log!Tell, CP!Log!Move, Conversion!Log!Move, CP!Log!Message,
       Conversion!Log!Message, CP!Log!NoMessage, Conversion!Log!NoMessage,
       CP!Log!logVars, Conversion!Log!logVars, CP!LogEntry, Conversion!LogEntry,
       CP!Telling, Conversion!Telling
  <1>4. QED  BY <1>2, <1>3, SpecIsNoticeSpec, PTL
=============================================================================

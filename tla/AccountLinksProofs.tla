-------------------------- MODULE AccountLinksProofs --------------------------
(***************************************************************************)
(* Proofs about AccountLinks, for any accounts, subscriptions and workers: *)
(* its types, that sharing stays within circles of links, that an unlink   *)
(* which is through leaves no row but a stray one, and that the views of   *)
(* AccountViews agree.  The second part is about SignIns: its types, and   *)
(* that no account gets identities of two persons.                         *)
(***************************************************************************)
EXTENDS AccountViews, SignIns, TLAPS

Unlinking == {"owned", "drop"}

\* Subscription r is or was of an account that is connected with u.
Reach(r, u) == \E o \in Users : <<r, o>> \in had /\ <<o, u>> \in circle

\* What a call knows when it is at its step.
CallKept(x) ==
  /\ x.at # "idle" => x.user \in Users
  /\ x.at \in {"keep", "change", "identify", "mine", "theirs", "store", "share",
               "unlink", "owned", "drop"}
       => x.other \in Users
  /\ x.at \in {"seek", "keep", "change", "identify", "mine"} => x.sub = None
  /\ x.at \in {"theirs", "store", "share"} /\ x.sub # None
       => x.to \in {x.user, x.other} /\ (Reach(x.sub, x.user) \/ Reach(x.sub, x.other))
  /\ x.at = "share" => x.sub # None /\ <<x.user, x.other>> \in circle
  /\ x.at \in {"owner", "links", "grant"} => x.sub \in Subs /\ Reach(x.sub, x.user)
  /\ x.at = "owner" => <<x.sub, x.user>> \in had
  /\ x.at = "grant" => \A y \in x.todo : <<x.user, y>> \in circle

CallsKept == \A w \in Workers : CallKept(call[w])

\* Being connected is an equivalence that holds the links.
CircleOK ==
  /\ links \subseteq circle
  /\ \A u \in Users : <<u, u>> \in circle
  /\ \A u, v \in Users : <<u, v>> \in circle => <<v, u>> \in circle
  /\ \A u, v, x \in Users : <<u, v>> \in circle /\ <<v, x>> \in circle => <<u, x>> \in circle

\* Rows are of stored subscriptions, OWNER rows of accounts that owned them.
SubsOK ==
  /\ \A s \in Rows : owner[s[1]] # None
  /\ \A r \in Subs : owner[r] # None => <<r, owner[r]>> \in had
  /\ owning \subseteq had

\* Call x is an unlink that is about to take row s.
Takes(x, s) == /\ {owner[s[1]], s[2]} \subseteq {x.user, x.other}
               /\ x.at = "owned" \/ (x.at = "drop" /\ s[1] \in x.drop)
Expected == \A s \in shared : \/ Linked(owner[s[1]], s[2]) \/ s \in stray
                              \/ \E w \in Workers : Takes(call[w], s)

\* The inductive invariant.
Inv == TypeOK /\ CallsKept /\ CircleOK /\ SharersConnected /\ SubsOK /\ Expected

LEMMA ExpectedIsSharingNeedsLink == Expected <=> SharingNeedsLink
  BY DEF Expected, SharingNeedsLink, Takes, Pair

LEMMA NoCallKept == NoCall \in Calls /\ NoCall.at = "idle" /\ CallKept(NoCall)'
  BY DEF NoCall, Calls, Providers, CallKept

LEMMA InvHoldsInitially == Init => Inv
  <1> SUFFICES ASSUME Init PROVE Inv  OBVIOUS
  <1>1. NoCall \in Calls /\ NoCall.at = "idle"  BY DEF NoCall, Calls, Providers
  <1>2. TypeOK  BY <1>1 DEF Init, TypeOK
  <1>3. CallsKept  BY <1>1 DEF Init, CallsKept, CallKept
  <1>4. CircleOK /\ SharersConnected /\ SubsOK /\ Expected
    BY DEF Init, CircleOK, SharersConnected, SubsOK, Rows, Expected
  <1>5. QED  BY <1>2, <1>3, <1>4 DEF Inv

LEMMA Place ==
  ASSUME Inv, NEW w \in Workers
  PROVE  \E y \in Calls : y = call[w] /\ CallKept(y)
  BY DEF Inv, TypeOK, CallsKept

\* What a call knows stays so, as both histories only grow.
LEMMA KeptStays ==
  ASSUME NEW x, CallKept(x), circle \subseteq circle', had \subseteq had'
  PROVE  CallKept(x)'
  <1>1. \A r, u : Reach(r, u) => Reach(r, u)'  BY DEF Reach
  <1>2. QED  BY <1>1 DEF CallKept

LEMMA CallMoves ==
  ASSUME Inv, NEW w \in Workers, NEW x \in Calls, CallKept(x)',
         call' = [call EXCEPT ![w] = x], circle \subseteq circle', had \subseteq had'
  PROVE  /\ call' \in [Workers -> Calls] /\ CallsKept'
         /\ \A g \in Workers : call'[g] = IF g = w THEN x ELSE call[g]
  <1>1. call \in [Workers -> Calls]  BY DEF Inv, TypeOK
  <1>2. \A g \in Workers : call'[g] = IF g = w THEN x ELSE call[g]  BY <1>1
  <1>3. ASSUME NEW g \in Workers PROVE \E y \in Calls : y = call'[g] /\ CallKept(y)'
    <2>1. CASE g = w  BY <1>2, <2>1
    <2>2. CASE g # w
      <3>1. PICK y \in Calls : y = call[g]  BY <1>1
      <3>2. CallKept(y)  BY <3>1 DEF Inv, CallsKept
      <3>3. CallKept(y)'  BY <3>2, KeptStays
      <3>4. QED  BY <1>2, <2>2, <3>1, <3>3
    <2>3. QED  BY <2>1, <2>2
  <1>4. CallsKept'
    <2>1. SUFFICES ASSUME NEW g \in Workers PROVE CallKept(call[g])'  BY DEF CallsKept
    <2>2. PICK y \in Calls : y = call'[g] /\ CallKept(y)'  BY <1>3
    <2>3. QED  BY <2>2 DEF CallKept, Reach
  <1>5. QED  BY <1>1, <1>2, <1>4

\* A row that an unlink was to take is to be taken still.
UnlinksStay == \A g \in Workers : call[g].at \in Unlinking => call'[g] = call[g]

LEMMA OthersUnlink ==
  ASSUME Inv, NEW w \in Workers, NEW x \in Calls, call' = [call EXCEPT ![w] = x],
         call[w].at \notin Unlinking
  PROVE  UnlinksStay
  BY DEF Inv, TypeOK, UnlinksStay

LEMMA TakenStill ==
  ASSUME NEW s, UnlinksStay, owner'[s[1]] = owner[s[1]],
         \E g \in Workers : Takes(call[g], s)
  PROVE  \E g \in Workers : Takes(call[g], s)'
  BY DEF UnlinksStay, Takes, Unlinking

\* Linked accounts are connected, both ways.
LEMMA LinkedAreConnected ==
  ASSUME Inv, NEW u \in Users, NEW v \in Users, Linked(u, v)
  PROVE  <<u, v>> \in circle
  BY DEF Inv, CircleOK, Linked

\* A step of a call that is not an unlink under way and leaves links and rows.
LEMMA MoveKeepsInv ==
  ASSUME Inv, NEW w \in Workers, NEW x \in Calls, CallKept(x)',
         call' = [call EXCEPT ![w] = x], call[w].at \notin Unlinking,
         UNCHANGED <<live, links, subs, shared, history>>, begun' \in Nat,
         provider' \in [Users -> Providers], appleId' \in SUBSET Users
  PROVE  Inv'
  <1>1. call' \in [Workers -> Calls] /\ CallsKept'  BY CallMoves DEF history, subs
  <1>2. TypeOK'  BY <1>1 DEF Inv, TypeOK, history, subs
  <1>3. CircleOK' /\ SharersConnected' /\ SubsOK'
    BY DEF Inv, CircleOK, SharersConnected, SubsOK, Rows, history, subs
  <1>4. Expected'
    <2>1. SUFFICES ASSUME NEW s \in shared
                   PROVE  \/ Linked(owner[s[1]], s[2]) \/ s \in stray
                          \/ \E g \in Workers : Takes(call[g], s)'
      BY DEF Expected, history, subs, Linked
    <2>2. QED  BY TakenStill, OthersUnlink DEF Inv, Expected, subs
  <1>5. QED  BY <1>1, <1>2, <1>3, <1>4 DEF Inv

LEMMA EndKeepsInv ==
  ASSUME Inv, NEW w \in Workers, End(w), call[w].at \notin Unlinking,
         UNCHANGED <<accounts, links, subs, shared, begun, history>>
  PROVE  Inv'
  BY NoCallKept, MoveKeepsInv DEF End, accounts, Inv, TypeOK

\* A step that writes a row, for an account that the subscription reaches.
LEMMA GrantKeepsInv ==
  ASSUME Inv, NEW w \in Workers, NEW x \in Calls, CallKept(x)',
         call' = [call EXCEPT ![w] = x], call[w].at \notin Unlinking,
         NEW r \in Subs, NEW y \in Users, Storable(r, y), Grant(r, y), Reach(r, y),
         UNCHANGED <<begun, accounts, links, subs>>
  PROVE  Inv'
  <1>1. call' \in [Workers -> Calls] /\ CallsKept'  BY CallMoves DEF Grant, subs
  <1>2. /\ shared' = shared \cup {<<r, y>>} /\ circle' = circle
        /\ stray \subseteq stray' /\ stray' \subseteq Subs \X Users
        /\ Linked(owner[r], y) \/ <<r, y>> \in stray'
    BY DEF Grant, Inv, TypeOK
  <1>3. owner[r] # None /\ <<r, y>> \notin owning  BY DEF Storable, Rows
  <1>4. TypeOK'  BY <1>1, <1>2, <1>3 DEF Inv, TypeOK, accounts, subs
  <1>5. CircleOK'  BY <1>2 DEF Inv, CircleOK
  <1>6. SharersConnected'
    BY <1>2 DEF Inv, SharersConnected, Reach, subs
  <1>7. SubsOK'  BY <1>2, <1>3 DEF Inv, SubsOK, Rows, subs
  <1>8. Expected'
    <2>1. SUFFICES ASSUME NEW s \in shared'
                   PROVE  \/ Linked(owner[s[1]], s[2]) \/ s \in stray'
                          \/ \E g \in Workers : Takes(call[g], s)'
      BY DEF Expected, Linked, subs
    <2>2. CASE s = <<r, y>>  BY <1>2, <2>2
    <2>3. CASE s \in shared
      BY <1>2, <2>3, TakenStill, OthersUnlink DEF Inv, Expected, subs
    <2>4. QED  BY <1>2, <2>2, <2>3
  <1>9. QED  BY <1>1, <1>4, <1>5, <1>6, <1>7, <1>8 DEF Inv

\* A step that stores subscription r for account u or moves it there.
LEMMA BecomesKeepsInv ==
  ASSUME Inv, NEW r \in Subs, NEW u \in Users, BecomesOf(r, u),
         \/ owning' = owning
         \/ owning' = owning \cup {<<r, u>>} /\ <<r, u>> \notin Rows,
         call' \in [Workers -> Calls], CallsKept', UnlinksStay, begun' \in Nat,
         UNCHANGED <<accounts, links, shared, circle>>
  PROVE  Inv'
  <1>1. /\ owner' = [owner EXCEPT ![r] = u] /\ active' \in SUBSET (active \cup {r})
        /\ had' = had \cup {<<r, u>>}
        /\ stray \subseteq stray' /\ stray' \subseteq stray \cup shared
    BY DEF BecomesOf
  <1>2. TypeOK'  BY <1>1 DEF Inv, TypeOK, accounts, Rows
  <1>3. CircleOK'  BY DEF Inv, CircleOK
  <1>4. SharersConnected'  BY <1>1 DEF Inv, SharersConnected
  <1>5. SubsOK'
    <2>1. u # None  BY LinkConstants
    <2>2. \A a \in Subs : owner'[a] = IF a = r THEN u ELSE owner[a]
      BY <1>1 DEF Inv, TypeOK
    <2>3. Rows \subseteq Subs \X Users /\ Rows' \subseteq Rows \cup {<<r, u>>}
      BY DEF Inv, TypeOK, Rows
    <2>4. \A s \in Rows' : owner'[s[1]] # None
      BY <2>1, <2>2, <2>3 DEF Inv, SubsOK
    <2>5. \A a \in Subs : owner'[a] # None => <<a, owner'[a]>> \in had'
      BY <1>1, <2>2 DEF Inv, SubsOK
    <2>6. owning' \subseteq had'  BY <1>1 DEF Inv, SubsOK
    <2>7. QED  BY <2>4, <2>5, <2>6 DEF SubsOK
  <1>6. Expected'
    <2>1. SUFFICES ASSUME NEW s \in shared
                   PROVE  \/ Linked(owner'[s[1]], s[2]) \/ s \in stray'
                          \/ \E g \in Workers : Takes(call[g], s)'
      BY DEF Expected, Linked
    <2>2. s[1] \in Subs  BY DEF Inv, TypeOK
    <2>3. CASE s[1] # r \/ owner[r] = u
      <3>1. owner'[s[1]] = owner[s[1]]  BY <1>1, <2>2, <2>3 DEF Inv, TypeOK
      <3>2. QED  BY <1>1, <3>1, TakenStill DEF Inv, Expected
    <2>4. CASE s[1] = r /\ owner[r] # u
      <3>1. owner'[r] = u  BY <1>1 DEF Inv, TypeOK
      <3>2. Linked(u, s[2]) \/ s \in stray'  BY <2>4 DEF BecomesOf
      <3>3. QED  BY <2>4, <3>1, <3>2
    <2>5. QED  BY <2>3, <2>4
  <1>7. QED  BY <1>2, <1>3, <1>4, <1>5, <1>6 DEF Inv

-----------------------------------------------------------------------------
(* linkProvider                                                            *)

LEMMA LinkBeginKeepsInv ==
  ASSUME Inv, NEW w \in Workers, NEW u \in Users, NEW p \in Providers, LinkBegin(w, u, p)
  PROVE  Inv'
  <1>1. PICK x \in Calls : /\ x = [NoCall EXCEPT !.at = "seek", !.user = u, !.target = p]
                           /\ x.at = "seek" /\ x.user = u /\ x.sub = None
    <2>1. [NoCall EXCEPT !.at = "seek", !.user = u, !.target = p] \in Calls
          /\ [NoCall EXCEPT !.at = "seek", !.user = u, !.target = p].at = "seek"
          /\ [NoCall EXCEPT !.at = "seek", !.user = u, !.target = p].user = u
          /\ [NoCall EXCEPT !.at = "seek", !.user = u, !.target = p].sub = None
      BY NoCallKept DEF Calls, NoCall
    <2>2. QED  BY <2>1
  <1>2. CallKept(x)'  BY <1>1 DEF CallKept
  <1>3. begun' \in Nat  BY DEF LinkBegin, Starts, Inv, TypeOK
  <1>4. call' = [call EXCEPT ![w] = x] /\ call[w].at = "idle"
    BY <1>1 DEF LinkBegin, Starts
  <1>5. QED
    BY <1>2, <1>3, <1>4, MoveKeepsInv DEF LinkBegin, Unlinking, accounts, Inv, TypeOK

LEMMA LinkSeekKeepsInv ==
  ASSUME Inv, NEW w \in Workers, NEW v \in Users, LinkSeek(w, v)
  PROVE  Inv'
  <1>1. PICK y \in Calls : y = call[w] /\ y.at = "seek" /\ y.user \in Users /\ y.sub = None
    BY Place DEF LinkSeek, CallKept
  <1>2. \/ call' = [call EXCEPT ![w] = [y EXCEPT !.at = "keep", !.other = v]]
        \/ call' = [call EXCEPT ![w] = [y EXCEPT !.at = "change", !.other = v]]
    BY <1>1 DEF LinkSeek, Inv, TypeOK
  <1>3. PICK x \in Calls : /\ x.at \in {"keep", "change"} /\ x.user = y.user /\ x.other = v
                           /\ x.sub = y.sub /\ call' = [call EXCEPT ![w] = x]
    <2>1. [y EXCEPT !.at = "keep", !.other = v] \in Calls
          /\ [y EXCEPT !.at = "change", !.other = v] \in Calls
      BY DEF Calls
    <2>2. QED  BY <1>2, <2>1 DEF Calls
  <1>4. CallKept(x)'  BY <1>1, <1>3 DEF CallKept
  <1>5. QED
    BY <1>1, <1>3, <1>4, MoveKeepsInv DEF LinkSeek, Unlinking, accounts, Inv, TypeOK

LEMMA LinkLookKeepsInv ==
  ASSUME Inv, NEW w \in Workers, LinkLook(w)
  PROVE  Inv'
  <1>1. PICK y \in Calls : /\ y = call[w] /\ y.at \in {"keep", "change"} /\ y.sub = None
                           /\ y.user \in Users /\ y.other \in Users
    BY Place DEF LinkLook, CallKept
  <1>2. CASE End(w)  BY <1>1, <1>2, EndKeepsInv DEF LinkLook, Unlinking
  <1>3. CASE ~End(w)
    <2>1. \/ call' = [call EXCEPT ![w] = [y EXCEPT !.at = "mine", !.target = "google"]]
          \/ call' = [call EXCEPT ![w] = [y EXCEPT !.at = "identify"]]
      BY <1>1, <1>3 DEF LinkLook, GoShare, Goto, Inv, TypeOK
    <2>2. PICK x \in Calls : /\ x.at \in {"mine", "identify"} /\ x.user = y.user
                             /\ x.other = y.other /\ x.sub = y.sub
                             /\ call' = [call EXCEPT ![w] = x]
      <3>1. [y EXCEPT !.at = "mine", !.target = "google"] \in Calls
            /\ [y EXCEPT !.at = "identify"] \in Calls
        BY DEF Calls, Providers
      <3>2. QED  BY <2>1, <3>1 DEF Calls
    <2>3. CallKept(x)'  BY <1>1, <2>2 DEF CallKept
    <2>4. QED
      BY <1>1, <2>2, <2>3, MoveKeepsInv DEF LinkLook, Unlinking, accounts, Inv, TypeOK
  <1>4. QED  BY <1>2, <1>3

LEMMA LinkIdentifyKeepsInv ==
  ASSUME Inv, NEW w \in Workers, LinkIdentify(w)
  PROVE  Inv'
  <1>1. PICK y \in Calls : /\ y = call[w] /\ y.at = "identify" /\ y.user \in Users
                           /\ y.other \in Users /\ y.sub = None
    BY Place DEF LinkIdentify, CallKept
  <1>2. CASE y.other \notin live
    BY <1>1, <1>2, EndKeepsInv DEF LinkIdentify, Unlinking, accounts
  <1>3. CASE y.other \in live
    <2>1. /\ provider' = [provider EXCEPT ![y.other] = y.target]
          /\ appleId' = IF y.target = "apple" THEN appleId \cup {y.other} ELSE appleId
          /\ call' = [call EXCEPT ![w] = [y EXCEPT !.at = "mine", !.target = "google"]]
      BY <1>1, <1>3 DEF LinkIdentify, GoShare, NewProvider, Inv, TypeOK
    <2>2. provider' \in [Users -> Providers] /\ appleId' \in SUBSET Users
      BY <1>1, <2>1 DEF Inv, TypeOK, Calls
    <2>3. PICK x \in Calls : /\ x.at = "mine" /\ x.user = y.user /\ x.other = y.other
                             /\ x.sub = y.sub /\ call' = [call EXCEPT ![w] = x]
      <3>1. [y EXCEPT !.at = "mine", !.target = "google"] \in Calls  BY DEF Calls, Providers
      <3>2. QED  BY <2>1, <3>1 DEF Calls
    <2>4. CallKept(x)'  BY <1>1, <2>3 DEF CallKept
    <2>5. QED
      BY <1>1, <2>2, <2>3, <2>4, MoveKeepsInv DEF LinkIdentify, Unlinking, Inv, TypeOK
  <1>4. QED  BY <1>2, <1>3

\* An active subscription of account u reaches it.
LEMMA ActiveReaches ==
  ASSUME Inv, NEW u \in Users, NEW r \in Active(u), r # None
  PROVE  r \in Subs /\ Reach(r, u)
  <1>1. r \in Subs /\ (owner[r] = u \/ <<r, u>> \in Rows)
    BY DEF Active, Inv, TypeOK
  <1>2. CASE owner[r] = u
    BY <1>1, <1>2, LinkConstants DEF Inv, SubsOK, CircleOK, Reach
  <1>3. CASE <<r, u>> \in owning  BY <1>1, <1>3 DEF Inv, SubsOK, CircleOK, Reach
  <1>4. CASE <<r, u>> \in shared  BY <1>1, <1>4 DEF Inv, SharersConnected, Reach
  <1>5. QED  BY <1>1, <1>2, <1>3, <1>4 DEF Rows

LEMMA LinkMineKeepsInv ==
  ASSUME Inv, NEW w \in Workers, LinkMine(w)
  PROVE  Inv'
  <1>1. PICK y \in Calls : /\ y = call[w] /\ y.at = "mine" /\ y.user \in Users
                           /\ y.other \in Users /\ y.sub = None
    BY Place DEF LinkMine, CallKept
  <1>2. PICK r \in Active(y.user) :
          IF r = None THEN Goto(w, "theirs")
          ELSE call' = [call EXCEPT ![w].at = "theirs", ![w].sub = r, ![w].to = Receiver(w, r)]
    BY <1>1 DEF LinkMine
  <1>3. PICK x \in Calls : call' = [call EXCEPT ![w] = x] /\ CallKept(x)'
    <2>1. CASE r = None
      <3>1. call' = [call EXCEPT ![w] = [y EXCEPT !.at = "theirs"]]
        BY <1>1, <1>2, <2>1 DEF Goto, Inv, TypeOK
      <3>2. PICK x \in Calls : /\ x.at = "theirs" /\ x.user = y.user /\ x.other = y.other
                               /\ x.sub = y.sub /\ x.to = y.to /\ call' = [call EXCEPT ![w] = x]
        <4>1. [y EXCEPT !.at = "theirs"] \in Calls  BY DEF Calls
        <4>2. QED  BY <3>1, <4>1 DEF Calls
      <3>3. QED  BY <1>1, <3>2 DEF CallKept
    <2>2. CASE r # None
      <3>1. r \in Subs /\ Reach(r, y.user)  BY <1>1, <2>2, ActiveReaches
      <3>2. PICK t \in {y.user, y.other} : t = Receiver(w, r)  BY <1>1 DEF Receiver
      <3>3. call' = [call EXCEPT ![w] = [y EXCEPT !.at = "theirs", !.sub = r, !.to = t]]
        BY <1>1, <1>2, <2>2, <3>2 DEF Inv, TypeOK
      <3>4. PICK x \in Calls : /\ x.at = "theirs" /\ x.user = y.user /\ x.other = y.other
                               /\ x.sub = r /\ x.to = t /\ call' = [call EXCEPT ![w] = x]
        <4>1. [y EXCEPT !.at = "theirs", !.sub = r, !.to = t] \in Calls
          BY <1>1, <3>1 DEF Calls
        <4>2. QED  BY <3>3, <4>1 DEF Calls
      <3>5. Reach(r, y.user)'  BY <3>1 DEF Reach, LinkMine, history, subs
      <3>6. QED  BY <1>1, <3>4, <3>5 DEF CallKept
    <2>3. QED  BY <2>1, <2>2
  <1>4. QED  BY <1>1, <1>3, MoveKeepsInv DEF LinkMine, Unlinking, accounts, Inv, TypeOK

LEMMA LinkTheirsKeepsInv ==
  ASSUME Inv, NEW w \in Workers, LinkTheirs(w)
  PROVE  Inv'
  <1>1. PICK y \in Calls : /\ y = call[w] /\ y.at = "theirs" /\ y.user \in Users
                           /\ y.other \in Users /\ CallKept(y)
    BY Place DEF LinkTheirs, CallKept
  <1>2. CASE End(w)  BY <1>1, <1>2, EndKeepsInv DEF LinkTheirs, Unlinking
  <1>3. CASE ~End(w)
    <2>1. PICK r \in Active(y.other) :
            IF r = None THEN Goto(w, "store")
            ELSE call' = [call EXCEPT ![w].at = "store", ![w].sub = r, ![w].to = Receiver(w, r)]
      BY <1>1, <1>3 DEF LinkTheirs
    <2>2. PICK x \in Calls : call' = [call EXCEPT ![w] = x] /\ CallKept(x)'
      <3>1. CASE r = None
        <4>1. call' = [call EXCEPT ![w] = [y EXCEPT !.at = "store"]]
          BY <1>1, <2>1, <3>1 DEF Goto, Inv, TypeOK
        <4>2. PICK x \in Calls : /\ x.at = "store" /\ x.user = y.user /\ x.other = y.other
                                 /\ x.sub = y.sub /\ x.to = y.to /\ call' = [call EXCEPT ![w] = x]
          <5>1. [y EXCEPT !.at = "store"] \in Calls  BY DEF Calls
          <5>2. QED  BY <4>1, <5>1 DEF Calls
        <4>3. CallKept(x)  BY <1>1, <4>2 DEF CallKept
        <4>4. QED  BY <4>2, <4>3, KeptStays DEF LinkTheirs, history, subs
      <3>2. CASE r # None
        <4>1. r \in Subs /\ Reach(r, y.other)  BY <1>1, <3>2, ActiveReaches
        <4>2. PICK t \in {y.user, y.other} : t = Receiver(w, r)  BY <1>1 DEF Receiver
        <4>3. call' = [call EXCEPT ![w] = [y EXCEPT !.at = "store", !.sub = r, !.to = t]]
          BY <1>1, <2>1, <3>2, <4>2 DEF Inv, TypeOK
        <4>4. PICK x \in Calls : /\ x.at = "store" /\ x.user = y.user /\ x.other = y.other
                                 /\ x.sub = r /\ x.to = t /\ call' = [call EXCEPT ![w] = x]
          <5>1. [y EXCEPT !.at = "store", !.sub = r, !.to = t] \in Calls
            BY <1>1, <4>1 DEF Calls
          <5>2. QED  BY <4>3, <5>1 DEF Calls
        <4>5. Reach(r, y.other)'  BY <4>1 DEF Reach, LinkTheirs, history, subs
        <4>6. QED  BY <1>1, <4>4, <4>5 DEF CallKept
      <3>3. QED  BY <3>1, <3>2
    <2>3. QED  BY <1>1, <2>2, MoveKeepsInv DEF LinkTheirs, Unlinking, accounts, Inv, TypeOK
  <1>4. QED  BY <1>2, <1>3

\* A link makes one circle of two.
LEMMA JoinedIsCircle ==
  ASSUME Inv, NEW u \in Users, NEW v \in Users,
         circle' = Joined(u, v), links' = links \cup {<<u, v>>}
  PROVE  /\ circle \subseteq circle' /\ circle' \subseteq Users \X Users
         /\ CircleOK' /\ <<u, v>> \in circle'
  <1>1. circle \subseteq Users \X Users /\ CircleOK  BY DEF Inv, TypeOK
  <1>2. circle \subseteq circle' /\ circle' \subseteq Users \X Users
    BY <1>1 DEF Joined
  <1>3. \A a, b \in Users : <<a, b>> \in circle' <=>
          \/ <<a, b>> \in circle
          \/ <<a, u>> \in circle /\ <<v, b>> \in circle
          \/ <<a, v>> \in circle /\ <<u, b>> \in circle
    BY DEF Joined
  <1>4. <<u, v>> \in circle'  BY <1>1, <1>3 DEF CircleOK
  <1>5. links' \subseteq circle'  BY <1>1, <1>2, <1>4 DEF CircleOK
  <1>6. \A a \in Users : <<a, a>> \in circle'  BY <1>1, <1>3 DEF CircleOK
  <1>7. \A a, b \in Users : <<a, b>> \in circle' => <<b, a>> \in circle'
    BY <1>1, <1>3 DEF CircleOK
  <1>8. \A a, b, c \in Users : <<a, b>> \in circle' /\ <<b, c>> \in circle' => <<a, c>> \in circle'
    BY <1>1, <1>3 DEF CircleOK
  <1>9. QED  BY <1>2, <1>4, <1>5, <1>6, <1>7, <1>8 DEF CircleOK

LEMMA LinkStoreKeepsInv ==
  ASSUME Inv, NEW w \in Workers, LinkStore(w)
  PROVE  Inv'
  <1>1. PICK y \in Calls : /\ y = call[w] /\ y.at = "store" /\ y.user \in Users
                           /\ y.other \in Users /\ CallKept(y)
    BY Place DEF LinkStore, CallKept
  <1>2. CASE ~(y.user \in live /\ y.other \in live)
    BY <1>1, <1>2, EndKeepsInv DEF LinkStore, Unlinking, history
  <1>3. CASE y.user \in live /\ y.other \in live
    <2>1. /\ links' = links \cup {<<y.user, y.other>>} /\ circle' = Joined(y.user, y.other)
          /\ UNCHANGED <<begun, accounts, subs, shared, stray>>
      BY <1>1, <1>3 DEF LinkStore
    <2>2. /\ circle \subseteq circle' /\ circle' \subseteq Users \X Users
          /\ CircleOK' /\ <<y.user, y.other>> \in circle'
      BY <1>1, <2>1, JoinedIsCircle
    <2>3. PICK x \in Calls : CallKept(x)' /\ call' = [call EXCEPT ![w] = x]
      <3>1. CASE y.sub = None
        BY <1>1, <1>3, <3>1, NoCallKept DEF LinkStore, End
      <3>2. CASE y.sub # None
        <4>1. call' = [call EXCEPT ![w] = [y EXCEPT !.at = "share"]]
          BY <1>1, <1>3, <3>2 DEF LinkStore, Goto, Inv, TypeOK
        <4>2. PICK x \in Calls : /\ x.at = "share" /\ x.user = y.user /\ x.other = y.other
                                 /\ x.sub = y.sub /\ x.to = y.to /\ call' = [call EXCEPT ![w] = x]
          <5>1. [y EXCEPT !.at = "share"] \in Calls  BY DEF Calls
          <5>2. QED  BY <4>1, <5>1 DEF Calls
        <4>3. CallKept(y)'  BY <1>1, <2>1, <2>2, KeptStays DEF subs
        <4>4. CallKept(x)'  BY <1>1, <2>2, <3>2, <4>2, <4>3 DEF CallKept
        <4>5. QED  BY <4>2, <4>4
      <3>3. QED  BY <3>1, <3>2
    <2>4. call' \in [Workers -> Calls] /\ CallsKept' /\ UnlinksStay
      BY <1>1, <2>1, <2>2, <2>3, CallMoves, OthersUnlink DEF subs, Unlinking
    <2>5. TypeOK'  BY <1>1, <2>1, <2>2, <2>4 DEF Inv, TypeOK, accounts, subs
    <2>6. SharersConnected' /\ SubsOK'
      BY <2>1, <2>2 DEF Inv, SharersConnected, SubsOK, Rows, subs
    <2>7. Expected'
      <3>1. SUFFICES ASSUME NEW s \in shared
                     PROVE  \/ Linked(owner[s[1]], s[2])' \/ s \in stray
                            \/ \E g \in Workers : Takes(call[g], s)'
        BY <2>1 DEF Expected, Linked, subs
      <3>2. Linked(owner[s[1]], s[2]) => Linked(owner[s[1]], s[2])'
        BY <2>1 DEF Linked, subs
      <3>3. QED  BY <2>1, <2>4, <3>2, TakenStill DEF Inv, Expected, subs
    <2>8. QED  BY <2>2, <2>4, <2>5, <2>6, <2>7 DEF Inv
  <1>4. QED  BY <1>2, <1>3

LEMMA LinkShareKeepsInv ==
  ASSUME Inv, NEW w \in Workers, LinkShare(w)
  PROVE  Inv'
  <1>1. PICK y \in Calls : /\ y = call[w] /\ y.at = "share" /\ y.user \in Users
                           /\ y.other \in Users /\ y.sub \in Subs /\ CallKept(y)
    BY Place DEF LinkShare, CallKept, Calls
  <1>2. PICK z \in Users : z = y.to /\ Reach(y.sub, z)
    <2>1. y.to \in {y.user, y.other} /\ (Reach(y.sub, y.user) \/ Reach(y.sub, y.other))
          /\ <<y.user, y.other>> \in circle
      BY <1>1, LinkConstants DEF CallKept
    <2>2. Reach(y.sub, y.user) /\ Reach(y.sub, y.other)
      BY <1>1, <2>1 DEF Reach, Inv, CircleOK
    <2>3. QED  BY <1>1, <2>1, <2>2
  <1>3. CASE Storable(y.sub, z)
    BY <1>1, <1>2, <1>3, NoCallKept, GrantKeepsInv DEF LinkShare, End, Unlinking
  <1>4. CASE ~Storable(y.sub, z)
    BY <1>1, <1>2, <1>4, EndKeepsInv DEF LinkShare, Unlinking
  <1>5. QED  BY <1>3, <1>4

-----------------------------------------------------------------------------
(* unlinkProvider                                                          *)

LEMMA UnlinkBeginKeepsInv ==
  ASSUME Inv, NEW w \in Workers, NEW u \in Users, NEW v \in Users, NEW p \in Providers,
         UnlinkBegin(w, u, v, p)
  PROVE  Inv'
  <1>1. PICK a \in Users, b \in Users :
          call' = [call EXCEPT ![w] = [NoCall EXCEPT !.at = "unlink", !.user = a, !.other = b]]
    <2>1. PICK l \in {<<u, v>>, <<v, u>>} :
            call' = [call EXCEPT ![w] = [NoCall EXCEPT !.at = "unlink", !.user = l[1], !.other = l[2]]]
      BY DEF UnlinkBegin, Starts
    <2>2. l[1] \in Users /\ l[2] \in Users  BY <2>1
    <2>3. QED  BY <2>1, <2>2
  <1>2. PICK x \in Calls : /\ x.at = "unlink" /\ x.user = a /\ x.other = b
                           /\ call' = [call EXCEPT ![w] = x]
    <2>1. [NoCall EXCEPT !.at = "unlink", !.user = a, !.other = b] \in Calls
          /\ [NoCall EXCEPT !.at = "unlink", !.user = a, !.other = b].at = "unlink"
          /\ [NoCall EXCEPT !.at = "unlink", !.user = a, !.other = b].user = a
          /\ [NoCall EXCEPT !.at = "unlink", !.user = a, !.other = b].other = b
      BY NoCallKept DEF Calls
    <2>2. QED  BY <1>1, <2>1
  <1>3. CallKept(x)'  BY <1>2 DEF CallKept
  <1>4. begun' \in Nat /\ call[w].at = "idle"  BY DEF UnlinkBegin, Starts, Inv, TypeOK
  <1>5. QED
    BY <1>2, <1>3, <1>4, MoveKeepsInv DEF UnlinkBegin, Unlinking, accounts, Inv, TypeOK

\* The deleted link leaves its rows to this call.
LEMMA UnlinkDeleteKeepsInv ==
  ASSUME Inv, NEW w \in Workers, UnlinkDelete(w)
  PROVE  Inv'
  <1>1. PICK y \in Calls : /\ y = call[w] /\ y.at = "unlink" /\ y.user \in Users
                           /\ y.other \in Users
    BY Place DEF UnlinkDelete, CallKept
  <1>2. CASE <<y.user, y.other>> \notin links
    BY <1>1, <1>2, EndKeepsInv DEF UnlinkDelete, Unlinking
  <1>3. CASE <<y.user, y.other>> \in links
    <2>1. /\ links' = links \ {<<y.user, y.other>>}
          /\ call' = [call EXCEPT ![w] = [y EXCEPT !.at = "owned"]]
          /\ UNCHANGED <<begun, accounts, subs, shared, history>>
      BY <1>1, <1>3 DEF UnlinkDelete, Goto, Inv, TypeOK
    <2>2. PICK x \in Calls : /\ x.at = "owned" /\ x.user = y.user /\ x.other = y.other
                             /\ call' = [call EXCEPT ![w] = x]
      <3>1. [y EXCEPT !.at = "owned"] \in Calls  BY DEF Calls
      <3>2. QED  BY <2>1, <3>1 DEF Calls
    <2>3. CallKept(x)'  BY <1>1, <2>2 DEF CallKept
    <2>4. call' \in [Workers -> Calls] /\ CallsKept' /\ call'[w] = x
      BY <2>1, <2>2, <2>3, CallMoves DEF history, subs
    <2>5. TypeOK'  BY <2>1, <2>4 DEF Inv, TypeOK, accounts, history, subs
    <2>6. CircleOK' /\ SharersConnected' /\ SubsOK'
      BY <2>1 DEF Inv, CircleOK, SharersConnected, SubsOK, Rows, history, subs
    <2>7. Expected'
      <3>1. SUFFICES ASSUME NEW s \in shared
                     PROVE  \/ Linked(owner[s[1]], s[2])' \/ s \in stray
                            \/ \E g \in Workers : Takes(call[g], s)'
        BY <2>1 DEF Expected, history
      <3>2. CASE Linked(owner[s[1]], s[2])
        <4>1. CASE Linked(owner[s[1]], s[2])'  BY <4>1
        <4>2. CASE ~Linked(owner[s[1]], s[2])'
          <5>1. {owner[s[1]], s[2]} \subseteq {y.user, y.other}
            BY <2>1, <3>2, <4>2 DEF Linked, subs
          <5>2. Takes(call[w], s)'  BY <2>1, <2>2, <2>4, <5>1 DEF Takes, subs
          <5>3. QED  BY <5>2
        <4>3. QED  BY <4>1, <4>2
      <3>3. CASE ~Linked(owner[s[1]], s[2])
        <4>1. UnlinksStay  BY <1>1, <2>2, OthersUnlink DEF Unlinking
        <4>2. QED  BY <2>1, <3>3, <4>1, TakenStill DEF Inv, Expected, subs
      <3>4. QED  BY <3>2, <3>3
    <2>8. QED  BY <2>4, <2>5, <2>6, <2>7 DEF Inv
  <1>4. QED  BY <1>2, <1>3

\* What is about to be taken belongs to a subscription that is read.
LEMMA UnlinkReadKeepsInv ==
  ASSUME Inv, NEW w \in Workers, UnlinkRead(w)
  PROVE  Inv'
  <1>1. PICK y \in Calls : /\ y = call[w] /\ y.at = "owned" /\ y.user \in Users
                           /\ y.other \in Users
    BY Place DEF UnlinkRead, CallKept
  <1>2. OwnedSubs(w) \subseteq Subs
        /\ OwnedSubs(w) = {r \in Subs : owner[r] \in {y.user, y.other}}
    BY <1>1 DEF OwnedSubs, Pair
  <1>3. PICK x \in Calls : /\ CallKept(x)' /\ call' = [call EXCEPT ![w] = x]
                           /\ \/ x.at = "drop" /\ x.user = y.user /\ x.other = y.other
                                 /\ x.drop = OwnedSubs(w)
                              \/ OwnedSubs(w) = {}
    <2>1. CASE OwnedSubs(w) = {}
      BY <2>1, NoCallKept DEF UnlinkRead, End
    <2>2. CASE OwnedSubs(w) # {}
      <3>1. call' = [call EXCEPT ![w] = [y EXCEPT !.at = "drop", !.drop = OwnedSubs(w)]]
        BY <1>1, <2>2 DEF UnlinkRead, Inv, TypeOK
      <3>2. PICK x \in Calls : /\ x.at = "drop" /\ x.user = y.user /\ x.other = y.other
                               /\ x.drop = OwnedSubs(w) /\ call' = [call EXCEPT ![w] = x]
        <4>1. [y EXCEPT !.at = "drop", !.drop = OwnedSubs(w)] \in Calls  BY <1>2 DEF Calls
        <4>2. QED  BY <3>1, <4>1 DEF Calls
      <3>3. CallKept(x)'  BY <1>1, <3>2 DEF CallKept
      <3>4. QED  BY <3>2, <3>3
    <2>3. QED  BY <2>1, <2>2
  <1>4. UNCHANGED <<begun, accounts, links, subs, shared, history>>  BY DEF UnlinkRead
  <1>5. /\ call' \in [Workers -> Calls] /\ CallsKept'
        /\ \A g \in Workers : call'[g] = IF g = w THEN x ELSE call[g]
    BY <1>3, <1>4, CallMoves DEF history, subs
  <1>6. TypeOK'  BY <1>4, <1>5 DEF Inv, TypeOK, accounts, history, subs
  <1>7. CircleOK' /\ SharersConnected' /\ SubsOK'
    BY <1>4 DEF Inv, CircleOK, SharersConnected, SubsOK, Rows, history, subs
  <1>8. Expected'
    <2>1. SUFFICES ASSUME NEW s \in shared
                   PROVE  \/ Linked(owner[s[1]], s[2]) \/ s \in stray
                          \/ \E g \in Workers : Takes(call[g], s)'
      BY <1>4 DEF Expected, history, subs, Linked
    <2>2. ASSUME NEW g \in Workers, Takes(call[g], s) PROVE Takes(call[g], s)'
      <3>1. CASE g # w  BY <1>4, <1>5, <2>2, <3>1 DEF Takes, subs
      <3>2. CASE g = w
        <4>1. {owner[s[1]], s[2]} \subseteq {y.user, y.other} /\ s[1] \in Subs
          BY <1>1, <2>2, <3>2 DEF Takes, Inv, TypeOK
        <4>2. s[1] \in OwnedSubs(w)  BY <1>2, <4>1
        <4>3. QED  BY <1>3, <1>4, <1>5, <3>2, <4>1, <4>2 DEF Takes, subs
      <3>3. QED  BY <3>1, <3>2
    <2>3. QED  BY <2>2 DEF Inv, Expected
  <1>9. QED  BY <1>5, <1>6, <1>7, <1>8 DEF Inv

LEMMA UnlinkDropKeepsInv ==
  ASSUME Inv, NEW w \in Workers, UnlinkDrop(w)
  PROVE  Inv'
  <1>1. PICK y \in Calls : y = call[w] /\ y.at = "drop"  BY Place DEF UnlinkDrop
  <1>2. /\ shared' = shared \ (y.drop \X {y.user, y.other}) /\ stray' = stray \cap shared'
        /\ UNCHANGED <<begun, accounts, links, subs, circle>>
    BY <1>1 DEF UnlinkDrop, Pair
  <1>3. /\ call' \in [Workers -> Calls] /\ CallsKept'
        /\ \A g \in Workers : call'[g] = IF g = w THEN NoCall ELSE call[g]
    BY <1>2, NoCallKept, CallMoves DEF UnlinkDrop, End, subs
  <1>4. TypeOK'  BY <1>2, <1>3 DEF Inv, TypeOK, accounts, subs
  <1>5. CircleOK' /\ SharersConnected' /\ SubsOK'
    BY <1>2 DEF Inv, CircleOK, SharersConnected, SubsOK, Rows, subs
  <1>6. Expected'
    <2>1. SUFFICES ASSUME NEW s \in shared'
                   PROVE  \/ Linked(owner[s[1]], s[2]) \/ s \in stray'
                          \/ \E g \in Workers : Takes(call[g], s)'
      BY <1>2 DEF Expected, Linked, subs
    <2>2. s \in shared /\ s \notin y.drop \X {y.user, y.other} /\ s \in Subs \X Users
      BY <1>2 DEF Inv, TypeOK
    <2>3. ASSUME NEW g \in Workers, Takes(call[g], s) PROVE Takes(call[g], s)'
      <3>1. g # w  BY <1>1, <2>2, <2>3 DEF Takes
      <3>2. QED  BY <1>2, <1>3, <2>3, <3>1 DEF Takes, subs
    <2>4. QED  BY <1>2, <2>2, <2>3 DEF Inv, Expected
  <1>7. QED  BY <1>3, <1>4, <1>5, <1>6 DEF Inv

-----------------------------------------------------------------------------
(* Payments and deletions                                                  *)

\* What a call that begins knows of its account and its subscription.
LEMMA PaysKept ==
  ASSUME Inv, NEW w \in Workers, NEW u \in Users, NEW r \in Subs, NEW a \in {"owner", "links"},
         Starts(w, [NoCall EXCEPT !.at = a, !.user = u, !.sub = r]),
         Reach(r, u)', a = "owner" => <<r, u>> \in had',
         had \subseteq had', circle \subseteq circle'
  PROVE  /\ call' \in [Workers -> Calls] /\ CallsKept' /\ UnlinksStay /\ begun' \in Nat
         /\ \E x \in Calls : CallKept(x)' /\ call' = [call EXCEPT ![w] = x]
         /\ call[w].at \notin Unlinking
  <1>1. PICK x \in Calls : /\ x = [NoCall EXCEPT !.at = a, !.user = u, !.sub = r]
                           /\ x.at = a /\ x.user = u /\ x.sub = r
    <2>1. [NoCall EXCEPT !.at = a, !.user = u, !.sub = r] \in Calls
          /\ [NoCall EXCEPT !.at = a, !.user = u, !.sub = r].at = a
          /\ [NoCall EXCEPT !.at = a, !.user = u, !.sub = r].user = u
          /\ [NoCall EXCEPT !.at = a, !.user = u, !.sub = r].sub = r
      BY NoCallKept DEF Calls
    <2>2. QED  BY <2>1
  <1>2. CallKept(x)'  BY <1>1 DEF CallKept
  <1>3. call' = [call EXCEPT ![w] = x] /\ call[w].at = "idle"  BY <1>1 DEF Starts
  <1>4. begun' \in Nat  BY DEF Starts, Inv, TypeOK
  <1>5. QED  BY <1>2, <1>3, <1>4, CallMoves, OthersUnlink DEF Unlinking

LEMMA PayKeepsInv ==
  ASSUME Inv, NEW w \in Workers, NEW u \in Users, NEW r \in Subs, Pay(w, u, r)
  PROVE  Inv'
  <1>1. had' = had \cup {<<r, u>>} /\ circle' = circle  BY DEF Pay, BecomesOf
  <1>2. Reach(r, u)'  BY <1>1 DEF Reach, Inv, CircleOK
  <1>3. call' \in [Workers -> Calls] /\ CallsKept' /\ UnlinksStay /\ begun' \in Nat
    BY <1>1, <1>2, PaysKept DEF Pay
  <1>4. QED  BY <1>3, BecomesKeepsInv DEF Pay

\* An OWNER row is of an account that owned the subscription.
LEMMA PayOwnerKeepsInv ==
  ASSUME Inv, NEW w \in Workers, PayOwner(w)
  PROVE  Inv'
  <1>1. PICK y \in Calls : /\ y = call[w] /\ y.at = "owner" /\ y.user \in Users
                           /\ y.sub \in Subs /\ CallKept(y)
    BY Place DEF PayOwner, CallKept
  <1>2. /\ owning' = IF Storable(y.sub, y.user) THEN owning \cup {<<y.sub, y.user>>} ELSE owning
        /\ UNCHANGED <<begun, accounts, links, owner, active, had, shared, history>>
        /\ Goto(w, "links") \/ End(w)
    BY <1>1 DEF PayOwner
  <1>3. PICK x \in Calls : CallKept(x)' /\ call' = [call EXCEPT ![w] = x]
    <2>1. CASE End(w)  BY <2>1, NoCallKept DEF End
    <2>2. CASE Goto(w, "links")
      <3>1. call' = [call EXCEPT ![w] = [y EXCEPT !.at = "links"]]
        BY <1>1, <2>2 DEF Goto, Inv, TypeOK
      <3>2. PICK x \in Calls : /\ x.at = "links" /\ x.user = y.user /\ x.sub = y.sub
                               /\ call' = [call EXCEPT ![w] = x]
        <4>1. [y EXCEPT !.at = "links"] \in Calls  BY DEF Calls
        <4>2. QED  BY <3>1, <4>1 DEF Calls
      <3>3. CallKept(y)'  BY <1>1, <1>2, KeptStays DEF history
      <3>4. QED  BY <1>1, <3>2, <3>3 DEF CallKept
    <2>3. QED  BY <1>2, <2>1, <2>2
  <1>4. call' \in [Workers -> Calls] /\ CallsKept' /\ UnlinksStay
    BY <1>1, <1>2, <1>3, CallMoves, OthersUnlink DEF Unlinking, history
  <1>5. \/ owning' = owning
        \/ /\ owning' = owning \cup {<<y.sub, y.user>>} /\ <<y.sub, y.user>> \notin Rows
           /\ owner[y.sub] # None /\ <<y.sub, y.user>> \in had
    BY <1>1, <1>2 DEF Storable, CallKept
  <1>6. TypeOK'  BY <1>1, <1>2, <1>4, <1>5 DEF Inv, TypeOK, accounts, history, Rows
  <1>7. CircleOK' /\ SharersConnected'
    BY <1>2 DEF Inv, CircleOK, SharersConnected, history
  <1>8. SubsOK'  BY <1>2, <1>5 DEF Inv, SubsOK, Rows
  <1>9. Expected'
    <2>1. SUFFICES ASSUME NEW s \in shared
                   PROVE  \/ Linked(owner[s[1]], s[2]) \/ s \in stray
                          \/ \E g \in Workers : Takes(call[g], s)'
      BY <1>2 DEF Expected, Linked, history
    <2>2. QED  BY <1>2, <1>4, TakenStill DEF Inv, Expected
  <1>10. QED  BY <1>4, <1>6, <1>7, <1>8, <1>9 DEF Inv

\* A move; a row that is there already leaves all but the call.
LEMMA LinkPurchaseKeepsInv ==
  ASSUME Inv, NEW w \in Workers, NEW u \in Users, NEW r \in Subs, LinkPurchase(w, u, r)
  PROVE  Inv'
  <1>1. CASE <<r, u>> \in Rows
    <2>1. UNCHANGED <<accounts, links, subs, shared, history>>
      BY <1>1 DEF LinkPurchase, history
    <2>2. Reach(r, u)
      BY <1>1 DEF Rows, Reach, Inv, SubsOK, SharersConnected, CircleOK
    <2>3. Reach(r, u)' /\ had \subseteq had' /\ circle \subseteq circle'
      BY <2>1, <2>2 DEF Reach, subs, history
    <2>4. /\ begun' \in Nat /\ call[w].at \notin Unlinking
          /\ \E x \in Calls : CallKept(x)' /\ call' = [call EXCEPT ![w] = x]
      BY <2>3, PaysKept DEF LinkPurchase
    <2>5. QED  BY <2>1, <2>4, MoveKeepsInv DEF accounts, Inv, TypeOK
  <1>2. CASE <<r, u>> \notin Rows
    <2>1. BecomesOf(r, u) /\ owning' = owning \cup {<<r, u>>} /\ circle' = circle
      BY <1>2 DEF LinkPurchase
    <2>2. had' = had \cup {<<r, u>>}  BY <2>1 DEF BecomesOf
    <2>3. Reach(r, u)'  BY <2>1, <2>2 DEF Reach, Inv, CircleOK
    <2>4. call' \in [Workers -> Calls] /\ CallsKept' /\ UnlinksStay /\ begun' \in Nat
      BY <2>1, <2>2, <2>3, PaysKept DEF LinkPurchase
    <2>5. QED  BY <1>2, <2>1, <2>4, BecomesKeepsInv DEF LinkPurchase
  <1>3. QED  BY <1>1, <1>2

LEMMA RestoreKeepsInv ==
  ASSUME Inv, NEW u \in Users, NEW r \in Subs, Restore(u, r)
  PROVE  Inv'
  <1>1. /\ BecomesOf(r, u)
        /\ UNCHANGED <<begun, accounts, links, owning, shared, call, circle>>
    BY DEF Restore
  <1>2. had \subseteq had'  BY <1>1 DEF BecomesOf
  <1>3. CallsKept'
    <2>1. SUFFICES ASSUME NEW g \in Workers PROVE CallKept(call[g])'  BY DEF CallsKept
    <2>2. PICK y \in Calls : y = call[g] /\ CallKept(y)  BY Place
    <2>3. CallKept(y)'  BY <1>1, <1>2, <2>2, KeptStays
    <2>4. QED  BY <1>1, <2>2, <2>3 DEF CallKept, Reach
  <1>4. call' \in [Workers -> Calls] /\ UnlinksStay /\ begun' \in Nat
    BY <1>1 DEF Inv, TypeOK, UnlinksStay
  <1>5. QED  BY <1>1, <1>3, <1>4, BecomesKeepsInv

LEMMA PayLinksKeepsInv ==
  ASSUME Inv, NEW w \in Workers, PayLinks(w)
  PROVE  Inv'
  <1>1. PICK y \in Calls : /\ y = call[w] /\ y.at = "links" /\ y.user \in Users
                           /\ y.sub \in Subs /\ CallKept(y)
    BY Place DEF PayLinks, CallKept
  <1>2. CASE LinkedWith(y.user) = {}
    BY <1>1, <1>2, EndKeepsInv DEF PayLinks, Unlinking
  <1>3. CASE LinkedWith(y.user) # {}
    <2>1. PICK t \in SUBSET Users : t = LinkedWith(y.user) /\ \A v \in t : <<y.user, v>> \in circle
      <3>1. ASSUME NEW v \in LinkedWith(y.user) PROVE <<y.user, v>> \in circle
        BY <1>1, LinkedAreConnected DEF LinkedWith
      <3>2. LinkedWith(y.user) \in SUBSET Users  BY DEF LinkedWith
      <3>3. QED  BY <3>1, <3>2
    <2>2. call' = [call EXCEPT ![w] = [y EXCEPT !.at = "grant", !.todo = t]]
      BY <1>1, <1>3, <2>1 DEF PayLinks, Inv, TypeOK
    <2>3. PICK x \in Calls : /\ x.at = "grant" /\ x.user = y.user /\ x.sub = y.sub
                             /\ x.todo = t /\ call' = [call EXCEPT ![w] = x]
      <3>1. [y EXCEPT !.at = "grant", !.todo = t] \in Calls  BY DEF Calls
      <3>2. QED  BY <2>2, <3>1 DEF Calls
    <2>4. CallKept(y)'  BY <1>1, KeptStays DEF PayLinks, history, subs
    <2>5. CallKept(x)'  BY <1>1, <2>1, <2>3, <2>4 DEF CallKept, PayLinks, history
    <2>6. QED
      BY <1>1, <2>3, <2>5, MoveKeepsInv DEF PayLinks, Unlinking, accounts, Inv, TypeOK
  <1>4. QED  BY <1>2, <1>3

LEMMA PayGrantKeepsInv ==
  ASSUME Inv, NEW w \in Workers, NEW v \in Users, PayGrant(w, v)
  PROVE  Inv'
  <1>1. PICK y \in Calls : /\ y = call[w] /\ y.at = "grant" /\ y.user \in Users
                           /\ y.sub \in Subs /\ v \in y.todo /\ CallKept(y)
    BY Place DEF PayGrant, CallKept
  <1>2. circle' = circle /\ had' = had  BY DEF PayGrant, Grant, history, subs
  <1>3. PICK x \in Calls : CallKept(x)' /\ call' = [call EXCEPT ![w] = x]
    <2>1. CASE End(w)  BY <2>1, NoCallKept DEF End
    <2>2. CASE ~End(w)
      <3>1. call' = [call EXCEPT ![w] = [y EXCEPT !.todo = y.todo \ {v}]]
        BY <1>1, <2>2 DEF PayGrant, Inv, TypeOK
      <3>2. PICK x \in Calls : /\ x.at = "grant" /\ x.user = y.user /\ x.sub = y.sub
                               /\ x.todo = y.todo \ {v} /\ call' = [call EXCEPT ![w] = x]
        <4>1. [y EXCEPT !.todo = y.todo \ {v}] \in Calls  BY DEF Calls
        <4>2. QED  BY <1>1, <3>1, <4>1 DEF Calls
      <3>3. CallKept(y)'  BY <1>1, <1>2, KeptStays
      <3>4. CallKept(x)'  BY <1>1, <3>2, <3>3 DEF CallKept
      <3>5. QED  BY <3>2, <3>4
    <2>3. QED  BY <2>1, <2>2
  <1>4. UNCHANGED <<begun, accounts, links, subs>>  BY DEF PayGrant
  <1>5. CASE Storable(y.sub, v)
    <2>1. Grant(y.sub, v) /\ Reach(y.sub, v)
      BY <1>1, <1>5 DEF PayGrant, CallKept, Reach, Inv, CircleOK
    <2>2. QED  BY <1>1, <1>3, <1>4, <1>5, <2>1, GrantKeepsInv DEF Unlinking
  <1>6. CASE ~Storable(y.sub, v)
    <2>1. UNCHANGED <<shared, history>>  BY <1>1, <1>6 DEF PayGrant
    <2>2. QED
      BY <1>1, <1>3, <1>4, <2>1, MoveKeepsInv DEF Unlinking, accounts, Inv, TypeOK
  <1>7. QED  BY <1>5, <1>6

LEMMA LapseKeepsInv ==
  ASSUME Inv, NEW r \in Subs, Lapse(r)
  PROVE  Inv'
  <1>1. /\ active' \in SUBSET Subs
        /\ UNCHANGED <<begun, accounts, links, owner, owning, had, shared, call, history>>
    BY DEF Lapse, Inv, TypeOK
  <1>2. TypeOK'  BY <1>1 DEF Inv, TypeOK, accounts, history
  <1>3. CallsKept'  BY <1>1 DEF Inv, CallsKept, CallKept, Reach, history
  <1>4. CircleOK' /\ SharersConnected' /\ SubsOK' /\ Expected'
    BY <1>1 DEF Inv, CircleOK, SharersConnected, SubsOK, Rows, Expected, Linked, Takes, history
  <1>5. QED  BY <1>2, <1>3, <1>4 DEF Inv

\* What refers to the account goes with it; the rows of others keep their link.
LEMMA DeleteAccountKeepsInv ==
  ASSUME Inv, NEW u \in Users, DeleteAccount(u)
  PROVE  Inv'
  <1>1. /\ owner' = [r \in Subs |-> IF owner[r] = u THEN None ELSE owner[r]]
        /\ active' \subseteq active /\ live' \subseteq live
        /\ links' = {l \in links : u \notin {l[1], l[2]}}
        /\ owning' = {s \in owning : s[2] # u /\ owner[s[1]] # u}
        /\ shared' = {s \in shared : s[2] # u /\ owner[s[1]] # u}
        /\ stray' = stray \cap shared'
        /\ UNCHANGED <<begun, provider, appleId, call, had, circle>>
    BY DEF DeleteAccount
  <1>2. TypeOK'  BY <1>1 DEF Inv, TypeOK
  <1>3. CallsKept'  BY <1>1 DEF Inv, CallsKept, CallKept, Reach
  <1>4. CircleOK' /\ SharersConnected'
    BY <1>1 DEF Inv, CircleOK, SharersConnected
  <1>5. \A s \in Rows' : s \in Rows /\ s[1] \in Subs /\ owner'[s[1]] = owner[s[1]]
    BY <1>1 DEF Rows, Inv, TypeOK
  <1>6. SubsOK'
    <2>1. \A s \in Rows' : owner'[s[1]] # None  BY <1>5 DEF Inv, SubsOK
    <2>2. \A r \in Subs : owner'[r] # None => <<r, owner'[r]>> \in had'
      BY <1>1 DEF Inv, SubsOK
    <2>3. owning' \subseteq had'  BY <1>1 DEF Inv, SubsOK
    <2>4. QED  BY <2>1, <2>2, <2>3 DEF SubsOK
  <1>7. Expected'
    <2>1. SUFFICES ASSUME NEW s \in shared'
                   PROVE  \/ Linked(owner[s[1]], s[2])' \/ s \in stray'
                          \/ \E g \in Workers : Takes(call[g], s)'
      BY DEF Expected
    <2>2. s \in shared /\ owner'[s[1]] = owner[s[1]] /\ owner[s[1]] # u /\ s[2] # u
      BY <1>1, <1>5 DEF Rows
    <2>3. Linked(owner[s[1]], s[2]) => Linked(owner[s[1]], s[2])'
      BY <1>1, <2>2 DEF Linked
    <2>4. s \in stray => s \in stray'  BY <1>1
    <2>5. UnlinksStay  BY <1>1 DEF UnlinksStay
    <2>6. QED  BY <2>2, <2>3, <2>4, <2>5, TakenStill DEF Inv, Expected
  <1>8. QED  BY <1>2, <1>3, <1>4, <1>6, <1>7 DEF Inv

LEMMA DiesKeepsInv ==
  ASSUME Inv, NEW w \in Workers, Dies(w)
  PROVE  Inv'
  <1>1. PICK y \in Calls : y = call[w] /\ y.at # "idle"  BY Place DEF Dies
  <1>2. CASE y.at \notin Unlinking
    BY <1>1, <1>2, EndKeepsInv DEF Dies, Unlinking, history
  <1>3. CASE y.at \in Unlinking
    <2>1. /\ stray' = stray \cup {s \in shared : {owner[s[1]], s[2]} \subseteq {y.user, y.other}}
          /\ UNCHANGED <<begun, accounts, links, subs, shared, circle>>
      BY <1>1, <1>3 DEF Dies, Pair, Unlinking
    <2>2. /\ call' \in [Workers -> Calls] /\ CallsKept'
          /\ \A g \in Workers : call'[g] = IF g = w THEN NoCall ELSE call[g]
      BY <2>1, NoCallKept, CallMoves DEF Dies, End, subs
    <2>3. TypeOK'  BY <2>1, <2>2 DEF Inv, TypeOK, accounts, subs
    <2>4. CircleOK' /\ SharersConnected' /\ SubsOK'
      BY <2>1 DEF Inv, CircleOK, SharersConnected, SubsOK, Rows, subs
    <2>5. Expected'
      <3>1. SUFFICES ASSUME NEW s \in shared
                     PROVE  \/ Linked(owner[s[1]], s[2]) \/ s \in stray'
                            \/ \E g \in Workers : Takes(call[g], s)'
        BY <2>1 DEF Expected, Linked, subs
      <3>2. ASSUME NEW g \in Workers, Takes(call[g], s)
            PROVE  s \in stray' \/ Takes(call[g], s)'
        <4>1. CASE g = w  BY <1>1, <2>1, <3>2, <4>1 DEF Takes
        <4>2. CASE g # w  BY <2>1, <2>2, <3>2, <4>2 DEF Takes, subs
        <4>3. QED  BY <4>1, <4>2
      <3>3. QED  BY <2>1, <3>2 DEF Inv, Expected
    <2>6. QED  BY <2>2, <2>3, <2>4, <2>5 DEF Inv
  <1>4. QED  BY <1>2, <1>3

-----------------------------------------------------------------------------
LEMMA StutterKeepsInv == Inv /\ UNCHANGED vars => Inv'
  BY DEF Inv, TypeOK, CallsKept, CallKept, Reach, CircleOK, SharersConnected, SubsOK, Rows,
         Expected, Linked, Takes, vars

LEMMA NextKeepsInv == Inv /\ [Next]_vars => Inv'
  <1> SUFFICES ASSUME Inv, [Next]_vars PROVE Inv'  OBVIOUS
  <1>1. CASE UNCHANGED vars  BY <1>1, StutterKeepsInv
  <1>2. ASSUME NEW r \in Subs, NEW u \in Users, Restore(u, r) PROVE Inv'
    BY <1>2, RestoreKeepsInv
  <1>3. ASSUME NEW w \in Workers, NEW u \in Users, NEW p \in Providers, LinkBegin(w, u, p)
        PROVE  Inv'
    BY <1>3, LinkBeginKeepsInv
  <1>4. ASSUME NEW w \in Workers, NEW u \in Users, LinkSeek(w, u) \/ PayGrant(w, u)
        PROVE  Inv'
    BY <1>4, LinkSeekKeepsInv, PayGrantKeepsInv
  <1>5. ASSUME NEW w \in Workers, NEW u \in Users, NEW r \in Subs,
               Pay(w, u, r) \/ LinkPurchase(w, u, r)
        PROVE  Inv'
    BY <1>5, PayKeepsInv, LinkPurchaseKeepsInv
  <1>6. ASSUME NEW w \in Workers,
               \/ LinkLook(w) \/ LinkIdentify(w) \/ LinkMine(w) \/ LinkTheirs(w)
               \/ LinkStore(w) \/ LinkShare(w)
        PROVE  Inv'
    BY <1>6, LinkLookKeepsInv, LinkIdentifyKeepsInv, LinkMineKeepsInv, LinkTheirsKeepsInv,
       LinkStoreKeepsInv, LinkShareKeepsInv
  <1>7. ASSUME NEW w \in Workers, NEW u \in Users, NEW v \in Users, NEW p \in Providers,
               UnlinkBegin(w, u, v, p)
        PROVE  Inv'
    BY <1>7, UnlinkBeginKeepsInv
  <1>8. ASSUME NEW w \in Workers,
               \/ UnlinkDelete(w) \/ UnlinkRead(w) \/ UnlinkDrop(w)
               \/ PayOwner(w) \/ PayLinks(w) \/ Dies(w)
        PROVE  Inv'
    BY <1>8, UnlinkDeleteKeepsInv, UnlinkReadKeepsInv, UnlinkDropKeepsInv, PayOwnerKeepsInv,
       PayLinksKeepsInv, DiesKeepsInv
  <1>9. ASSUME NEW u \in Users, DeleteAccount(u) PROVE Inv'
    BY <1>9, DeleteAccountKeepsInv
  <1>10. ASSUME NEW r \in Subs, Lapse(r) PROVE Inv'
    BY <1>10, LapseKeepsInv
  <1>11. QED  BY <1>1, <1>2, <1>3, <1>4, <1>5, <1>6, <1>7, <1>8, <1>9, <1>10 DEF Next

LEMMA SpecKeepsInv == Spec => []Inv
  BY InvHoldsInitially, NextKeepsInv, PTL DEF Spec

\* Every variable keeps its type; in particular a rewritten account is still of
\* one of the two providers, and an account has one row of a subscription.
THEOREM TypeCorrect == Spec => []TypeOK
  <1>1. Inv => TypeOK  BY DEF Inv
  <1>2. QED  BY SpecKeepsInv, <1>1, PTL

\* linkProvider, unlinkProvider, ensureSubscriptionUserMapping and the moves of a
\* linked purchase, however they interleave, share a subscription within the
\* circles of the accounts that owned it only.
THEOREM SharersAreConnected == Spec => []SharersConnected
  <1>1. Inv => SharersConnected  BY DEF Inv
  <1>2. QED  BY SpecKeepsInv, <1>1, PTL

\* An unlinkProvider that is through has taken the access both ways, but for the
\* stray rows that a death, a move or a late write left.
THEOREM UnlinkTakesAccess == Spec => []SharingNeedsLink
  <1>1. Inv => SharingNeedsLink  BY ExpectedIsSharingNeedsLink DEF Inv
  <1>2. QED  BY SpecKeepsInv, <1>1, PTL

-----------------------------------------------------------------------------
(* The views                                                               *)

\* A mapping is deleted with its subscription, so what a user is mapped to is stored.
LEMMA MappedIsStored ==
  ASSUME Inv, NEW u \in Users
  PROVE  Mapped(u) \subseteq Stored /\ Own(u) \subseteq Stored
  BY LinkConstants DEF Inv, SubsOK, Mapped, Stored, Own

LEMMA ProfileIsInHistory ==
  ASSUME Inv, NEW u \in Users
  PROVE  Profile(u) \subseteq Own(u) \cup Mapped(u)
  BY DEF Profile, Active, Own, Mapped, Inv, TypeOK

LEMMA ShownUnlessLinkable ==
  ASSUME NEW u \in Users, NEW p \in Providers, p \notin ShownProviders(u)
  PROVE  MayLink(u, p)
  <1>1. ~ Has(u, p) /\ \A v \in LinkedWith(u) : ~ Has(v, p)
    BY DEF ShownProviders, LinkedSelf, LinkedOther
  <1>2. QED  BY <1>1 DEF MayLink, Has

LEMMA UnlinkableIsShown ==
  ASSUME Inv, NEW u \in Users, NEW v \in Users, NEW p \in Providers, MayUnlink(u, v, p)
  PROVE  {p, provider[u]} \subseteq ShownProviders(u) \cap ShownProviders(v)
  <1>1. v \in LinkedWith(u) /\ u \in LinkedWith(v) /\ Has(v, p)
    BY DEF MayUnlink, LinkedWith, Linked
  <1>2. provider[u] \in Providers /\ Has(u, provider[u])  BY DEF Inv, TypeOK, Has
  <1>3. p \in ShownProviders(u) \cap ShownProviders(v)
    BY <1>1 DEF ShownProviders, LinkedSelf, LinkedOther
  <1>4. provider[u] \in ShownProviders(u) \cap ShownProviders(v)
    BY <1>1, <1>2 DEF ShownProviders, LinkedSelf, LinkedOther
  <1>5. QED  BY <1>3, <1>4

\* getHistory, getHistoryEventDetails, getInvoicePdf, getPayments, the profile and
\* getLinkedProviders agree, each with queries of its own, in every state that
\* links, unlinks, payments, moves and deletions lead to.
THEOREM ViewsAgreeHolds == Spec => []ViewsAgree
  <1>1. Inv => ViewsAgree
    <2> SUFFICES ASSUME Inv, NEW u \in live
                 PROVE  /\ Profile(u) \cup Payments(u) \subseteq History(u, Subs)
                        /\ EventDetails(u) = History(u, Subs)
                        /\ Invoices(u) = History(u, Subs)
                        /\ \A r \in Subs : History(u, {r}) = History(u, Subs) \cap {r}
                        /\ \A p \in Providers \ ShownProviders(u) : MayLink(u, p)
                        /\ \A v \in Users, p \in Providers : MayUnlink(u, v, p) =>
                             {p, provider[u]} \subseteq ShownProviders(u) \cap ShownProviders(v)
      BY DEF ViewsAgree
    <2>1. /\ u \in Users /\ Mapped(u) \subseteq Stored /\ Own(u) \subseteq Stored
          /\ Stored \subseteq Subs
      BY MappedIsStored DEF Inv, TypeOK, Stored
    <2>2. History(u, Subs) = Own(u) \cup Mapped(u)
      BY <2>1 DEF History, Direct
    <2>3. Profile(u) \cup Payments(u) \subseteq History(u, Subs)
      BY <2>1, <2>2, ProfileIsInHistory DEF Payments
    <2>4. EventDetails(u) = History(u, Subs)  BY <2>2 DEF EventDetails
    <2>5. Invoices(u) = History(u, Subs)
      BY <2>1, <2>2 DEF Invoices, Mapped, Own, Stored
    <2>6. \A r \in Subs : History(u, {r}) = History(u, Subs) \cap {r}
      BY <2>1 DEF History, Direct
    <2>7. QED  BY <2>1, <2>3, <2>4, <2>5, <2>6, ShownUnlessLinkable, UnlinkableIsShown
  <1>2. QED  BY SpecKeepsInv, <1>1, PTL

-----------------------------------------------------------------------------
(***************************************************************************)
(* SignIns: an account holds the identities of one person, for any tokens, *)
(* accounts and requests.                                                  *)
(*                                                                         *)
(* The argument: the identities that tokens have connected fall into       *)
(* persons, which are only ever joined.  A request that holds an account   *)
(* got there by an identity its tokens show, or made the account from them;*)
(* so its tokens, the row it read and the row as it is now, which others   *)
(* may have changed in between, are of one person, and so is any mixture   *)
(* that it writes.  A deleted account stays deleted: its id is not used    *)
(* again, so a late write never reaches another person's row.  The accounts*)
(* that appleSignIn finds or writes by an address of a request's body are  *)
(* in unproven, and a call that holds one of them relies on nothing.       *)
(***************************************************************************)
\* The steps at which a request holds an account.
Holding == {"update", "appleUpdate", "adopt", "uidOwner", "setUid", "identify"}

\* Persons are disjoint sets of identities; a made-up address is of its id's person.
KnownOK ==
  /\ UNION known = Identities
  /\ \A c, d \in known : c \cap d # {} => c = d
  /\ \A i \in Ids : OfOnePerson({i, MadeUp(i)})

RowsOK ==
  /\ user \in [Accounts -> Row \cup {Null}] /\ Unique /\ OnePersonPerAccount
  /\ unused \in SUBSET Accounts /\ \A x \in unused : user[x] = Null
  /\ asked \in Nat /\ unproven \in SUBSET Accounts

\* The account of a call was found and written by what tokens show.
Trusted(c) == c.id \notin unproven /\ ~(c.at = "adopt" /\ Claims(c))

\* What a request at its step can rely on.
CallOK(c) ==
  /\ c.at # "idle" => OfOnePerson(Shown(c)) /\ Shown(c) # {}
  /\ c.at \in {"byUid", "byEmail", "byApple", "create", "update"}
       => c.fb \in Firebase /\ c.fb.email # Null
  /\ c.at \in {"appleId", "appleEmail", "appleCreate", "appleUpdate", "adopt"}
       => c.ap \in AppleTokens
  /\ c.at \in {"uidOwner", "setUid", "linkUid", "linkApple", "linkEmail", "linkCreate",
               "linkAgain", "identify"}
       => c.fb \in Firebase
  /\ c.at \in Holding =>
       /\ c.id \in Accounts \ unused /\ c.row \in Row
       /\ Trusted(c) =>
            /\ OfOnePerson(Shown(c) \cup Of(c.row))
            /\ user[c.id] # Null => OfOnePerson(Shown(c) \cup Of(user[c.id]))

CallsOK == req \in [Requests -> RequestStates] /\ \A w \in Requests : CallOK(req[w])

\* The inductive invariant.
SignInInv == TokensOK /\ KnownOK /\ RowsOK /\ CallsOK

LEMMA SignInInvIsTyped == SignInInv => SignInTypeOK /\ OnePersonPerAccount
  BY DEF SignInInv, KnownOK, RowsOK, CallsOK, SignInTypeOK

-----------------------------------------------------------------------------
(* Tokens, rows and persons *)

LEMMA PartIsOfOne ==
  ASSUME NEW A, NEW B, OfOnePerson(A), B \subseteq A
  PROVE  OfOnePerson(B)
  BY DEF OfOnePerson

LEMMA JoinedAreOfOne ==
  ASSUME KnownOK, NEW A, NEW B, OfOnePerson(A), OfOnePerson(B), A \cap B # {}
  PROVE  OfOnePerson(A \cup B)
  BY DEF KnownOK, OfOnePerson

LEMMA TokenFields ==
  ASSUME TokensOK
  PROVE  /\ \A t \in Firebase : /\ t # Null /\ t.uid \in Uids /\ t.uid # Null
                                /\ t.email \in Emails \cup {Null}
                                /\ t.apple \in AppleIds \cup {Null}
         /\ \A a \in AppleTokens : /\ a # Null /\ a.apple \in AppleIds /\ a.apple # Null
                                   /\ a.email \in Emails \cup {Null}
         /\ \A e \in Written : e \in Emails \cup {Null}
         /\ \A i \in Ids : MadeUp(i) \in Emails
         /\ Ids = AppleIds \cup Uids /\ Null \notin Emails /\ Null \notin Ids
  BY DEF TokensOK, Uids, AppleIds, Emails, Ids

LEMMA ShownOf ==
  ASSUME TokensOK, NEW c \in RequestStates, c.fb \in Firebase \/ c.ap \in AppleTokens
  PROVE  /\ Shown(c) \in SUBSET Identities /\ Shown(c) # {}
         /\ c.fb \in Firebase => /\ c.fb.uid \in Shown(c)
                                 /\ c.fb.email # Null => c.fb.email \in Shown(c)
                                 /\ c.fb.apple # Null => c.fb.apple \in Shown(c)
         /\ c.ap \in AppleTokens => /\ c.ap.apple \in Shown(c)
                                    /\ c.ap.email # Null => c.ap.email \in Shown(c)
  <1>1. c.fb \in Firebase \cup {Null} /\ c.ap \in AppleTokens \cup {Null}  BY DEF RequestStates
  <1>2. c.fb \in Firebase => Of(c.fb) \in SUBSET Identities /\ c.fb.uid \in Of(c.fb)
    BY TokenFields DEF Of, Identities
  <1>3. QED  BY <1>1, <1>2, TokenFields DEF Shown, Identities, Of

LEMMA RowFields ==
  ASSUME TokensOK, NEW r \in Row
  PROVE  r.email \in Of(r) /\ r.email # Null /\ Of(r) \in SUBSET Identities
  BY TokenFields DEF Row, Of, Identities

\* What a query by a unique key finds is an account that shares the value.
LEMMA FoundShares ==
  ASSUME RowsOK, NEW f \in {"uid", "email", "apple"}, NEW v, NEW x \in By(f, v)
  PROVE  /\ x \in Accounts \ unused /\ user[x] \in Row /\ user[x] # Null
         /\ v \in Of(user[x]) /\ v # Null
  <1>1. x \in Accounts /\ user[x] # Null /\ v # Null /\ user[x][f] = v  BY DEF By
  <1>2. user[x] \in Row  BY <1>1 DEF RowsOK
  <1>3. v \in {user[x].uid, user[x].email, user[x].apple}  BY <1>1, <1>2 DEF Row
  <1>4. QED  BY <1>1, <1>2, <1>3 DEF RowsOK, Of

-----------------------------------------------------------------------------
(* Steps *)

LEMMA RequestMoves ==
  ASSUME SignInInv, NEW w \in Requests, NEW y \in RequestStates, CallOK(y)',
         req' = [req EXCEPT ![w] = y], KnownOK', RowsOK',
         \A c \in RequestStates : CallOK(c) => CallOK(c)'
  PROVE  SignInInv'
  <1>1. req' \in [Requests -> RequestStates] /\ \A v \in Requests : req'[v] = IF v = w THEN y ELSE req[v]
    BY DEF SignInInv, CallsOK
  <1>2. ASSUME NEW v \in Requests PROVE CallOK(req[v])'
    <2>1. \E z \in RequestStates : z = req'[v] /\ CallOK(z)'
      BY <1>1 DEF SignInInv, CallsOK
    <2>2. QED  BY <2>1 DEF CallOK
  <1>3. QED  BY <1>1, <1>2 DEF SignInInv, CallsOK, TokensOK

\* Steps that write nothing.
LEMMA QuietStep ==
  ASSUME SignInInv, UNCHANGED <<user, unused, asked, known>>,
         unproven \subseteq unproven', unproven' \in SUBSET Accounts
  PROVE  KnownOK' /\ RowsOK' /\ \A c : CallOK(c) => CallOK(c)'
  <1>1. \A c : Trusted(c)' => Trusted(c)  BY DEF Trusted, Claims
  <1>2. \A A : OfOnePerson(A)' <=> OfOnePerson(A)  BY DEF OfOnePerson
  <1>3. KnownOK'  BY <1>2 DEF SignInInv, KnownOK
  <1>4. RowsOK'  BY <1>2 DEF SignInInv, RowsOK, OnePersonPerAccount, Unique
  <1>5. \A c : CallOK(c) => CallOK(c)'  BY <1>1, <1>2 DEF CallOK
  <1>6. QED  BY <1>3, <1>4, <1>5

\* The history does not change.
LEMMA SameUnproven ==
  ASSUME SignInInv, UNCHANGED unproven
  PROVE  unproven \subseteq unproven' /\ unproven' \in SUBSET Accounts
  BY DEF SignInInv, RowsOK

LEMMA QuietMove ==
  ASSUME SignInInv, NEW w \in Requests, NEW y \in RequestStates, CallOK(y),
         req' = [req EXCEPT ![w] = y], UNCHANGED <<user, unused, asked, known, unproven>>
  PROVE  SignInInv'
  BY QuietStep, SameUnproven, RequestMoves

LEMMA IdleCall == NoRequest \in RequestStates /\ CallOK(NoRequest) /\ NoRequest.at = "idle"
  BY DEF NoRequest, RequestStates, Issuers, CallOK, Holding

LEMMA EndsQuietly ==
  ASSUME SignInInv, NEW w \in Requests, Done(w), UNCHANGED <<user, unused, asked, known, unproven>>
  PROVE  SignInInv'
  BY IdleCall, QuietMove DEF Done

\* A row that fits keeps the keys unique.
LEMMA FittingRow ==
  ASSUME TokensOK, RowsOK, NEW x \in Accounts, NEW r \in Row, Fits(x, r),
         user' = [user EXCEPT ![x] = r]
  PROVE  /\ user' \in [Accounts -> Row \cup {Null}] /\ Unique'
         /\ \A y \in Accounts : user'[y] = IF y = x THEN r ELSE user[y]
  <1>1. \A y \in Accounts : user'[y] = IF y = x THEN r ELSE user[y]  BY DEF RowsOK
  <1>2. ASSUME NEW y \in Accounts, y # x, user[y] # Null
        PROVE  /\ user[y].email # r.email \/ r.email = Null
               /\ user[y].uid # r.uid \/ r.uid = Null
               /\ user[y].apple # r.apple \/ r.apple = Null
    BY <1>2 DEF Fits, By
  <1>3. r.email # Null  BY RowFields
  <1>4. user' \in [Accounts -> Row \cup {Null}]  BY DEF RowsOK
  <1>5. Unique'
    <2>1. SUFFICES ASSUME NEW y \in Accounts, NEW z \in Accounts, y # z,
                          user'[y] # Null, user'[z] # Null
                   PROVE  /\ user'[y].email # user'[z].email
                          /\ user'[y].uid # user'[z].uid \/ user'[y].uid = Null
                          /\ user'[y].apple # user'[z].apple \/ user'[y].apple = Null
      BY DEF Unique
    <2>2. CASE y = x  BY <1>1, <1>2, <1>3, <2>1, <2>2
    <2>3. CASE z = x  BY <1>1, <1>2, <1>3, <2>1, <2>3
    <2>4. CASE y # x /\ z # x  BY <1>1, <2>1, <2>4 DEF RowsOK, Unique
    <2>5. QED  BY <2>2, <2>3, <2>4
  <1>6. QED  BY <1>1, <1>4, <1>5

\* What is written to an account that a call holds: nothing, or a row that
\* shares its person, unless the account is among the unproven ones then.
LEMMA WriteIsSafe ==
  ASSUME SignInInv, NEW w \in Requests, req[w].at \in Holding, NEW r, Update(req[w].id, r),
         user[req[w].id] # Null => r \in Row,
         Updated(req[w].id, r) /\ req[w].id \notin unproven' =>
           /\ Trusted(req[w])
           /\ Of(r) \subseteq Shown(req[w]) \cup Of(req[w].row) \cup Of(user[req[w].id]),
         UNCHANGED <<unused, asked, known>>,
         unproven \subseteq unproven', unproven' \in SUBSET Accounts
  PROVE  /\ KnownOK' /\ RowsOK' /\ \A c \in RequestStates : CallOK(c) => CallOK(c)'
         /\ Updated(req[w].id, r) =>
              /\ user'[req[w].id] = r /\ r \in Row
              /\ req[w].id \in unproven' \/ OfOnePerson(Shown(req[w]) \cup Of(r))
  <1> DEFINE k == req[w]
             x == k.id
             all == (Shown(k) \cup Of(k.row)) \cup (Shown(k) \cup Of(user[x]))
  <1>1. CASE ~ Updated(x, r)  BY <1>1, QuietStep DEF Update
  <1>2. CASE Updated(x, r)
    <2>1. /\ k \in RequestStates /\ CallOK(k) /\ x \in Accounts \ unused /\ k.row \in Row
          /\ user[x] # Null /\ r \in Row /\ Fits(x, r) /\ user' = [user EXCEPT ![x] = r]
      BY <1>2 DEF SignInInv, CallsOK, CallOK, Updated, Update
    <2>3. ASSUME x \notin unproven' PROVE OfOnePerson(all)
      <3>1. /\ OfOnePerson(Shown(k) \cup Of(k.row)) /\ Shown(k) # {}
            /\ OfOnePerson(Shown(k) \cup Of(user[x]))
        BY <1>2, <2>1, <2>3 DEF CallOK, Holding
      <3>2. QED  BY <3>1, JoinedAreOfOne DEF SignInInv
    <2>4. x \in unproven' \/ (/\ OfOnePerson(Shown(k) \cup Of(r)) /\ OfOnePerson(Of(r))
                             /\ OfOnePerson(Of(user[x]) \cup Of(r)))
      <3>1. CASE x \notin unproven'
        <4>1. Of(r) \subseteq all /\ Of(user[x]) \subseteq all  BY <1>2, <3>1
        <4>2. QED  BY <2>3, <3>1, <4>1, PartIsOfOne
      <3>2. QED  BY <3>1
    <2>12. \A c : Trusted(c)' => Trusted(c)  BY DEF Trusted, Claims
    <2>5. /\ user' \in [Accounts -> Row \cup {Null}] /\ Unique'
          /\ \A y \in Accounts : user'[y] = IF y = x THEN r ELSE user[y]
      BY <2>1, FittingRow DEF SignInInv
    <2>6. \A A : OfOnePerson(A)' <=> OfOnePerson(A)  BY DEF OfOnePerson
    <2>7. KnownOK'  BY <2>6 DEF SignInInv, KnownOK
    <2>8. OnePersonPerAccount'
      <3>1. ASSUME NEW y \in Accounts, y \notin unproven', user'[y] # Null
            PROVE  OfOnePerson(Of(user'[y]))
        <4>1. CASE y = x  BY <2>4, <2>5, <3>1, <4>1
        <4>2. CASE y # x
          <5>1. y \notin unproven /\ user'[y] = user[y]  BY <2>5, <3>1, <4>2
          <5>2. QED  BY <3>1, <5>1 DEF OnePersonPerAccount, SignInInv, RowsOK
        <4>3. QED  BY <4>1, <4>2
      <3>2. QED  BY <2>6, <3>1 DEF OnePersonPerAccount
    <2>9. RowsOK'  BY <2>1, <2>5, <2>8 DEF SignInInv, RowsOK
    <2>10. ASSUME NEW c \in RequestStates, CallOK(c) PROVE CallOK(c)'
      <3>1. CASE c.at \notin Holding \/ c.id # x
        BY <2>5, <2>6, <2>10, <2>12, <3>1 DEF CallOK
      <3>4. CASE c.at \in Holding /\ c.id = x /\ ~Trusted(c)'
        BY <2>5, <2>6, <2>10, <3>4 DEF CallOK
      <3>2. CASE c.at \in Holding /\ c.id = x /\ Trusted(c)'
        <4>0. Trusted(c) /\ x \notin unproven'  BY <2>12, <3>2 DEF Trusted
        <4>1. OfOnePerson(Shown(c) \cup Of(user[x]))  BY <2>1, <2>10, <3>2, <4>0 DEF CallOK
        <4>2. user[x] \in Row  BY <2>1 DEF SignInInv, RowsOK
        <4>3. Of(user[x]) # {}  BY <4>2, RowFields DEF SignInInv
        <4>4. OfOnePerson((Shown(c) \cup Of(user[x])) \cup (Of(user[x]) \cup Of(r)))
          BY <2>4, <4>0, <4>1, <4>3, JoinedAreOfOne DEF SignInInv
        <4>5. OfOnePerson(Shown(c) \cup Of(r))  BY <4>4, PartIsOfOne
        <4>6. QED  BY <2>5, <2>6, <2>10, <3>2, <4>0, <4>5 DEF CallOK
      <3>3. QED  BY <3>1, <3>2, <3>4
    <2>11. QED  BY <2>1, <2>4, <2>5, <2>6, <2>7, <2>9, <2>10
  <1>3. QED  BY <1>1, <1>2

\* A call goes on with account x and its row r, as the step leaves them.
LEMMA HoldKeepsInv ==
  ASSUME SignInInv, NEW w \in Requests, req[w].at # "idle", NEW to \in Holding,
         NEW x \in Accounts, NEW r \in Row, Hold(w, to, x, r), UNCHANGED known,
         to = "update" => req[w].fb \in Firebase /\ req[w].fb.email # Null,
         to \in {"appleUpdate", "adopt"} => req[w].ap \in AppleTokens,
         to \in {"uidOwner", "setUid", "identify"} => req[w].fb \in Firebase,
         x \notin unused', user'[x] # Null => user'[x] = r,
         \/ x \in unproven' \/ (to = "adopt" /\ Claims(req[w]))
         \/ OfOnePerson(Shown(req[w]) \cup Of(r)),
         KnownOK', RowsOK', \A c \in RequestStates : CallOK(c) => CallOK(c)'
  PROVE  SignInInv'
  <1> DEFINE k == req[w]
             y == [k EXCEPT !.at = to, !.id = x, !.row = r]
  <1>1. k \in RequestStates /\ CallOK(k)  BY DEF SignInInv, CallsOK
  <1>2. /\ y \in RequestStates /\ y.at = to /\ y.id = x /\ y.row = r /\ y.fb = k.fb /\ y.ap = k.ap
        /\ y.mail = k.mail
    <2>1. x \in Accounts \cup {Null} /\ r \in Row \cup {Null}  OBVIOUS
    <2> HIDE DEF k
    <2>2. y \in RequestStates  BY <1>1, <2>1 DEF RequestStates, Holding
    <2>3. y.at = to /\ y.id = x /\ y.row = r  BY <1>1 DEF RequestStates
    <2>4. y.fb = k.fb /\ y.ap = k.ap /\ y.mail = k.mail  BY <1>1 DEF RequestStates
    <2>5. QED  BY <2>2, <2>3, <2>4
  <1>5. req' = [req EXCEPT ![w] = y]  BY DEF Hold, SignInInv, CallsOK
  <1>3. \E z \in RequestStates : z = y /\ CallOK(z)'
    <2>1. PICK z \in RequestStates : z = y  BY <1>2
    <2>2. Shown(z) = Shown(k) /\ OfOnePerson(Shown(k)) /\ Shown(k) # {}
      BY <1>1, <1>2, <2>1 DEF Shown, CallOK
    <2>5. Trusted(z)' => OfOnePerson(Shown(k) \cup Of(r))
      BY <1>2, <2>1 DEF Trusted, Claims
    <2>6. \A A : OfOnePerson(A)' <=> OfOnePerson(A)  BY DEF OfOnePerson
    <2>3. CallOK(z)'
      BY <1>2, <2>1, <2>2, <2>5, <2>6 DEF CallOK, Holding
    <2>4. QED  BY <2>1, <2>3
  <1> HIDE DEF y
  <1>4. QED  BY <1>2, <1>3, <1>5, RequestMoves

\* A call found an account by a value that its tokens show, or adopts one by a
\* value that the body claims.
LEMMA FoundKeepsInv ==
  ASSUME SignInInv, NEW w \in Requests, req[w].at # "idle", NEW to \in Holding,
         NEW f \in {"uid", "email", "apple"}, NEW v, NEW x \in By(f, v),
         v \in Shown(req[w]) \/ (to = "adopt" /\ Claims(req[w])),
         Hold(w, to, x, user[x]), UNCHANGED <<user, unused, asked, known, unproven>>,
         to = "update" => req[w].fb \in Firebase /\ req[w].fb.email # Null,
         to \in {"appleUpdate", "adopt"} => req[w].ap \in AppleTokens,
         to \in {"uidOwner", "setUid", "identify"} => req[w].fb \in Firebase
  PROVE  SignInInv'
  <1>1. x \in Accounts \ unused /\ user[x] \in Row /\ user[x] # Null /\ v \in Of(user[x])
    BY FoundShares DEF SignInInv
  <1>2. ASSUME v \in Shown(req[w]), x \notin unproven
        PROVE  OfOnePerson(Shown(req[w]) \cup Of(user[x]))
    <2>1. OfOnePerson(Shown(req[w])) /\ OfOnePerson(Of(user[x]))
      BY <1>1, <1>2 DEF SignInInv, CallsOK, CallOK, RowsOK, OnePersonPerAccount
    <2>2. QED  BY <1>1, <1>2, <2>1, JoinedAreOfOne DEF SignInInv
  <1>3. \/ x \in unproven' \/ (to = "adopt" /\ Claims(req[w]))
        \/ OfOnePerson(Shown(req[w]) \cup Of(user[x]))
    BY <1>2
  <1>4. KnownOK' /\ RowsOK' /\ \A c : CallOK(c) => CallOK(c)'  BY QuietStep, SameUnproven
  <1>5. QED  BY <1>1, <1>3, <1>4, HoldKeepsInv

\* The next query of a request that holds no account.
LEMMA GotoKeepsInv ==
  ASSUME SignInInv, NEW w \in Requests, req[w].at # "idle", NEW to, Move(w, to),
         UNCHANGED <<user, unused, asked, known, unproven>>,
         \/ /\ to \in {"byUid", "byEmail", "byApple", "create"}
            /\ req[w].fb \in Firebase /\ req[w].fb.email # Null
         \/ to \in {"appleId", "appleEmail", "appleCreate"} /\ req[w].ap \in AppleTokens
         \/ /\ to \in {"linkUid", "linkApple", "linkEmail", "linkCreate", "linkAgain"}
            /\ req[w].fb \in Firebase
         \/ to = "setUid" /\ req[w].at = "uidOwner"
  PROVE  SignInInv'
  <1> DEFINE y == [req[w] EXCEPT !.at = to]
  <1>1. req[w] \in RequestStates /\ CallOK(req[w])  BY DEF SignInInv, CallsOK
  <1>2. /\ y \in RequestStates /\ y.at = to /\ y.fb = req[w].fb /\ y.ap = req[w].ap
        /\ y.id = req[w].id /\ y.row = req[w].row /\ y.mail = req[w].mail
    BY <1>1 DEF RequestStates
  <1>3. req' = [req EXCEPT ![w] = y]  BY DEF Move, SignInInv, CallsOK
  <1>4. Shown(y) = Shown(req[w])  BY <1>2 DEF Shown
  <1> HIDE DEF y
  <1>5. CallOK(y)  BY <1>1, <1>2, <1>4 DEF CallOK, Holding, Trusted
  <1>6. QED  BY <1>2, <1>3, <1>5, QuietMove

\* A row for an unused id, which no call can hold.
LEMMA CreateIsSafe ==
  ASSUME SignInInv, NEW x \in unused, NEW r \in Row, Fits(x, r),
         user' = [user EXCEPT ![x] = r], unused' = unused \ {x}, UNCHANGED <<asked, known>>,
         unproven \subseteq unproven', unproven' \in SUBSET Accounts,
         x \in unproven' \/ OfOnePerson(Of(r))
  PROVE  KnownOK' /\ RowsOK' /\ (\A c \in RequestStates : CallOK(c) => CallOK(c)') /\ user'[x] = r
  <1>1. x \in Accounts  BY DEF SignInInv, RowsOK
  <1>2. /\ user' \in [Accounts -> Row \cup {Null}] /\ Unique'
        /\ \A y \in Accounts : user'[y] = IF y = x THEN r ELSE user[y]
    BY <1>1, FittingRow DEF SignInInv
  <1>3. \A A : OfOnePerson(A)' <=> OfOnePerson(A)  BY DEF OfOnePerson
  <1>4. KnownOK'  BY <1>3 DEF SignInInv, KnownOK
  <1>5. OnePersonPerAccount'
    <2>1. ASSUME NEW y \in Accounts, y \notin unproven', user'[y] # Null
          PROVE  OfOnePerson(Of(user'[y]))
      BY <1>2, <2>1 DEF OnePersonPerAccount, SignInInv, RowsOK
    <2>2. QED  BY <1>3, <2>1 DEF OnePersonPerAccount
  <1>6. RowsOK'  BY <1>2, <1>5 DEF SignInInv, RowsOK
  <1>7. ASSUME NEW c \in RequestStates, CallOK(c) PROVE CallOK(c)'
    <2>1. Trusted(c)' => Trusted(c)  BY DEF Trusted, Claims
    <2>2. QED  BY <1>2, <1>3, <1>7, <2>1 DEF CallOK
  <1>8. QED  BY <1>1, <1>2, <1>4, <1>6, <1>7

\* What a row is made of that a new account gets from the tokens of a request.
LEMMA NewRowIsOfOne ==
  ASSUME SignInInv, NEW w \in Requests, req[w].at # "idle", NEW r \in Row,
         NEW i \in Shown(req[w]), i \in Ids,
         Of(r) \subseteq Shown(req[w]) \cup {MadeUp(i)}
  PROVE  OfOnePerson(Of(r)) /\ OfOnePerson(Shown(req[w]) \cup Of(r))
  <1>1. OfOnePerson(Shown(req[w])) /\ OfOnePerson({i, MadeUp(i)})
    BY DEF SignInInv, CallsOK, CallOK, KnownOK
  <1>2. OfOnePerson(Shown(req[w]) \cup {i, MadeUp(i)})
    BY <1>1, JoinedAreOfOne DEF SignInInv
  <1>3. QED  BY <1>2, PartIsOfOne

\* Tokens connect identities: persons are joined, never taken apart.
LEMMA LearnJoins ==
  ASSUME KnownOK, NEW ids \in SUBSET Identities, Learn(ids)
  PROVE  KnownOK' /\ OfOnePerson(ids)' /\ \A A : OfOnePerson(A) => OfOnePerson(A)'
  <1> DEFINE touched == {c \in known : c \cap ids # {}}
             joined  == UNION touched
  <1>1. known' = (known \ touched) \cup {joined}  BY DEF Learn
  <1>2. \A c \in known : \E d \in known' : c \subseteq d
    <2>1. SUFFICES ASSUME NEW c \in known PROVE \E d \in known' : c \subseteq d  OBVIOUS
    <2>2. CASE c \in touched
      <3>1. c \subseteq joined  BY <2>2
      <3>2. QED  BY <1>1, <3>1
    <2>3. CASE c \notin touched  BY <1>1, <2>3
    <2>4. QED  BY <2>2, <2>3
  <1>3. \A A : OfOnePerson(A) => OfOnePerson(A)'  BY <1>2 DEF OfOnePerson
  <1>4. ids \subseteq joined /\ joined \in SUBSET Identities  BY DEF KnownOK
  <1>5. \A c \in known : c \cap joined # {} => c \in touched  BY DEF KnownOK
  <1> HIDE DEF joined
  <1>6. UNION known' = Identities  BY <1>1, <1>2, <1>4 DEF KnownOK
  <1>7. \A c, d \in known' : c \cap d # {} => c = d
    <2>1. \A c \in known \ touched : c \cap joined = {}  BY <1>5
    <2>2. QED  BY <1>1, <2>1 DEF KnownOK
  <1>8. KnownOK'  BY <1>3, <1>6, <1>7 DEF KnownOK
  <1>9. OfOnePerson(ids)'  BY <1>1, <1>4 DEF OfOnePerson
  <1>10. QED  BY <1>3, <1>8, <1>9

-----------------------------------------------------------------------------
(* The actions *)

LEMMA SignInInvHoldsInitially == TokensOK /\ SignInInit => SignInInv
  <1> SUFFICES ASSUME TokensOK, SignInInit PROVE SignInInv  OBVIOUS
  <1>1. /\ \A i \in Ids : MadeUp(i) \in Emails /\ MadeUp(i) \notin Ids
        /\ \A i, j \in Ids : MadeUp(i) = MadeUp(j) => i = j
    <2>1. \A i, j \in Ids : MadeUp(i) = MadeUp(j) => i = j  BY DEF MadeUp
    <2>2. QED  BY <2>1, TokenFields DEF TokensOK
  <1>2. UNION known = Identities
    <2> DEFINE made == {MadeUp(i) : i \in Ids}
               firsts == {{i, MadeUp(i)} : i \in Ids}
               others == {{e} : e \in Emails \ made}
    <2>1. UNION firsts = Ids \cup made  OBVIOUS
    <2>2. UNION others = Emails \ made
      <3> HIDE DEF made
      <3>1. QED  OBVIOUS
    <2>3. made \subseteq Emails /\ known = firsts \cup others  BY <1>1 DEF SignInInit
    <2> HIDE DEF made, firsts, others
    <2>4. QED  BY <2>1, <2>2, <2>3 DEF Identities
  <1>3. ASSUME NEW c \in known, NEW d \in known, NEW e, e \in c, e \in d PROVE c = d
    <2>1. ASSUME NEW b \in known, e \in b
          PROVE  b = IF e \in Ids THEN {e, MadeUp(e)}
                     ELSE IF \E i \in Ids : e = MadeUp(i)
                     THEN {CHOOSE i \in Ids : e = MadeUp(i), e} ELSE {e}
      <3>1. CASE b \in {{i, MadeUp(i)} : i \in Ids}
        <4>1. PICK i \in Ids : b = {i, MadeUp(i)}  BY <3>1
        <4>2. CASE e = i  BY <4>1, <4>2
        <4>3. CASE e = MadeUp(i)
          <5>1. (CHOOSE j \in Ids : e = MadeUp(j)) = i  BY <1>1, <4>3
          <5>2. QED  BY <1>1, <4>1, <4>3, <5>1
        <4>4. QED  BY <2>1, <4>1, <4>2, <4>3
      <3>2. CASE b \in {{x} : x \in Emails \ {MadeUp(i) : i \in Ids}}
        <4>1. PICK x \in Emails \ {MadeUp(i) : i \in Ids} : b = {x}  BY <3>2
        <4>2. e = x /\ x \notin Ids  BY <2>1, <4>1 DEF TokensOK
        <4>3. QED  BY <4>1, <4>2
      <3>3. QED  BY <3>1, <3>2 DEF SignInInit
    <2>2. QED  BY <1>3, <2>1
  <1>4. \A c, d \in known : c \cap d # {} => c = d  BY <1>3
  <1>5. \A i \in Ids : OfOnePerson({i, MadeUp(i)})  BY DEF SignInInit, OfOnePerson
  <1>6. RowsOK  BY DEF SignInInit, RowsOK, Unique, OnePersonPerAccount
  <1>7. CallsOK  BY IdleCall DEF SignInInit, CallsOK, CallOK, Holding
  <1>8. QED  BY <1>2, <1>4, <1>5, <1>6, <1>7 DEF SignInInv, KnownOK

\* A request begins: its tokens connect the identities they show.
LEMMA BeginKeepsInv ==
  ASSUME SignInInv, NEW w \in Requests, NEW c \in RequestStates, Begin(w, c),
         c.at \in {"byUid", "appleId", "linkUid"},
         c.at = "byUid" => c.fb \in Firebase /\ c.fb.email # Null,
         c.at = "appleId" => c.ap \in AppleTokens,
         c.at = "linkUid" => c.fb \in Firebase
  PROVE  SignInInv'
  <1>1. Shown(c) \in SUBSET Identities /\ Shown(c) # {}  BY ShownOf DEF SignInInv
  <1>2. KnownOK' /\ OfOnePerson(Shown(c))' /\ \A A : OfOnePerson(A) => OfOnePerson(A)'
    BY <1>1, LearnJoins DEF Begin, SignInInv
  <1>3. RowsOK'  BY <1>2 DEF Begin, SignInInv, RowsOK, Unique, OnePersonPerAccount
  <1>7. \A d : Trusted(d)' <=> Trusted(d)  BY DEF Begin, Trusted, Claims
  <1>4. \A d \in RequestStates : CallOK(d) => CallOK(d)'  BY <1>2, <1>7 DEF Begin, CallOK
  <1>5. CallOK(c)'  BY <1>1, <1>2 DEF CallOK, Holding
  <1>6. QED  BY <1>2, <1>3, <1>4, <1>5, RequestMoves DEF Begin

LEMMA Begins ==
  ASSUME SignInInv, NEW w \in Requests,
         \/ \E k \in {"login", "google"}, p \in Issuers, t \in Firebase :
              FirebaseBegin(w, k, p, t)
         \/ \E a \in AppleTokens, t \in Firebase \cup {Null}, body \in Written :
              AppleBegin(w, a, t, body)
         \/ \E me \in Accounts, p \in Issuers, t \in Firebase : LinkStart(w, me, p, t)
  PROVE  SignInInv'
  <1>1. ASSUME NEW k \in {"login", "google"}, NEW p \in Issuers, NEW t \in Firebase,
               FirebaseBegin(w, k, p, t)
        PROVE  SignInInv'
    <2> DEFINE c == [NoRequest EXCEPT !.at = "byUid", !.kind = k, !.fb = t, !.p = p]
    <2>1. c \in RequestStates /\ c.at = "byUid" /\ c.fb = t  BY DEF NoRequest, RequestStates, Issuers
    <2>2. Begin(w, c) /\ t.email # Null  BY <1>1 DEF FirebaseBegin
    <2> HIDE DEF c
    <2>3. QED  BY <2>1, <2>2, BeginKeepsInv
  <1>2. ASSUME NEW a \in AppleTokens, NEW t \in Firebase \cup {Null}, NEW body \in Written,
               AppleBegin(w, a, t, body)
        PROVE  SignInInv'
    <2> DEFINE c == [NoRequest EXCEPT !.at = "appleId", !.kind = "apple", !.ap = a, !.fb = t,
                                   !.mail = Mail(a, body), !.p = "apple"]
    <2>4. Mail(a, body) \in Emails \cup {Null}  BY TokenFields DEF Mail, SignInInv
    <2>1. c \in RequestStates /\ c.at = "appleId" /\ c.ap = a
      BY <2>4 DEF NoRequest, RequestStates, Issuers
    <2>2. Begin(w, c)  BY <1>2 DEF AppleBegin
    <2> HIDE DEF c
    <2>3. QED  BY <2>1, <2>2, BeginKeepsInv
  <1>3. ASSUME NEW me \in Accounts, NEW p \in Issuers, NEW t \in Firebase,
               LinkStart(w, me, p, t)
        PROVE  SignInInv'
    <2> DEFINE c == [NoRequest EXCEPT !.at = "linkUid", !.kind = "link", !.fb = t, !.p = p,
                                   !.me = me, !.meUid = user[me].uid]
    <2>1. user[me] \in Row  BY <1>3 DEF LinkStart, SignInInv, RowsOK
    <2>2. c \in RequestStates /\ c.at = "linkUid" /\ c.fb = t
      BY <2>1 DEF NoRequest, RequestStates, Issuers, Row
    <2>3. Begin(w, c)  BY <1>3 DEF LinkStart
    <2> HIDE DEF c
    <2>4. QED  BY <2>2, <2>3, BeginKeepsInv
  <1>4. QED  BY <1>1, <1>2, <1>3

\* What a request knows of its tokens at its step.
LEMMA CallKnows ==
  ASSUME SignInInv, NEW w \in Requests, req[w].at # "idle"
  PROVE  /\ req[w] \in RequestStates /\ CallOK(req[w])
         /\ req[w].fb \in Firebase =>
              /\ req[w].fb.uid \in Shown(req[w]) \cap Uids /\ req[w].fb.uid # Null
              /\ req[w].fb.email # Null => req[w].fb.email \in Shown(req[w]) \cap Emails
              /\ req[w].fb.apple # Null => req[w].fb.apple \in Shown(req[w]) \cap AppleIds
         /\ req[w].ap \in AppleTokens =>
              /\ req[w].ap.apple \in Shown(req[w]) /\ req[w].ap.apple \in AppleIds
              /\ req[w].ap.email # Null => req[w].ap.email \in Shown(req[w]) \cap Emails
         /\ Null \notin Shown(req[w])
  <1>1. req[w] \in RequestStates /\ CallOK(req[w])  BY DEF SignInInv, CallsOK
  <1>2. Null \notin Shown(req[w])  BY DEF Shown, Of
  <1>3. TokensOK  BY DEF SignInInv
  <1>4. QED  BY <1>1, <1>2, <1>3, TokenFields, ShownOf

LEMMA FirebaseFindKeepsInv ==
  ASSUME SignInInv, NEW w \in Requests, FirebaseFind(w)
  PROVE  SignInInv'
  <1> DEFINE t == req[w].fb
  <1>1. req[w].at \in {"byUid", "byEmail", "byApple"} /\ UNCHANGED <<user, unused, asked, known, unproven>>
    BY DEF FirebaseFind
  <1>2. t \in Firebase /\ t.email # Null  BY <1>1, CallKnows DEF CallOK
  <1>3. ASSUME NEW f \in {"uid", "email", "apple"}, NEW v, v # Null => v \in Shown(req[w]),
               NEW x \in By(f, v), Hold(w, "update", x, user[x])
        PROVE  SignInInv'
    <2>1. v \in Shown(req[w])  BY <1>3, FoundShares DEF SignInInv
    <2>2. QED  BY <1>1, <1>2, <1>3, <2>1, FoundKeepsInv DEF Holding
  <1>4. ASSUME NEW to \in {"byEmail", "byApple", "create"}, Move(w, to) PROVE SignInInv'
    BY <1>1, <1>2, <1>4, GotoKeepsInv
  <1>5. ASSUME Done(w) PROVE SignInInv'  BY <1>1, <1>5, EndsQuietly
  <1>6. /\ t.uid # Null => t.uid \in Shown(req[w])
        /\ t.email # Null => t.email \in Shown(req[w])
        /\ t.apple # Null => t.apple \in Shown(req[w])
    BY <1>1, <1>2, CallKnows
  <1>7. CASE req[w].at = "byUid"
    <2>1. \/ Move(w, "byEmail") \/ Done(w)
          \/ \E x \in By("uid", t.uid) : Hold(w, "update", x, user[x])
      BY <1>7 DEF FirebaseFind
    <2>2. QED  BY <1>3, <1>4, <1>5, <1>6, <2>1
  <1>8. CASE req[w].at = "byEmail"
    <2>1. \/ Move(w, "create") \/ Move(w, "byApple") \/ Done(w)
          \/ \E x \in By("email", t.email) : Hold(w, "update", x, user[x])
      BY <1>8 DEF FirebaseFind
    <2>2. QED  BY <1>3, <1>4, <1>5, <1>6, <2>1
  <1>9. CASE req[w].at = "byApple"
    <2>1. \/ Move(w, "create") \/ Done(w)
          \/ \E x \in By("apple", t.apple) : Hold(w, "update", x, user[x])
      BY <1>9 DEF FirebaseFind
    <2>2. QED  BY <1>3, <1>4, <1>5, <1>6, <2>1
  <1>10. QED  BY <1>1, <1>7, <1>8, <1>9

LEMMA FirebaseCreateKeepsInv ==
  ASSUME SignInInv, NEW w \in Requests, FirebaseCreate(w)
  PROVE  SignInInv'
  <1> DEFINE t == req[w].fb
             r == [uid |-> t.uid, email |-> t.email, apple |-> Null, provider |-> req[w].p]
  <1>1. req[w].at = "create" /\ Done(w) /\ UNCHANGED <<asked, known, unproven>>  BY DEF FirebaseCreate
  <1>2. t \in Firebase /\ t.email # Null  BY <1>1, CallKnows DEF CallOK
  <1>3. t.uid \in Shown(req[w]) /\ t.email \in Shown(req[w]) /\ req[w] \in RequestStates
    BY <1>1, <1>2, CallKnows
  <1>4. r \in Row  BY <1>1, <1>2, CallKnows DEF Row, RequestStates
  <1>5. Of(r) \subseteq Shown(req[w])  BY <1>3 DEF Of
  <1>6. t.uid \in Ids  BY <1>1, <1>2, CallKnows DEF Ids
  <1>7. OfOnePerson(Of(r))
    <2> HIDE DEF r
    <2>1. QED  BY <1>1, <1>3, <1>4, <1>5, <1>6, NewRowIsOfOne
  <1>8. \/ UNCHANGED <<user, unused>>
        \/ \E x \in unused : /\ Fits(x, r) /\ user' = [user EXCEPT ![x] = r]
                             /\ unused' = unused \ {x}
    BY DEF FirebaseCreate
  <1> HIDE DEF r
  <1>9. KnownOK' /\ RowsOK' /\ \A c \in RequestStates : CallOK(c) => CallOK(c)'
    BY <1>1, <1>4, <1>7, <1>8, CreateIsSafe, QuietStep, SameUnproven
  <1>10. QED  BY <1>1, <1>9, IdleCall, RequestMoves DEF Done

\* A call that ends with what it writes to the account it holds.
LEMMA LastWriteKeepsInv ==
  ASSUME SignInInv, NEW w \in Requests, req[w].at \in Holding \ {"adopt"}, NEW r,
         Update(req[w].id, r), Done(w),
         user[req[w].id] # Null =>
           r \in Row /\ Of(r) \subseteq Shown(req[w]) \cup Of(req[w].row)
                                          \cup Of(user[req[w].id]),
         UNCHANGED <<unused, asked, known, unproven>>
  PROVE  SignInInv'
  <1>1. req[w].id \notin unproven' => Trusted(req[w])  BY DEF Trusted
  <1>3. Updated(req[w].id, r) => user[req[w].id] # Null  BY DEF Updated
  <1>4. KnownOK' /\ RowsOK' /\ \A c \in RequestStates : CallOK(c) => CallOK(c)'
    BY <1>1, <1>3, WriteIsSafe, SameUnproven
  <1>2. QED  BY <1>4, IdleCall, RequestMoves DEF Done

\* The account that a call holds and the row it read, when it is still there.
LEMMA HeldAccount ==
  ASSUME SignInInv, NEW w \in Requests, req[w].at \in Holding
  PROVE  /\ req[w].at # "idle" /\ req[w].id \in Accounts \ unused /\ req[w].row \in Row
         /\ user[req[w].id] # Null => user[req[w].id] \in Row
  BY DEF SignInInv, CallsOK, CallOK, RowsOK, Holding

LEMMA FirebaseUpdateKeepsInv ==
  ASSUME SignInInv, NEW w \in Requests, FirebaseUpdate(w)
  PROVE  SignInInv'
  <1> DEFINE c == req[w]
             u == user[c.id]
             r == [u EXCEPT !.email = IF KeepsAddress(c) THEN @ ELSE c.fb.email,
                            !.uid = IF c.kind = "login" /\ c.row.uid = Null THEN c.fb.uid ELSE @]
  <1>1. /\ c.at = "update" /\ c.at \in Holding /\ Update(c.id, r) /\ Done(w)
        /\ UNCHANGED <<unused, asked, known, unproven>>
    BY DEF FirebaseUpdate, Holding
  <1>2. c.fb \in Firebase /\ c.fb.email # Null  BY <1>1, CallKnows DEF CallOK
  <1>3. /\ c.fb.uid \in Shown(c) /\ c.fb.uid \in Uids /\ c.fb.email \in Shown(c) \cap Emails
    BY <1>1, <1>2, CallKnows
  <1>4. ASSUME u # Null PROVE r \in Row /\ Of(r) \subseteq Shown(c) \cup Of(u)
    <2>1. u \in Row  BY <1>1, <1>4, HeldAccount
    <2>2. /\ r \in Row /\ r.apple = u.apple
          /\ r.email \in {u.email, c.fb.email} /\ r.uid \in {u.uid, c.fb.uid}
      BY <1>3, <2>1 DEF Row
    <2>3. QED  BY <1>3, <2>2 DEF Of
  <1> HIDE DEF r
  <1>5. QED  BY <1>1, <1>4, LastWriteKeepsInv

LEMMA AppleFindKeepsInv ==
  ASSUME SignInInv, NEW w \in Requests, AppleFind(w)
  PROVE  SignInInv'
  <1> DEFINE a == req[w].ap
             m == req[w].mail
  <1>1. req[w].at \in {"appleId", "appleEmail"} /\ UNCHANGED <<user, unused, asked, known, unproven>>
    BY DEF AppleFind
  <1>2. a \in AppleTokens  BY <1>1, CallKnows DEF CallOK
  <1>3. a.apple \in Shown(req[w]) /\ (m # Null => m \in Shown(req[w]) \/ Claims(req[w]))
    BY <1>1, <1>2, TokenFields, CallKnows DEF Claims, SignInInv
  <1>4. ASSUME NEW f \in {"uid", "email", "apple"}, NEW v, NEW x \in By(f, v),
               NEW to \in {"appleUpdate", "adopt"}, Hold(w, to, x, user[x]),
               v # Null => v \in Shown(req[w]) \/ (to = "adopt" /\ Claims(req[w]))
        PROVE  SignInInv'
    <2>1. v # Null  BY <1>4, FoundShares DEF SignInInv
    <2>2. QED  BY <1>1, <1>2, <1>4, <2>1, FoundKeepsInv DEF Holding
  <1>5. ASSUME NEW to \in {"appleEmail", "appleCreate"}, Move(w, to) PROVE SignInInv'
    BY <1>1, <1>2, <1>5, GotoKeepsInv
  <1>6. CASE Done(w)  BY <1>1, <1>6, EndsQuietly
  <1>7. \/ Move(w, "appleEmail") \/ Move(w, "appleCreate") \/ Done(w)
        \/ \E x \in By("apple", a.apple) : Hold(w, "appleUpdate", x, user[x])
        \/ \E x \in By("email", m) : Hold(w, "adopt", x, user[x])
    BY DEF AppleFind
  <1>8. QED  BY <1>3, <1>4, <1>5, <1>6, <1>7

\* Going on to the uid of the Firebase token, with the row just written.
LEMMA AppleNextKeepsInv ==
  ASSUME SignInInv, NEW w \in Requests, req[w].at # "idle", NEW x \in Accounts, NEW r \in Row,
         AppleNext(w, x, r), UNCHANGED known, x \notin unused', user'[x] = r,
         x \in unproven' \/ OfOnePerson(Shown(req[w]) \cup Of(r)),
         KnownOK', RowsOK', \A c \in RequestStates : CallOK(c) => CallOK(c)'
  PROVE  SignInInv'
  <1>1. CASE Done(w)  BY <1>1, IdleCall, RequestMoves DEF Done
  <1>2. CASE Hold(w, "uidOwner", x, r) /\ req[w].fb # Null
    <2>1. req[w].fb \in Firebase  BY <1>2, CallKnows DEF RequestStates
    <2>2. QED  BY <1>2, <2>1, HoldKeepsInv DEF Holding
  <1>3. QED  BY <1>1, <1>2 DEF AppleNext

LEMMA AppleCreateKeepsInv ==
  ASSUME SignInInv, NEW w \in Requests, AppleCreate(w)
  PROVE  SignInInv'
  <1> DEFINE c == req[w]
             a == c.ap
             r == [uid |-> Null, email |-> Address(c.mail, a.apple),
                   apple |-> a.apple, provider |-> "apple"]
  <1>1. c.at = "appleCreate" /\ UNCHANGED <<asked, known>>  BY DEF AppleCreate
  <1>2. a \in AppleTokens /\ c \in RequestStates  BY <1>1, CallKnows DEF CallOK
  <1>3. /\ a.apple \in Shown(c) /\ a.apple \in AppleIds /\ a.apple \in Ids
        /\ a.email # Null => a.email \in Shown(c) \cap Emails
        /\ c.mail \in Emails \cup {Null} /\ a # Null
    BY <1>1, <1>2, TokenFields, CallKnows DEF Ids, RequestStates, SignInInv
  <1>4. MadeUp(a.apple) \in Emails  BY <1>3, TokenFields DEF SignInInv
  <1>5. r \in Row  BY <1>3, <1>4 DEF Row, Issuers, Address
  <1>6. ~Claims(c) => Of(r) \subseteq Shown(c) \cup {MadeUp(a.apple)}
    BY <1>3 DEF Of, Address, Claims
  <1>7. \/ Done(w) /\ UNCHANGED <<user, unused, unproven>>
        \/ \E x \in unused : /\ Fits(x, r) /\ user' = [user EXCEPT ![x] = r]
                             /\ unused' = unused \ {x} /\ AppleNext(w, x, r)
                             /\ unproven' = IF Claims(c) THEN unproven \cup {x} ELSE unproven
    BY DEF AppleCreate
  <1> HIDE DEF r
  <1>8. ~Claims(c) => OfOnePerson(Of(r)) /\ OfOnePerson(Shown(c) \cup Of(r))
    BY <1>1, <1>3, <1>5, <1>6, NewRowIsOfOne
  <1>9. ASSUME NEW x \in unused, Fits(x, r), user' = [user EXCEPT ![x] = r],
               unused' = unused \ {x}, AppleNext(w, x, r),
               unproven' = IF Claims(c) THEN unproven \cup {x} ELSE unproven
        PROVE  SignInInv'
    <2>1. x \in Accounts /\ x \notin unused'  BY <1>9 DEF SignInInv, RowsOK
    <2>2. unproven \subseteq unproven' /\ unproven' \in SUBSET Accounts
      BY <1>9, <2>1 DEF SignInInv, RowsOK
    <2>3. /\ x \in unproven' \/ OfOnePerson(Of(r))
          /\ x \in unproven' \/ OfOnePerson(Shown(c) \cup Of(r))
      BY <1>8, <1>9
    <2>4. /\ KnownOK' /\ RowsOK' /\ \A d \in RequestStates : CallOK(d) => CallOK(d)'
          /\ user'[x] = r
      BY <1>1, <1>5, <1>9, <2>2, <2>3, CreateIsSafe
    <2>5. QED  BY <1>1, <1>5, <1>9, <2>1, <2>3, <2>4, AppleNextKeepsInv
  <1>10. QED  BY <1>1, <1>7, <1>9, EndsQuietly

LEMMA AppleUpdateKeepsInv ==
  ASSUME SignInInv, NEW w \in Requests, AppleUpdate(w)
  PROVE  SignInInv'
  <1> DEFINE c == req[w]
             u == user[c.id]
             r == [u EXCEPT !.email = IF c.row.uid # Null THEN @
                                      ELSE IF c.mail # Null THEN c.mail ELSE c.row.email,
                            !.apple = IF c.at = "adopt" THEN c.ap.apple ELSE @]
             byWord == Claims(c) /\ (c.at = "adopt" \/ c.row.uid = Null)
  <1>1. /\ c.at \in {"appleUpdate", "adopt"} /\ c.at \in Holding /\ Update(c.id, r)
        /\ IF Updated(c.id, r) THEN AppleNext(w, c.id, r) ELSE Done(w)
        /\ unproven' = IF Updated(c.id, r) /\ byWord THEN unproven \cup {c.id} ELSE unproven
        /\ UNCHANGED <<unused, asked, known>>
    BY DEF AppleUpdate, Holding
  <1>2. c.ap \in AppleTokens /\ c \in RequestStates  BY <1>1, CallKnows DEF CallOK
  <1>3. /\ c.ap.apple \in Shown(c) /\ c.ap.apple \in AppleIds
        /\ c.ap.email # Null => c.ap.email \in Shown(c) \cap Emails
        /\ c.mail \in Emails \cup {Null} /\ c.ap # Null
    BY <1>1, <1>2, TokenFields, CallKnows DEF RequestStates, SignInInv
  <1>4. c.at # "idle" /\ c.id \in Accounts \ unused /\ c.row \in Row  BY <1>1, HeldAccount
  <1>5. c.row.email \in Of(c.row) \cap Emails  BY <1>4, RowFields DEF SignInInv, Row
  <1>6. ASSUME u # Null
        PROVE  /\ r \in Row
               /\ ~byWord => Of(r) \subseteq Shown(c) \cup Of(c.row) \cup Of(u)
    <2>1. u \in Row  BY <1>1, <1>6, HeldAccount
    <2>2. /\ r \in Row /\ r.uid = u.uid /\ r.apple \in {u.apple, c.ap.apple}
          /\ \/ r.email \in {u.email, c.row.email}
             \/ r.email = c.mail /\ c.mail # Null /\ c.row.uid = Null
      BY <1>3, <1>5, <2>1 DEF Row
    <2>3. ~byWord /\ c.row.uid = Null => c.mail = c.ap.email  BY <1>3 DEF Claims
    <2>4. QED  BY <1>3, <1>5, <2>2, <2>3 DEF Of
  <1>11. unproven \subseteq unproven' /\ unproven' \in SUBSET Accounts
    BY <1>1, <1>4 DEF SignInInv, RowsOK
  <1> HIDE DEF r
  <1>12. ASSUME Updated(c.id, r), c.id \notin unproven'
         PROVE  Trusted(c) /\ Of(r) \subseteq Shown(c) \cup Of(c.row) \cup Of(u)
    <2>1. ~byWord /\ c.id \notin unproven /\ u # Null  BY <1>1, <1>11, <1>12 DEF Updated
    <2>2. QED  BY <1>6, <2>1 DEF Trusted
  <1>7. /\ KnownOK' /\ RowsOK' /\ \A d \in RequestStates : CallOK(d) => CallOK(d)'
        /\ Updated(c.id, r) => /\ user'[c.id] = r /\ r \in Row
                               /\ c.id \in unproven' \/ OfOnePerson(Shown(c) \cup Of(r))
    BY <1>1, <1>6, <1>11, <1>12, WriteIsSafe
  <1>8. CASE Updated(c.id, r)
    BY <1>1, <1>4, <1>7, <1>8, AppleNextKeepsInv
  <1>9. CASE ~ Updated(c.id, r)
    BY <1>1, <1>7, <1>9, IdleCall, RequestMoves DEF Done
  <1>10. QED  BY <1>8, <1>9

LEMMA AppleUidKeepsInv ==
  ASSUME SignInInv, NEW w \in Requests, AppleUidOwner(w) \/ AppleSetUid(w)
  PROVE  SignInInv'
  <1>1. CASE AppleUidOwner(w)
    <2>1. /\ req[w].at = "uidOwner" /\ UNCHANGED <<user, unused, asked, known, unproven>>
          /\ Move(w, "setUid") \/ Done(w)
      BY <1>1 DEF AppleUidOwner
    <2>2. QED  BY <2>1, GotoKeepsInv, EndsQuietly
  <1>2. CASE AppleSetUid(w)
    <2> DEFINE c == req[w]
               u == user[c.id]
               r == [u EXCEPT !.uid = c.fb.uid]
    <2>1. /\ c.at = "setUid" /\ c.at \in Holding /\ Update(c.id, r) /\ Done(w)
          /\ UNCHANGED <<unused, asked, known, unproven>>
      BY <1>2 DEF AppleSetUid, Holding
    <2>2. c.fb \in Firebase  BY <2>1, CallKnows DEF CallOK
    <2>3. c.fb.uid \in Shown(c) /\ c.fb.uid \in Uids  BY <2>1, <2>2, CallKnows
    <2>4. ASSUME u # Null PROVE r \in Row /\ Of(r) \subseteq Shown(c) \cup Of(u)
      <3>1. u \in Row  BY <2>1, <2>4, HeldAccount
      <3>2. QED  BY <2>3, <3>1 DEF Row, Of
    <2> HIDE DEF r
    <2>5. QED  BY <2>1, <2>4, LastWriteKeepsInv
  <1>3. QED  BY <1>1, <1>2

LEMMA LinkFindKeepsInv ==
  ASSUME SignInInv, NEW w \in Requests, LinkFind(w) \/ LinkAgain(w)
  PROVE  SignInInv'
  <1> DEFINE c == req[w]
             t == c.fb
  <1>1. /\ c.at \in {"linkUid", "linkApple", "linkEmail", "linkAgain"}
        /\ UNCHANGED <<user, unused, asked, known, unproven>>
    BY DEF LinkFind, LinkAgain
  <1>2. t \in Firebase  BY <1>1, CallKnows DEF CallOK
  <1>3. /\ t.uid # Null => t.uid \in Shown(c)
        /\ t.email # Null => t.email \in Shown(c)
        /\ t.apple # Null => t.apple \in Shown(c)
    BY <1>1, <1>2, CallKnows
  <1>4. ASSUME NEW f \in {"uid", "email", "apple"}, NEW v, v # Null => v \in Shown(c),
               NEW x \in By(f, v), Hold(w, "identify", x, user[x])
        PROVE  SignInInv'
    <2>1. v \in Shown(c)  BY <1>4, FoundShares DEF SignInInv
    <2>2. QED  BY <1>1, <1>2, <1>4, <2>1, FoundKeepsInv DEF Holding
  <1>5. ASSUME NEW to \in {"linkApple", "linkEmail", "linkCreate"}, Move(w, to) PROVE SignInInv'
    BY <1>1, <1>2, <1>5, GotoKeepsInv
  <1>6. CASE Done(w)  BY <1>1, <1>6, EndsQuietly
  <1>7. \/ Move(w, "linkApple") \/ Move(w, "linkEmail") \/ Move(w, "linkCreate") \/ Done(w)
        \/ \E x \in By("uid", t.uid) : Hold(w, "identify", x, user[x])
        \/ \E x \in By("apple", t.apple) : Hold(w, "identify", x, user[x])
        \/ \E x \in By("email", t.email) : Hold(w, "identify", x, user[x])
    BY DEF LinkFind, LinkAgain
  <1>8. QED  BY <1>3, <1>4, <1>5, <1>6, <1>7

LEMMA LinkCreateKeepsInv ==
  ASSUME SignInInv, NEW w \in Requests, LinkCreate(w)
  PROVE  SignInInv'
  <1> DEFINE c == req[w]
             r == [uid |-> IF c.fb.uid = c.meUid THEN Null ELSE c.fb.uid,
                   email |-> Address(c.fb.email, c.fb.uid),
                   apple |-> IF c.p = "apple" THEN c.fb.apple ELSE Null, provider |-> c.p]
  <1>1. c.at = "linkCreate" /\ UNCHANGED <<asked, known, unproven>>  BY DEF LinkCreate
  <1>2. c.fb \in Firebase /\ c \in RequestStates  BY <1>1, CallKnows DEF CallOK
  <1>3. /\ c.fb.uid \in Shown(c) /\ c.fb.uid \in Uids /\ c.fb.uid \in Ids
        /\ c.fb.email # Null => c.fb.email \in Shown(c) \cap Emails
        /\ c.fb.apple # Null => c.fb.apple \in Shown(c) \cap AppleIds
    BY <1>1, <1>2, CallKnows DEF Ids
  <1>4. MadeUp(c.fb.uid) \in Emails  BY <1>3, TokenFields DEF SignInInv
  <1>5. r \in Row  BY <1>2, <1>3, <1>4 DEF Row, RequestStates, Address
  <1>6. Of(r) \subseteq Shown(c) \cup {MadeUp(c.fb.uid)}  BY <1>3 DEF Of, Address
  <1>7. \/ Done(w) /\ UNCHANGED <<user, unused>>
        \/ Move(w, "linkAgain") /\ UNCHANGED <<user, unused>>
        \/ \E x \in unused : /\ Fits(x, r) /\ user' = [user EXCEPT ![x] = r]
                             /\ unused' = unused \ {x} /\ Hold(w, "identify", x, r)
    BY DEF LinkCreate
  <1> HIDE DEF r
  <1>8. OfOnePerson(Of(r)) /\ OfOnePerson(Shown(c) \cup Of(r))
    BY <1>1, <1>3, <1>5, <1>6, NewRowIsOfOne
  <1>9. ASSUME NEW x \in unused, Fits(x, r), user' = [user EXCEPT ![x] = r],
               unused' = unused \ {x}, Hold(w, "identify", x, r)
        PROVE  SignInInv'
    <2>1. x \in Accounts /\ x \notin unused'  BY <1>9 DEF SignInInv, RowsOK
    <2>2. /\ KnownOK' /\ RowsOK' /\ \A d \in RequestStates : CallOK(d) => CallOK(d)'
          /\ user'[x] = r
      BY <1>1, <1>5, <1>8, <1>9, CreateIsSafe, SameUnproven
    <2>3. QED  BY <1>1, <1>2, <1>5, <1>8, <1>9, <2>1, <2>2, HoldKeepsInv DEF Holding
  <1>10. QED  BY <1>1, <1>2, <1>7, <1>9, EndsQuietly, GotoKeepsInv

LEMMA IdentifyKeepsInv ==
  ASSUME SignInInv, NEW w \in Requests, LinkAdopt(w)
  PROVE  SignInInv'
  <1> DEFINE c == req[w]
             u == user[c.id]
             ra == [u EXCEPT !.provider = "apple", !.apple = c.fb.apple]
             rg == [u EXCEPT !.provider = "google",
                             !.uid = IF c.fb.uid # c.meUid /\ c.row.uid = Null
                                     THEN c.fb.uid ELSE @]
  <1>1. /\ c.at = "identify" /\ c.at \in Holding /\ Done(w) /\ UNCHANGED <<unused, asked, known, unproven>>
        /\ \/ Update(c.id, ra) /\ c.fb.apple # Null
           \/ Update(c.id, rg)
           \/ UNCHANGED user
    BY DEF LinkAdopt, Chosen, Holding
  <1>2. c.fb \in Firebase  BY <1>1, CallKnows DEF CallOK
  <1>3. /\ c.fb.uid \in Shown(c) /\ c.fb.uid \in Uids
        /\ c.fb.apple # Null => c.fb.apple \in Shown(c) \cap AppleIds
    BY <1>1, <1>2, CallKnows
  <1>4. u # Null => u \in Row  BY <1>1, HeldAccount
  <1>5. CASE Update(c.id, ra) /\ c.fb.apple # Null
    <2>1. u # Null => ra \in Row /\ Of(ra) \subseteq Shown(c) \cup Of(u)
      BY <1>3, <1>4, <1>5 DEF Row, Of, Issuers
    <2> HIDE DEF ra
    <2>2. QED  BY <1>1, <1>5, <2>1, LastWriteKeepsInv
  <1>6. CASE Update(c.id, rg)
    <2>1. ASSUME u # Null PROVE rg \in Row /\ Of(rg) \subseteq Shown(c) \cup Of(u)
      <3>1. rg \in Row /\ rg.email = u.email /\ rg.apple = u.apple /\ rg.uid \in {u.uid, c.fb.uid}
        BY <1>3, <1>4, <2>1 DEF Row, Issuers
      <3>2. QED  BY <1>3, <3>1 DEF Of
    <2> HIDE DEF rg
    <2>2. QED  BY <1>1, <1>6, <2>1, LastWriteKeepsInv
  <1>7. CASE UNCHANGED user  BY <1>1, <1>7, EndsQuietly
  <1>8. QED  BY <1>1, <1>5, <1>6, <1>7

LEMMA DeletionKeepsInv ==
  ASSUME SignInInv, NEW x \in Accounts, Delete(x)
  PROVE  SignInInv'
  <1>1. /\ UNCHANGED <<unused, req, asked, known, unproven>>
        /\ \A y \in Accounts : user'[y] = IF y = x THEN Null ELSE user[y]
        /\ user' \in [Accounts -> Row \cup {Null}]
    BY DEF Delete, SignInInv, RowsOK
  <1>2. \A A : OfOnePerson(A)' <=> OfOnePerson(A)  BY <1>1 DEF OfOnePerson
  <1>3. KnownOK'  BY <1>1, <1>2 DEF SignInInv, KnownOK
  <1>4. RowsOK'  BY <1>1, <1>2 DEF SignInInv, RowsOK, Unique, OnePersonPerAccount
  <1>8. \A c : Trusted(c)' <=> Trusted(c)  BY <1>1 DEF Trusted, Claims
  <1>5. \A c \in RequestStates : CallOK(c) => CallOK(c)'  BY <1>1, <1>2, <1>8 DEF CallOK
  <1>6. CallsOK'
    <2>1. ASSUME NEW w \in Requests PROVE CallOK(req[w])'
      <3>1. \E c \in RequestStates : c = req[w] /\ c = req'[w] /\ CallOK(c)'
        BY <1>1, <1>5 DEF SignInInv, CallsOK
      <3>2. QED  BY <3>1 DEF CallOK
    <2>2. QED  BY <1>1, <2>1 DEF SignInInv, CallsOK
  <1>7. QED  BY <1>3, <1>4, <1>6 DEF SignInInv, TokensOK

LEMMA SignInStepKeepsInv == SignInInv /\ [SignInNext]_signInVars => SignInInv'
  <1> SUFFICES ASSUME SignInInv, [SignInNext]_signInVars PROVE SignInInv'  OBVIOUS
  <1>1. ASSUME NEW w \in Requests, Stops(w) PROVE SignInInv'
    BY <1>1, EndsQuietly DEF Stops
  <1>2. CASE UNCHANGED signInVars
    BY <1>2 DEF signInVars, SignInInv, TokensOK, KnownOK, RowsOK, CallsOK, CallOK, Trusted,
       OnePersonPerAccount, OfOnePerson, Unique
  <1>3. QED
    BY <1>1, <1>2, Begins, FirebaseFindKeepsInv, FirebaseCreateKeepsInv, FirebaseUpdateKeepsInv,
       AppleFindKeepsInv, AppleCreateKeepsInv, AppleUpdateKeepsInv, AppleUidKeepsInv,
       LinkFindKeepsInv, LinkCreateKeepsInv, IdentifyKeepsInv, DeletionKeepsInv DEF SignInNext

\* Every reachable state of SignIns is well typed, and the unique keys of users
\* hold in it.
THEOREM SignInsTyped == SignInSpec => []SignInTypeOK
  BY SignInConstants, SignInInvHoldsInitially, SignInStepKeepsInv, SignInInvIsTyped, PTL DEF SignInSpec

\* However sign-ins, links, updates and deletions interleave between their
\* look-ups and their writes, no account ever holds identities of two persons,
\* but the ones that appleSignIn found or gave an address by a request's body.
THEOREM AccountsAreOfOnePerson == SignInSpec => []OnePersonPerAccount
  BY SignInConstants, SignInInvHoldsInitially, SignInStepKeepsInv, SignInInvIsTyped, PTL DEF SignInSpec
=============================================================================

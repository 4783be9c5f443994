------------------------- MODULE ApplePurchasesProofs -------------------------
(***************************************************************************)
(* Proofs about ApplePurchases, for any accounts, workers, subscription    *)
(* ids and transactions: its types, that the account of a purchase has its *)
(* subscription, where access comes from, who can take a purchase over,    *)
(* and that the notices implement NoticeLog.                               *)
(***************************************************************************)
EXTENDS ApplePurchases, TLAPS

Linking == {"commit", "bulk"}
Calls == [at : {"idle", "read", "commit", "bulk", "receipt", "update", "insert", "refund",
                "seek", "match", "renew", "create", "own", "notice"},
          user : Users \cup {None}, txn : Terms, ends : Terms, seen : Terms,
          row : RowIds \cup {None}, status : {"ACTIVE", "INACTIVE"}]

\* The account has the address of one that the purchase was linked to.
ComesFromLink(u) == \E v \in linked : EmailOf[v] = EmailOf[u]

\* What a call knows when it is at its step.
CallKept(x) ==
  /\ x.at \notin {"idle", "refund", "notice"} => x.user \in Users
  /\ x.at \in {"receipt", "update", "insert", "match", "renew", "create", "own"}
       => ComesFromLink(x.user)
  /\ x.at \in {"update", "refund", "renew", "own"} => x.row \in RowIds
  /\ x.at = "bulk" => ledger # None

OwnTypeOK ==
  /\ account \in [Users -> {"new", "live", "gone"}]
  /\ term \in Terms /\ now \in Terms
  /\ ledger \in Ledger \cup {None}
  /\ row \in [RowIds -> Rows \cup {None}]
  /\ owners \in SUBSET (RowIds \X Users)
  /\ call \in [Workers -> Calls]
  /\ linked \in SUBSET Users /\ overtaken \in SUBSET Workers /\ overrun \in BOOLEAN

CallsKept == \A w \in Workers : CallKept(call[w])

\* The ledger names an account, and an address, of `linked`.
LedgerFromLink ==
  ledger # None => /\ ledger.user # None => ledger.user \in linked
                   /\ ledger.email # None => \E v \in linked : EmailOf[v] = ledger.email

\* A request that is about to link, and has not been overtaken, still may.
LinkersMay ==
  \A w \in Workers : call[w].at \in Linking /\ w \notin overtaken => MayLink(call[w].user)

\* The inductive invariant of the part that is not the notices'.
Inv == /\ OwnTypeOK /\ CallsKept /\ LedgerFromLink /\ LinkersMay
       /\ AccessComesFromLink /\ LinkedHasSubscription

LEMMA TermsAreNumbers == Terms \subseteq Nat /\ 0 \in Terms /\ MaxTerm \in Nat
  BY AppleConstants DEF Terms

LEMMA QuietCallsKept ==
  ASSUME NEW status \in {"ACTIVE", "INACTIVE"}
  PROVE  /\ NoCall \in Calls /\ NoCall.at = "idle" /\ CallKept(NoCall)'
         /\ \E x \in Calls : /\ x = [NoCall EXCEPT !.at = "notice", !.status = status]
                             /\ x.at = "notice" /\ CallKept(x)'
  <1>1. NoCall \in Calls /\ NoCall.at = "idle"  BY TermsAreNumbers DEF NoCall, Calls
  <1>2. [NoCall EXCEPT !.at = "notice", !.status = status] \in Calls  BY <1>1 DEF Calls
  <1>3. [NoCall EXCEPT !.at = "notice", !.status = status].at = "notice"  BY DEF NoCall
  <1>4. QED  BY <1>1, <1>2, <1>3 DEF CallKept

LEMMA InvHoldsInitially == Init => Inv
  <1> SUFFICES ASSUME Init PROVE Inv  OBVIOUS
  <1>1. NoCall \in Calls /\ NoCall.at = "idle"  BY TermsAreNumbers DEF NoCall, Calls
  <1>2. OwnTypeOK  BY <1>1, TermsAreNumbers DEF Init, OwnTypeOK
  <1>3. CallsKept /\ LinkersMay  BY <1>1 DEF Init, CallsKept, CallKept, LinkersMay, Linking
  <1>4. LedgerFromLink /\ AccessComesFromLink /\ LinkedHasSubscription
    BY DEF Init, LedgerFromLink, AccessComesFromLink, LinkedHasSubscription
  <1>5. QED  BY <1>2, <1>3, <1>4 DEF Inv

-----------------------------------------------------------------------------
(* What a step leaves of the facts about calls.                            *)

LEMMA KeptCall ==
  ASSUME NEW x \in Calls, CallKept(x), linked \subseteq linked',
         ledger # None => ledger' # None
  PROVE  CallKept(x)'
  BY DEF CallKept, ComesFromLink

LEMMA CallMoves ==
  ASSUME Inv, NEW w \in Workers, NEW x \in Calls, CallKept(x)',
         call' = [call EXCEPT ![w] = x], linked \subseteq linked',
         ledger # None => ledger' # None
  PROVE  call' \in [Workers -> Calls] /\ CallsKept'
  <1>1. call \in [Workers -> Calls]  BY DEF Inv, OwnTypeOK
  <1>2. \A g \in Workers : call'[g] = IF g = w THEN x ELSE call[g]  BY <1>1
  <1>3. ASSUME NEW g \in Workers PROVE \E y \in Calls : y = call'[g] /\ CallKept(y)'
    <2>1. CASE g = w  BY <1>2, <2>1
    <2>2. CASE g # w
      <3>1. PICK y \in Calls : y = call[g]  BY <1>1
      <3>2. CallKept(y)  BY <3>1 DEF Inv, CallsKept
      <3>3. CallKept(y)'  BY <3>2, KeptCall
      <3>4. QED  BY <1>2, <2>2, <3>1, <3>3
    <2>3. QED  BY <2>1, <2>2
  <1>4. CallsKept'
    <2>1. SUFFICES ASSUME NEW g \in Workers PROVE CallKept(call[g])'  BY DEF CallsKept
    <2>2. PICK y \in Calls : y = call'[g] /\ CallKept(y)'  BY <1>3
    <2>3. QED  BY <2>2 DEF CallKept, ComesFromLink
  <1>5. QED  BY <1>1, <1>4

LEMMA CallsStay ==
  ASSUME Inv, call' = call, linked' = linked, ledger # None => ledger' # None
  PROVE  CallsKept'
  <1>1. SUFFICES ASSUME NEW g \in Workers PROVE CallKept(call[g])'  BY DEF CallsKept
  <1>2. PICK y \in Calls : y = call[g]  BY DEF Inv, OwnTypeOK
  <1>3. CallKept(y)  BY <1>2 DEF Inv, CallsKept
  <1>4. CallKept(y)'  BY <1>3, KeptCall
  <1>5. QED  BY <1>2, <1>4 DEF CallKept, ComesFromLink

\* Where the call of worker w is, and what its place says.
LEMMA Place ==
  ASSUME Inv, NEW w \in Workers
  PROVE  \E y \in Calls : y = call[w] /\ CallKept(y)
  BY DEF Inv, OwnTypeOK, CallsKept

\* A step that only moves the call of worker w.
LEMMA CallMoveKeepsInv ==
  ASSUME Inv, NEW w \in Workers, NEW x \in Calls, CallKept(x)',
         call' = [call EXCEPT ![w] = x],
         x.at \in Linking => MayLink(x.user),
         overtaken \subseteq overtaken' \cup {w}, overtaken' \subseteq Workers,
         UNCHANGED <<term, now, tables, linked, overrun>>
  PROVE  Inv'
  <1>1. call' \in [Workers -> Calls] /\ CallsKept'  BY CallMoves DEF tables
  <1>2. OwnTypeOK'  BY <1>1 DEF Inv, OwnTypeOK, tables
  <1>3. LinkersMay'
    <2>1. \A g \in Workers : call'[g] = IF g = w THEN x ELSE call[g]  BY DEF Inv, OwnTypeOK
    <2>2. QED  BY <2>1 DEF Inv, LinkersMay, MayLink, tables
  <1>4. LedgerFromLink' /\ AccessComesFromLink' /\ LinkedHasSubscription'
    BY DEF Inv, LedgerFromLink, AccessComesFromLink, LinkedHasSubscription, tables
  <1>5. QED  BY <1>1, <1>2, <1>3, <1>4 DEF Inv

LEMMA EndKeepsInv ==
  ASSUME Inv, NEW w \in Workers, End(w), UNCHANGED <<term, now, tables, linked, overrun>>,
         overtaken \subseteq overtaken' \cup {w}, overtaken' \subseteq Workers
  PROVE  Inv'
  BY QuietCallsKept, CallMoveKeepsInv DEF End, Linking

-----------------------------------------------------------------------------
(* Accounts, Apple, the clock                                              *)

LEMMA RegisterKeepsInv ==
  ASSUME Inv, NEW u \in Users, Register(u)
  PROVE  Inv'
  <1>1. CallsKept'  BY CallsStay DEF Register, history
  <1>2. OwnTypeOK'  BY DEF Register, Inv, OwnTypeOK, history
  <1>3. QED
    BY <1>1, <1>2 DEF Register, history, Inv, LinkersMay, MayLink, LedgerFromLink,
                      AccessComesFromLink, LinkedHasSubscription

LEMMA ClocksKeepInv ==
  ASSUME Inv, Renew \/ Tick
  PROVE  Inv'
  <1>1. term' \in Terms /\ now' \in Terms
    BY AppleConstants DEF Renew, Tick, Inv, OwnTypeOK, Terms
  <1>2. UNCHANGED <<tables, call, history>>  BY DEF Renew, Tick
  <1>3. CallsKept'  BY <1>2, CallsStay DEF tables, history
  <1>4. OwnTypeOK'  BY <1>1, <1>2 DEF Inv, OwnTypeOK, tables, history
  <1>5. QED
    BY <1>2, <1>3, <1>4 DEF tables, history, Inv, LinkersMay, MayLink, LedgerFromLink,
                            AccessComesFromLink, LinkedHasSubscription

LEMMA CaptureKeepsInv ==
  ASSUME Inv, NEW k \in Terms, Capture(k)
  PROVE  Inv'
  <1>1. PICK x \in Ledger : /\ ledger' = x
                            /\ ledger = None => x.user = None /\ x.email = None
                            /\ ledger # None => x.user = ledger.user /\ x.email = ledger.email
    <2>1. CASE ledger = None
      <3>1. [txn |-> k, ends |-> k, user |-> None, email |-> None] \in Ledger  BY DEF Ledger
      <3>2. QED  BY <2>1, <3>1 DEF Capture
    <2>2. CASE ledger # None
      <3>1. PICK y \in Ledger : y = ledger  BY <2>2 DEF Inv, OwnTypeOK
      <3>2. [y EXCEPT !.txn = k, !.ends = k] \in Ledger  BY DEF Ledger
      <3>3. QED  BY <2>2, <3>1, <3>2 DEF Capture, Ledger
    <2>3. QED  BY <2>1, <2>2
  <1>2. x # None  BY NoneIsNoRecord
  <1>3. CallsKept'  BY <1>1, <1>2, CallsStay DEF Capture, history
  <1>4. OwnTypeOK'  BY <1>1 DEF Capture, Inv, OwnTypeOK, history
  <1>5. LinkersMay'
    BY <1>1, <1>2 DEF Capture, history, Inv, OwnTypeOK, LinkersMay, MayLink
  <1>6. LedgerFromLink'  BY <1>1, <1>2 DEF Capture, history, Inv, LedgerFromLink
  <1>7. LinkedHasSubscription'
    BY <1>1, <1>2 DEF Capture, history, Inv, LinkedHasSubscription
  <1>8. AccessComesFromLink'  BY DEF Capture, history, Inv, AccessComesFromLink
  <1>9. QED  BY <1>3, <1>4, <1>5, <1>6, <1>7, <1>8 DEF Inv

\* What the deletion of account u leaves.
LEMMA DeletionLeaves ==
  ASSUME Inv, NEW u \in Users, DeleteAccount(u)
  PROVE  /\ ledger # None => /\ ledger' \in Ledger /\ ledger' # None
                             /\ ledger'.email = ledger.email
                             /\ ledger'.user = IF ledger.user = u THEN None ELSE ledger.user
         /\ ledger = None => ledger' = None
         /\ row' \in [RowIds -> Rows \cup {None}]
         /\ \A r \in RowIds : row[r] # None /\ row[r].user # u => row'[r] = row[r]
         /\ owners' \subseteq owners
         /\ \A o \in owners : o[2] # u /\ row'[o[1]] # None => o \in owners'
  <1>1. ledger # None => ledger \in Ledger  BY DEF Inv, OwnTypeOK
  <1>2. ledger # None => /\ ledger' \in Ledger
                         /\ ledger'.email = ledger.email
                         /\ ledger'.user = IF ledger.user = u THEN None ELSE ledger.user
    BY <1>1 DEF DeleteAccount, Ledger
  <1>3. ledger # None => ledger' # None  BY <1>2, NoneIsNoRecord
  <1>4. ledger = None => ledger' = None  BY DEF DeleteAccount
  <1>5. row' \in [RowIds -> Rows \cup {None}]  BY DEF DeleteAccount, Inv, OwnTypeOK
  <1>6. \A r \in RowIds : row[r] # None /\ row[r].user # u => row'[r] = row[r]
    BY DEF DeleteAccount
  <1>7. QED  BY <1>2, <1>3, <1>4, <1>5, <1>6 DEF DeleteAccount

LEMMA DeleteAccountKeepsInv ==
  ASSUME Inv, NEW u \in Users, DeleteAccount(u)
  PROVE  Inv'
  <1>1. UNCHANGED <<term, now, call, history>>  BY DEF DeleteAccount
  <1>2. CallsKept'  BY <1>1, DeletionLeaves, CallsStay DEF history
  <1>3. OwnTypeOK'
    BY <1>1, DeletionLeaves DEF DeleteAccount, Inv, OwnTypeOK, history
  <1>4. LinkersMay'
    BY <1>1, DeletionLeaves DEF history, Inv, LinkersMay, MayLink
  <1>5. LedgerFromLink'  BY <1>1, DeletionLeaves DEF history, Inv, LedgerFromLink
  <1>6. AccessComesFromLink'  BY <1>1, DeletionLeaves DEF history, Inv, AccessComesFromLink
  <1>7. LinkedHasSubscription'
    <2>1. SUFFICES ASSUME ledger' # None, ledger'.user # None, ~overrun
                   PROVE  \E r \in RowIds : /\ row'[r] # None /\ row'[r].user = ledger'.user
                                            /\ <<r, ledger'.user>> \in owners'
      BY <1>1 DEF LinkedHasSubscription, history
    <2>2. ledger # None /\ ledger.user # None /\ ledger.user # u /\ ledger'.user = ledger.user
      BY <2>1, DeletionLeaves
    <2>3. PICK r \in RowIds : /\ row[r] # None /\ row[r].user = ledger.user
                              /\ <<r, ledger.user>> \in owners
      BY <2>1, <2>2 DEF Inv, LinkedHasSubscription
    <2>4. row'[r] = row[r]  BY <2>2, <2>3, DeletionLeaves
    <2>5. <<r, ledger.user>> \in owners'
      BY <2>2, <2>3, <2>4, DeletionLeaves
    <2>6. QED  BY <2>2, <2>3, <2>4, <2>5
  <1>8. QED  BY <1>2, <1>3, <1>4, <1>5, <1>6, <1>7 DEF Inv

-----------------------------------------------------------------------------
(* Steps of a call that leave the tables alone                             *)

LEMMA NewCall ==
  ASSUME NEW w \in Workers, NEW at \in {"read", "bulk", "receipt", "seek"},
         NEW u \in Users, NEW k \in Terms, NEW ends \in Terms,
         NEW status \in {"ACTIVE", "INACTIVE"}, Begin(w, at, u, k, ends, status)
  PROVE  \E x \in Calls : /\ call' = [call EXCEPT ![w] = x]
                          /\ x.at = at /\ x.user = u
  <1>1. NoCall \in Calls  BY QuietCallsKept
  <1> DEFINE x == [NoCall EXCEPT !.at = at, !.user = u, !.txn = k, !.ends = ends,
                                 !.status = status]
  <1>2. x \in Calls /\ x.at = at /\ x.user = u  BY <1>1 DEF Calls
  <1>3. call' = [call EXCEPT ![w] = x]  BY DEF Begin
  <1>4. QED  BY <1>2, <1>3

LEMMA LinkBeginKeepsInv ==
  ASSUME Inv, NEW w \in Workers, NEW u \in Users, NEW k \in Terms, LinkBegin(w, u, k)
  PROVE  Inv'
  <1>1. PICK x \in Calls : /\ call' = [call EXCEPT ![w] = x]
                           /\ x.at = "read" /\ x.user = u
    <2>1. PICK ends \in Terms : Begin(w, "read", u, k, ends, "INACTIVE")
      BY TermsAreNumbers DEF LinkBegin, VerifiedEnds
    <2>2. QED  BY <2>1, NewCall
  <1>2. CallKept(x)'  BY <1>1 DEF CallKept
  <1>3. QED
    BY <1>1, <1>2, CallMoveKeepsInv DEF LinkBegin, Linking, history, Inv, OwnTypeOK

LEMMA LinkReadKeepsInv ==
  ASSUME Inv, NEW w \in Workers, LinkRead(w)
  PROVE  Inv'
  <1>1. PICK y \in Calls : y = call[w] /\ CallKept(y)  BY Place
  <1>2. overtaken' \subseteq Workers /\ overtaken \subseteq overtaken' \cup {w}
    BY DEF LinkRead, Inv, OwnTypeOK
  <1>3. CASE End(w)  BY <1>2, <1>3, EndKeepsInv DEF LinkRead
  <1>4. CASE ~End(w)
    <2>1. MayLink(y.user) /\ y.user \in Users
      BY <1>1, <1>4 DEF LinkRead, CallKept
    <2>2. PICK x \in Calls : /\ call' = [call EXCEPT ![w] = x]
                             /\ x.at = "commit" /\ x.user = y.user
      <3>1. CASE ledger = None
        <4>1. [y EXCEPT !.at = "commit"] \in Calls  BY DEF Calls
        <4>2. call' = [call EXCEPT ![w] = [y EXCEPT !.at = "commit"]]
          BY <1>1, <1>4, <3>1 DEF LinkRead, Inv, OwnTypeOK
        <4>3. QED  BY <4>1, <4>2 DEF Calls
      <3>2. CASE ledger # None
        <4>1. PICK l \in Ledger : l = ledger  BY <3>2 DEF Inv, OwnTypeOK
        <4>2. PICK ends \in Terms : ends = IF y.ends = 0 THEN l.ends ELSE y.ends
          BY DEF Calls, Ledger
        <4>3. [y EXCEPT !.at = "commit", !.seen = l.txn, !.ends = ends] \in Calls
          BY DEF Calls, Ledger
        <4>4. call' = [call EXCEPT ![w] = [y EXCEPT !.at = "commit", !.seen = l.txn,
                                                    !.ends = ends]]
          BY <1>1, <1>4, <3>2, <4>1, <4>2 DEF LinkRead, Inv, OwnTypeOK, Calls
        <4>5. QED  BY <4>3, <4>4 DEF Calls
      <3>3. QED  BY <3>1, <3>2
    <2>3. CallKept(x)'  BY <2>1, <2>2 DEF CallKept
    <2>4. QED  BY <1>2, <2>1, <2>2, <2>3, CallMoveKeepsInv DEF LinkRead
  <1>5. QED  BY <1>3, <1>4

LEMMA LinkFailsKeepsInv ==
  ASSUME Inv, NEW w \in Workers, LinkFails(w)
  PROVE  Inv'
  BY EndKeepsInv DEF LinkFails, history, Inv, OwnTypeOK

LEMMA BulkBeginKeepsInv ==
  ASSUME Inv, NEW w \in Workers, NEW u \in Users, BulkBegin(w, u)
  PROVE  Inv'
  <1>1. PICK l \in Ledger : l = ledger  BY DEF BulkBegin, Inv, OwnTypeOK
  <1>2. Begin(w, "bulk", u, l.txn, l.ends, Expected(l.ends)) /\ l.txn \in Terms /\ l.ends \in Terms
    BY <1>1 DEF BulkBegin, Ledger
  <1>3. Expected(l.ends) \in {"ACTIVE", "INACTIVE"}  BY DEF Expected
  <1>4. PICK x \in Calls : /\ call' = [call EXCEPT ![w] = x]
                           /\ x.at = "bulk" /\ x.user = u
    BY <1>2, <1>3, NewCall
  <1>5. CallKept(x)'  BY <1>4 DEF CallKept, BulkBegin, tables
  <1>6. overtaken' \subseteq Workers /\ overtaken \subseteq overtaken' \cup {w}
    BY DEF BulkBegin, Inv, OwnTypeOK
  <1>7. QED  BY <1>4, <1>5, <1>6, CallMoveKeepsInv DEF BulkBegin

LEMMA ReceiptBeginKeepsInv ==
  ASSUME Inv, NEW w \in Workers, NEW k \in Terms, ReceiptBegin(w, k)
  PROVE  Inv'
  <1>1. PICK l \in Ledger : l = ledger /\ l.user \in Users /\ l.user \in linked
    BY DEF ReceiptBegin, Inv, OwnTypeOK, LedgerFromLink, Ledger
  <1>2. Begin(w, "receipt", l.user, k, k, Expected(k))  BY <1>1 DEF ReceiptBegin
  <1>3. Expected(k) \in {"ACTIVE", "INACTIVE"}  BY DEF Expected
  <1>4. PICK x \in Calls : /\ call' = [call EXCEPT ![w] = x]
                           /\ x.at = "receipt" /\ x.user = l.user
    BY <1>1, <1>2, <1>3, NewCall
  <1>5. CallKept(x)'  BY <1>1, <1>4 DEF CallKept, ComesFromLink, ReceiptBegin, history
  <1>6. QED
    BY <1>4, <1>5, CallMoveKeepsInv DEF ReceiptBegin, Linking, history, Inv, OwnTypeOK

LEMMA RefundFindKeepsInv ==
  ASSUME Inv, NEW w \in Workers, RefundFind(w)
  PROVE  Inv'
  <1>1. PICK r \in RowIds : call' = [call EXCEPT ![w] = [NoCall EXCEPT !.at = "refund", !.row = r]]
    BY DEF RefundFind, Existing
  <1>2. PICK x \in Calls : /\ x = [NoCall EXCEPT !.at = "refund", !.row = r]
                           /\ x.at = "refund" /\ x.row = r
    <2>1. [NoCall EXCEPT !.at = "refund", !.row = r] \in Calls
          /\ [NoCall EXCEPT !.at = "refund", !.row = r].at = "refund"
          /\ [NoCall EXCEPT !.at = "refund", !.row = r].row = r
      BY QuietCallsKept DEF Calls
    <2>2. QED  BY <2>1
  <1>3. CallKept(x)'  BY <1>2 DEF CallKept
  <1>4. QED
    BY <1>1, <1>2, <1>3, CallMoveKeepsInv DEF RefundFind, Linking, history, Inv, OwnTypeOK

LEMMA SignInLookKeepsInv ==
  ASSUME Inv, NEW w \in Workers, NEW u \in Users, SignInLook(w, u)
  PROVE  Inv'
  <1>1. PICK x \in Calls : /\ call' = [call EXCEPT ![w] = x]
                           /\ x.at = "seek" /\ x.user = u
    BY NewCall, TermsAreNumbers DEF SignInLook
  <1>2. CallKept(x)'  BY <1>1 DEF CallKept
  <1>3. QED
    BY <1>1, <1>2, CallMoveKeepsInv DEF SignInLook, Linking, history, Inv, OwnTypeOK

\* A purchase of the account, or of its address, is one that was linked to it
\* or to an account of that address.
LEMMA SignInSeekKeepsInv ==
  ASSUME Inv, NEW w \in Workers, SignInSeek(w)
  PROVE  Inv'
  <1>1. PICK y \in Calls : y = call[w] /\ CallKept(y) /\ y.at = "seek" /\ y.user \in Users
    BY Place DEF SignInSeek, CallKept
  <1>2. CASE End(w)  BY <1>2, EndKeepsInv DEF SignInSeek, history, Inv, OwnTypeOK
  <1>3. CASE ~End(w)
    <2>1. PICK l \in Ledger : l = ledger
      BY <1>3 DEF SignInSeek, OfAccount, Inv, OwnTypeOK
    <2>2. l # None /\ (l.user = y.user \/ l.email = EmailOf[y.user])
      BY <1>1, <1>3, <2>1 DEF SignInSeek, OfAccount
    <2>3. ComesFromLink(y.user)
      <3>1. CASE l.user = y.user
        BY <1>1, <2>1, <2>2, <3>1, AppleConstants DEF Inv, LedgerFromLink, ComesFromLink
      <3>2. CASE l.email = EmailOf[y.user]
        <4>1. EmailOf[y.user] # None  BY AppleConstants, <1>1
        <4>2. QED  BY <2>1, <2>2, <3>2, <4>1 DEF Inv, LedgerFromLink, ComesFromLink
      <3>3. QED  BY <2>2, <3>1, <3>2
    <2>4. PICK x \in Calls : /\ x = [y EXCEPT !.at = "match", !.txn = l.txn, !.ends = l.ends]
                             /\ x.at = "match" /\ x.user = y.user
      <3>1. [y EXCEPT !.at = "match", !.txn = l.txn, !.ends = l.ends] \in Calls
            /\ [y EXCEPT !.at = "match", !.txn = l.txn, !.ends = l.ends].at = "match"
            /\ [y EXCEPT !.at = "match", !.txn = l.txn, !.ends = l.ends].user = y.user
        BY DEF Calls, Ledger
      <3>2. QED  BY <3>1
    <2>5. call' = [call EXCEPT ![w] = x]
      BY <1>1, <1>3, <2>1, <2>4 DEF SignInSeek, Inv, OwnTypeOK
    <2>6. CallKept(x)'
      BY <1>1, <2>3, <2>4 DEF CallKept, ComesFromLink, SignInSeek, history
    <2>7. QED
      BY <2>4, <2>5, <2>6, CallMoveKeepsInv DEF SignInSeek, Linking, history, Inv, OwnTypeOK
  <1>4. QED  BY <1>2, <1>3

LEMMA DiesKeepsInv ==
  ASSUME Inv, NEW w \in Workers, Dies(w) \/ NotifyPaid(w)
  PROVE  Inv'
  BY EndKeepsInv DEF Dies, NotifyPaid, history, Inv, OwnTypeOK

LEMMA UnchangedKeepsInv ==
  ASSUME Inv, UNCHANGED <<term, now, tables, call, history>>
  PROVE  Inv'
  <1>1. CallsKept'  BY CallsStay DEF tables, history
  <1>2. OwnTypeOK'  BY DEF Inv, OwnTypeOK, tables, history
  <1>3. QED
    BY <1>1, <1>2 DEF tables, history, Inv, LinkersMay, MayLink, LedgerFromLink,
                      AccessComesFromLink, LinkedHasSubscription

-----------------------------------------------------------------------------
(* Steps that write a subscription or its owner                            *)

\* An existing row keeps its account.
LEMMA RowWriteKeepsInv ==
  ASSUME Inv, NEW w \in Workers, NEW x \in Calls, CallKept(x)', x.at \notin Linking,
         call' = [call EXCEPT ![w] = x],
         NEW r \in RowIds, NEW y \in Rows, row' = [row EXCEPT ![r] = y],
         row[r] # None => y.user = row[r].user,
         owners \subseteq owners', owners' \subseteq RowIds \X Users,
         \A o \in owners' : o \in owners \/ ComesFromLink(o[2]),
         UNCHANGED <<account, term, now, ledger, history>>
  PROVE  Inv'
  <1>1. call' \in [Workers -> Calls] /\ CallsKept'  BY CallMoves DEF history
  <1>2. OwnTypeOK'  BY <1>1 DEF Inv, OwnTypeOK, history
  <1>3. LinkersMay'
    <2>1. \A g \in Workers : call'[g] = IF g = w THEN x ELSE call[g]  BY DEF Inv, OwnTypeOK
    <2>2. QED  BY <2>1 DEF Inv, LinkersMay, MayLink, history
  <1>4. LedgerFromLink'  BY DEF Inv, LedgerFromLink, history
  <1>5. AccessComesFromLink'
    BY DEF Inv, AccessComesFromLink, ComesFromLink, history
  <1>6. LinkedHasSubscription'
    <2>1. \A s \in RowIds : row[s] # None => row'[s] # None /\ row'[s].user = row[s].user
      BY NoneIsNoRecord DEF Inv, OwnTypeOK
    <2>2. QED  BY <2>1 DEF Inv, LinkedHasSubscription, history
  <1>7. QED  BY <1>1, <1>2, <1>3, <1>4, <1>5, <1>6 DEF Inv

\* The same when the owners stay.
LEMMA OwnedRowWriteKeepsInv ==
  ASSUME Inv, NEW w \in Workers, NEW x \in Calls, CallKept(x)', x.at \notin Linking,
         call' = [call EXCEPT ![w] = x],
         NEW r \in RowIds, NEW y \in Rows, row' = [row EXCEPT ![r] = y],
         row[r] # None => y.user = row[r].user,
         UNCHANGED <<account, term, now, ledger, owners, history>>
  PROVE  Inv'
  <1>1. owners' = owners /\ owners' \subseteq RowIds \X Users  BY DEF Inv, OwnTypeOK
  <1>2. \A o \in owners' : o \in owners \/ ComesFromLink(o[2])  BY <1>1
  <1>3. QED  BY <1>1, <1>2, RowWriteKeepsInv

LEMMA PaidIsRow ==
  ASSUME Inv, NEW w \in Workers, NEW r \in RowIds, NEW u \in Users,
         NEW status \in {"ACTIVE", "INACTIVE"}
  PROVE  Paid(w, r, u, status) \in Rows /\ Paid(w, r, u, status).user = u
  <1>1. row[r] # None => row[r] \in Rows  BY DEF Inv, OwnTypeOK
  <1>2. call[w].txn \in Terms /\ call[w].ends \in Terms  BY DEF Inv, OwnTypeOK, Calls
  <1>3. QED  BY <1>1, <1>2 DEF Paid, Rows

\* A call moves on to the row that it found.
LEMMA FoundKeepsInv ==
  ASSUME Inv, NEW w \in Workers, NEW z \in Calls, z = call[w], z.user \in Users,
         ComesFromLink(z.user), NEW r \in RowIds \cup {None},
         NEW at \in {"update", "insert", "renew", "create"},
         at \in {"update", "renew"} => r \in RowIds, At(w, at, r),
         UNCHANGED <<term, now, tables, history>>
  PROVE  Inv'
  <1>1. PICK x \in Calls : /\ x = [z EXCEPT !.at = at, !.row = r]
                           /\ x.at = at /\ x.row = r /\ x.user = z.user
    <2>1. /\ [z EXCEPT !.at = at, !.row = r] \in Calls
          /\ [z EXCEPT !.at = at, !.row = r].at = at
          /\ [z EXCEPT !.at = at, !.row = r].row = r
          /\ [z EXCEPT !.at = at, !.row = r].user = z.user
      BY DEF Calls
    <2>2. QED  BY <2>1
  <1>2. call' = [call EXCEPT ![w] = x]  BY <1>1 DEF At, Inv, OwnTypeOK
  <1>3. CallKept(x)'  BY <1>1 DEF CallKept, ComesFromLink, history
  <1>4. QED
    BY <1>1, <1>2, <1>3, CallMoveKeepsInv DEF Linking, history, Inv, OwnTypeOK

LEMMA FindersKeepInv ==
  ASSUME Inv, NEW w \in Workers, ReceiptFind(w) \/ SignInMatch(w)
  PROVE  Inv'
  <1>1. PICK z \in Calls : z = call[w] /\ z.user \in Users /\ ComesFromLink(z.user)
    BY Place DEF ReceiptFind, SignInMatch, CallKept
  <1>2. \E at \in {"update", "insert", "renew", "create"}, r \in RowIds \cup {None} :
          (at \in {"update", "renew"} => r \in RowIds) /\ At(w, at, r)
    BY DEF ReceiptFind, SignInMatch, Existing
  <1>3. QED  BY <1>1, <1>2, FoundKeepsInv DEF ReceiptFind, SignInMatch

LEMMA FailuresKeepInv ==
  ASSUME Inv, NEW w \in Workers, ReceiptFails(w) \/ SignInFails(w)
  PROVE  Inv'
  BY EndKeepsInv DEF ReceiptFails, SignInFails, history, Inv, OwnTypeOK

LEMMA ReceiptUpdateKeepsInv ==
  ASSUME Inv, NEW w \in Workers, ReceiptUpdate(w)
  PROVE  Inv'
  <1>1. PICK z \in Calls : /\ z = call[w] /\ z.row \in RowIds
                           /\ z.status \in {"ACTIVE", "INACTIVE"}
    BY Place DEF ReceiptUpdate, CallKept, Calls
  <1>2. PICK x \in Calls : x.at = "notice" /\ CallKept(x)' /\ call' = [call EXCEPT ![w] = x]
    BY <1>1, QuietCallsKept DEF ReceiptUpdate, Answer
  <1>3. row[z.row] # None /\ row[z.row].user \in Users
    BY <1>1 DEF ReceiptUpdate, Inv, OwnTypeOK, Rows
  <1>4. PICK y \in Rows : /\ y = Paid(w, z.row, row[z.row].user, z.status)
                          /\ y.user = row[z.row].user
    BY <1>1, <1>3, PaidIsRow
  <1>5. row' = [row EXCEPT ![z.row] = y]
    BY <1>1, <1>4 DEF ReceiptUpdate, Inv, OwnTypeOK
  <1>6. QED
    BY <1>1, <1>2, <1>4, <1>5, OwnedRowWriteKeepsInv DEF ReceiptUpdate, Linking

LEMMA ReceiptInsertKeepsInv ==
  ASSUME Inv, NEW w \in Workers, ReceiptInsert(w)
  PROVE  Inv'
  <1>1. PICK z \in Calls : /\ z = call[w] /\ z.user \in Users /\ ComesFromLink(z.user)
                           /\ z.status \in {"ACTIVE", "INACTIVE"}
    BY Place DEF ReceiptInsert, CallKept, Calls
  <1>2. PICK x \in Calls : x.at = "notice" /\ CallKept(x)' /\ call' = [call EXCEPT ![w] = x]
    BY <1>1, QuietCallsKept DEF ReceiptInsert, Answer
  <1>3. PICK r \in RowIds : /\ row[r] = None
                            /\ row' = [row EXCEPT ![r] = Paid(w, r, z.user, z.status)]
                            /\ owners' = owners \cup {<<r, z.user>>}
    BY <1>1 DEF ReceiptInsert, Existing
  <1>4. PICK y \in Rows : y = Paid(w, r, z.user, z.status)  BY <1>1, PaidIsRow
  <1>5. /\ owners \subseteq owners' /\ owners' \subseteq RowIds \X Users
        /\ \A o \in owners' : o \in owners \/ ComesFromLink(o[2])
    BY <1>1, <1>3 DEF Inv, OwnTypeOK
  <1>6. row' = [row EXCEPT ![r] = y]  BY <1>3, <1>4
  <1>7. QED
    BY <1>2, <1>3, <1>5, <1>6, RowWriteKeepsInv DEF ReceiptInsert, Linking

LEMMA RefundWriteKeepsInv ==
  ASSUME Inv, NEW w \in Workers, RefundWrite(w)
  PROVE  Inv'
  <1>1. PICK z \in Calls : z = call[w] /\ z.row \in RowIds
    BY Place DEF RefundWrite, CallKept
  <1>2. CASE row[z.row] = None
    BY <1>1, <1>2, EndKeepsInv DEF RefundWrite, tables, history, Inv, OwnTypeOK
  <1>3. CASE row[z.row] # None
    <2>1. PICK y \in Rows : y = row[z.row]  BY <1>1, <1>3 DEF Inv, OwnTypeOK
    <2>2. row' = [row EXCEPT ![z.row] = [y EXCEPT !.status = "CANCELLED"]]
      BY <1>1, <1>3, <2>1 DEF RefundWrite, Inv, OwnTypeOK
    <2>3. [y EXCEPT !.status = "CANCELLED"] \in Rows
          /\ [y EXCEPT !.status = "CANCELLED"].user = y.user
      BY DEF Rows
    <2>4. call' = [call EXCEPT ![w] = NoCall] /\ NoCall \in Calls /\ CallKept(NoCall)'
          /\ NoCall.at \notin Linking
      BY QuietCallsKept DEF RefundWrite, End, Linking
    <2>5. QED
      BY <1>1, <2>1, <2>2, <2>3, <2>4, OwnedRowWriteKeepsInv DEF RefundWrite
  <1>4. QED  BY <1>2, <1>3

\* A sign-in may write its own account back into the row: into its own, or as
\* an overrun.
LEMMA SignInRenewKeepsInv ==
  ASSUME Inv, NEW w \in Workers, SignInRenew(w)
  PROVE  Inv'
  <1>1. PICK z \in Calls : z = call[w] /\ z.user \in Users /\ z.row \in RowIds
    BY Place DEF SignInRenew, CallKept
  <1>2. PICK y \in Rows : y = Paid(w, z.row, z.user, "ACTIVE") /\ y.user = z.user
    BY <1>1, PaidIsRow
  <1>3. /\ row' = [row EXCEPT ![z.row] = y] /\ row[z.row] # None
        /\ overrun' = (overrun \/ row[z.row].user # z.user)
        /\ UNCHANGED <<account, term, now, ledger, owners, linked, overtaken>>
    BY <1>1, <1>2 DEF SignInRenew
  <1>4. /\ NoCall \in Calls /\ CallKept(NoCall)' /\ NoCall.at \notin Linking
        /\ call' = [call EXCEPT ![w] = NoCall]
    BY QuietCallsKept DEF Linking, SignInRenew, End
  <1>5. call' \in [Workers -> Calls] /\ CallsKept'  BY <1>3, <1>4, CallMoves
  <1>6. OwnTypeOK'
    <2>1. overrun' \in BOOLEAN  BY <1>3 DEF Inv, OwnTypeOK
    <2>2. row' \in [RowIds -> Rows \cup {None}]  BY <1>3 DEF Inv, OwnTypeOK
    <2>3. QED  BY <1>3, <1>5, <2>1, <2>2 DEF Inv, OwnTypeOK
  <1>7. LinkersMay'
    <2>1. \A g \in Workers : call'[g] = IF g = w THEN NoCall ELSE call[g]
      BY <1>4 DEF Inv, OwnTypeOK
    <2>2. QED  BY <1>3, <1>4, <2>1 DEF Inv, LinkersMay, MayLink
  <1>8. LedgerFromLink' /\ AccessComesFromLink'
    BY <1>3 DEF Inv, LedgerFromLink, AccessComesFromLink
  <1>9. LinkedHasSubscription'
    <2>1. CASE overrun \/ row[z.row].user # z.user  BY <1>3, <2>1 DEF LinkedHasSubscription
    <2>2. CASE ~overrun /\ row[z.row].user = z.user
      <3>1. \A s \in RowIds : row[s] # None => row'[s] # None /\ row'[s].user = row[s].user
        BY <1>1, <1>2, <1>3, <2>2, NoneIsNoRecord DEF Inv, OwnTypeOK
      <3>2. QED  BY <1>3, <2>2, <3>1 DEF Inv, LinkedHasSubscription
    <2>3. QED  BY <2>1, <2>2
  <1>10. QED  BY <1>5, <1>6, <1>7, <1>8, <1>9 DEF Inv

LEMMA SignInCreateKeepsInv ==
  ASSUME Inv, NEW w \in Workers, SignInCreate(w)
  PROVE  Inv'
  <1>1. PICK z \in Calls : z = call[w] /\ z.user \in Users /\ ComesFromLink(z.user)
    BY Place DEF SignInCreate, CallKept
  <1>2. PICK r \in RowIds : /\ row[r] = None
                            /\ row' = [row EXCEPT ![r] = Paid(w, r, z.user, "ACTIVE")]
                            /\ At(w, "own", r)
    BY <1>1 DEF SignInCreate, Existing
  <1>3. PICK x \in Calls : /\ x = [z EXCEPT !.at = "own", !.row = r]
                           /\ x.at = "own" /\ x.row = r /\ x.user = z.user
    <2>1. /\ [z EXCEPT !.at = "own", !.row = r] \in Calls
          /\ [z EXCEPT !.at = "own", !.row = r].at = "own"
          /\ [z EXCEPT !.at = "own", !.row = r].row = r
          /\ [z EXCEPT !.at = "own", !.row = r].user = z.user
      BY DEF Calls
    <2>2. QED  BY <2>1
  <1>4. call' = [call EXCEPT ![w] = x]  BY <1>1, <1>2, <1>3 DEF At, Inv, OwnTypeOK
  <1>5. CallKept(x)'  BY <1>1, <1>3 DEF CallKept, ComesFromLink, SignInCreate, history
  <1>6. PICK y \in Rows : y = Paid(w, r, z.user, "ACTIVE")  BY <1>1, PaidIsRow
  <1>7. row' = [row EXCEPT ![r] = y]  BY <1>2, <1>6
  <1>8. QED
    BY <1>2, <1>3, <1>4, <1>5, <1>7, OwnedRowWriteKeepsInv DEF SignInCreate, Linking

LEMMA SignInOwnKeepsInv ==
  ASSUME Inv, NEW w \in Workers, SignInOwn(w)
  PROVE  Inv'
  <1>1. PICK z \in Calls : /\ z = call[w] /\ z.row \in RowIds /\ z.user \in Users
                           /\ ComesFromLink(z.user)
    BY Place DEF SignInOwn, CallKept
  <1>2. owners' = owners \/ owners' = owners \cup {<<z.row, z.user>>}
    BY <1>1 DEF SignInOwn
  <1>3. /\ owners \subseteq owners' /\ owners' \subseteq RowIds \X Users
        /\ \A o \in owners' : o \in owners \/ ComesFromLink(o[2])
    BY <1>1, <1>2 DEF Inv, OwnTypeOK
  <1>4. NoCall \in Calls /\ CallKept(NoCall)' /\ NoCall.at \notin Linking
    BY QuietCallsKept DEF Linking
  <1>5. UNCHANGED <<account, term, now, ledger, row, history>> /\ call' = [call EXCEPT ![w] = NoCall]
    BY DEF SignInOwn, End
  <1>6. CallsKept' /\ call' \in [Workers -> Calls]  BY <1>4, <1>5, CallMoves DEF history
  <1>7. OwnTypeOK'  BY <1>3, <1>5, <1>6 DEF Inv, OwnTypeOK, history
  <1>8. LinkersMay'
    <2>1. \A g \in Workers : call'[g] = IF g = w THEN NoCall ELSE call[g]
      BY <1>5 DEF Inv, OwnTypeOK
    <2>2. QED  BY <1>4, <1>5, <2>1 DEF Inv, LinkersMay, MayLink, history
  <1>9. AccessComesFromLink'
    BY <1>3, <1>5 DEF Inv, AccessComesFromLink, ComesFromLink, history
  <1>10. LedgerFromLink' /\ LinkedHasSubscription'
    BY <1>3, <1>5 DEF Inv, LedgerFromLink, LinkedHasSubscription, history
  <1>11. QED  BY <1>6, <1>7, <1>8, <1>9, <1>10 DEF Inv

-----------------------------------------------------------------------------
(* The transaction of a link                                               *)

LEMMA StoreLinkKeepsInv ==
  ASSUME Inv, NEW w \in Workers, NEW r \in RowIds, NEW x \in Ledger,
         NEW status \in {"ACTIVE", "INACTIVE"},
         call[w].at \in Linking, x.user = call[w].user, x.email = EmailOf[call[w].user],
         StoreLink(w, r, x, status)
  PROVE  Inv'
  <1>1. PICK z \in Calls : z = call[w] /\ z.user \in Users
    BY Place DEF CallKept, Linking
  <1>2. PICK c \in Calls : c.at = "notice" /\ CallKept(c)' /\ call' = [call EXCEPT ![w] = c]
    BY QuietCallsKept DEF StoreLink, Answer
  <1>3. CASE Aborted(w, r)
    BY <1>2, <1>3, CallMoveKeepsInv
       DEF StoreLink, LedgerStored, Linking, tables, history, Inv, OwnTypeOK
  <1>4. CASE ~Aborted(w, r)
    <2>1. /\ ledger' = x /\ linked' = linked \cup {z.user}
          /\ overtaken' = {v \in Workers \ {w} : call[v].at \in Linking} /\ overrun' = FALSE
          /\ owners' = owners \cup {<<r, z.user>>}
          /\ UNCHANGED <<account, term, now>>
      BY <1>1, <1>4 DEF StoreLink, LedgerStored, Linking
    <2>2. PICK y \in Rows : y.user = z.user /\ row' = [row EXCEPT ![r] = y]
      BY <1>1, <1>4, PaidIsRow DEF StoreLink
    <2>3. x # None /\ y # None /\ x.user = z.user /\ x.email = EmailOf[z.user]
      BY <1>1, NoneIsNoRecord
    <2>4. call' \in [Workers -> Calls] /\ CallsKept'
      BY <1>2, <2>1, <2>3, CallMoves
    <2>5. OwnTypeOK'
      <3>1. overrun' \in BOOLEAN  BY <2>1
      <3>2. row' \in [RowIds -> Rows \cup {None}]  BY <2>2 DEF Inv, OwnTypeOK
      <3>3. QED  BY <1>1, <2>1, <2>4, <3>1, <3>2 DEF Inv, OwnTypeOK
    <2>6. LedgerFromLink'  BY <1>1, <2>1, <2>3 DEF LedgerFromLink
    <2>7. LinkersMay'
      <3>1. \A g \in Workers : call'[g] = IF g = w THEN c ELSE call[g]
        BY <1>2 DEF Inv, OwnTypeOK
      <3>2. QED  BY <1>2, <2>1, <3>1 DEF LinkersMay, Linking
    <2>8. AccessComesFromLink'
      BY <1>1, <2>1 DEF Inv, OwnTypeOK, AccessComesFromLink
    <2>9. LinkedHasSubscription'
      BY <1>1, <2>1, <2>2, <2>3 DEF Inv, OwnTypeOK, LinkedHasSubscription
    <2>10. QED  BY <2>4, <2>5, <2>6, <2>7, <2>8, <2>9 DEF Inv
  <1>5. QED  BY <1>3, <1>4

\* Both kinds of link end in StoreLink.
LEMMA CommitStoresLink ==
  ASSUME Inv, NEW w \in Workers, LinkCommit(w) \/ BulkCommit(w)
  PROVE  \E r \in RowIds, x \in Ledger, status \in {"ACTIVE", "INACTIVE"} :
           /\ call[w].at \in Linking /\ x.user = call[w].user
           /\ x.email = EmailOf[call[w].user] /\ StoreLink(w, r, x, status)
  <1>1. PICK z \in Calls : z = call[w] /\ CallKept(z) /\ z.at \in Linking /\ z.user \in Users
    BY Place DEF LinkCommit, BulkCommit, Linking, CallKept
  <1>2. Candidates \subseteq RowIds  BY DEF Candidates, Existing
  <1>3. EmailOf[z.user] \in Emails  BY <1>1 DEF Emails
  <1>4. CASE LinkCommit(w)
    <2>1. PICK x : x = [txn |-> z.txn, ends |-> z.ends, user |-> z.user,
                        email |-> EmailOf[z.user]]
      OBVIOUS
    <2>2. x \in Ledger /\ x.user = z.user /\ x.email = EmailOf[z.user]
      BY <1>1, <1>3, <2>1 DEF Ledger, Calls
    <2>3. Expected(z.ends) \in {"ACTIVE", "INACTIVE"}  BY DEF Expected
    <2>4. \E r \in RowIds : StoreLink(w, r, x, Expected(z.ends))
      BY <1>1, <1>2, <1>4, <2>1 DEF LinkCommit
    <2>5. QED  BY <1>1, <2>2, <2>3, <2>4
  <1>5. CASE BulkCommit(w)
    <2>1. PICK l \in Ledger : l = ledger
      BY <1>1, <1>5 DEF BulkCommit, CallKept, Inv, OwnTypeOK
    <2>2. PICK x : x = [l EXCEPT !.user = z.user, !.email = EmailOf[z.user]]
      OBVIOUS
    <2>3. x \in Ledger /\ x.user = z.user /\ x.email = EmailOf[z.user]
      BY <1>1, <1>3, <2>2 DEF Ledger
    <2>4. z.status \in {"ACTIVE", "INACTIVE"}  BY DEF Calls
    <2>5. \E r \in RowIds : StoreLink(w, r, x, z.status)
      BY <1>1, <1>2, <1>5, <2>1, <2>2 DEF BulkCommit
    <2>6. QED  BY <1>1, <2>3, <2>4, <2>5
  <1>6. QED  BY <1>4, <1>5

LEMMA NextKeepsInv == Inv /\ [Next]_vars => Inv'
  <1> SUFFICES ASSUME Inv, [Next]_vars PROVE Inv'  OBVIOUS
  <1>1. CASE Renew \/ Tick  BY <1>1, ClocksKeepInv
  <1>2. ASSUME NEW u \in Users, Register(u) \/ DeleteAccount(u) PROVE Inv'
    BY <1>2, RegisterKeepsInv, DeleteAccountKeepsInv
  <1>3. ASSUME NEW k \in Terms, Capture(k) PROVE Inv'  BY <1>3, CaptureKeepsInv
  <1>4. ASSUME NEW w \in Workers, NEW u \in Users,
               (\E k \in Terms : LinkBegin(w, u, k)) \/ BulkBegin(w, u) \/ SignInLook(w, u)
        PROVE  Inv'
    BY <1>4, LinkBeginKeepsInv, BulkBeginKeepsInv, SignInLookKeepsInv
  <1>5. ASSUME NEW w \in Workers, NEW k \in Terms, ReceiptBegin(w, k) PROVE Inv'
    BY <1>5, ReceiptBeginKeepsInv
  <1>6. ASSUME NEW w \in Workers, LinkCommit(w) \/ BulkCommit(w) PROVE Inv'
    BY <1>6, CommitStoresLink, StoreLinkKeepsInv
  <1>7. ASSUME NEW w \in Workers,
               \/ LinkRead(w) \/ LinkFails(w) \/ ReceiptFind(w) \/ ReceiptUpdate(w)
               \/ ReceiptInsert(w) \/ ReceiptFails(w) \/ RefundFind(w) \/ RefundWrite(w)
        PROVE  Inv'
    BY <1>7, LinkReadKeepsInv, LinkFailsKeepsInv, FindersKeepInv, FailuresKeepInv,
       ReceiptUpdateKeepsInv, ReceiptInsertKeepsInv, RefundFindKeepsInv, RefundWriteKeepsInv
  <1>8. ASSUME NEW w \in Workers,
               \/ SignInSeek(w) \/ SignInMatch(w) \/ SignInRenew(w) \/ SignInCreate(w)
               \/ SignInFails(w) \/ SignInOwn(w) \/ NotifyPaid(w) \/ Dies(w)
        PROVE  Inv'
    BY <1>8, SignInSeekKeepsInv, FindersKeepInv, FailuresKeepInv, SignInRenewKeepsInv,
       SignInCreateKeepsInv, SignInOwnKeepsInv, DiesKeepsInv
  <1>9. ASSUME NEW w \in Workers, Notice(w) PROVE Inv'
    BY <1>9, UnchangedKeepsInv DEF Notice
  <1>10. CASE UNCHANGED vars  BY <1>10, UnchangedKeepsInv DEF vars, tables, history
  <1>11. QED
    BY <1>1, <1>2, <1>3, <1>4, <1>5, <1>6, <1>7, <1>8, <1>9, <1>10 DEF Next

\* Who takes a purchase over had read it before its last link.
TakenByOvertaken ==
  ledger # None /\ ledger.user # None /\ ledger'.user \notin {ledger.user, None}
    => \E w \in overtaken : call[w].at \in {"commit", "bulk"} /\ call'[w].at = "notice"

LEMMA NextTakesOvertaken == Inv /\ [Next]_vars => TakenByOvertaken
  <1> SUFFICES ASSUME Inv, [Next]_vars, ledger # None, ledger.user # None,
                      ledger'.user \notin {ledger.user, None}
               PROVE  \E w \in overtaken : /\ call[w].at \in {"commit", "bulk"}
                                           /\ call'[w].at = "notice"
    BY DEF TakenByOvertaken
  <1>1. ASSUME NEW k \in Terms, Capture(k) PROVE FALSE
    BY <1>1 DEF Capture, Inv, OwnTypeOK, Ledger
  <1>2. ASSUME NEW u \in Users, DeleteAccount(u) PROVE FALSE
    BY <1>2, DeletionLeaves
  <1>3. PICK w \in Workers : LinkCommit(w) \/ BulkCommit(w)
    BY <1>1, <1>2 DEF Next, vars, tables, Renew, Tick, Register, LinkBegin, BulkBegin, SignInLook,
       ReceiptBegin, LinkRead, LinkFails, ReceiptFind, ReceiptUpdate, ReceiptInsert, ReceiptFails,
       RefundFind, RefundWrite, SignInSeek, SignInMatch, SignInRenew, SignInCreate, SignInFails,
       SignInOwn, NotifyPaid, Notice, Dies
  <1>4. PICK r \in RowIds, x \in Ledger, status \in {"ACTIVE", "INACTIVE"} :
          /\ call[w].at \in Linking /\ x.user = call[w].user
          /\ StoreLink(w, r, x, status)
    BY <1>3, CommitStoresLink
  <1>5. ledger' = x  BY <1>4 DEF StoreLink
  <1>6. ~MayLink(call[w].user)  BY <1>4, <1>5, AppleConstants DEF MayLink
  <1>7. w \in overtaken  BY <1>4, <1>6 DEF Inv, LinkersMay
  <1>8. call'[w].at = "notice"
    BY <1>4 DEF StoreLink, Answer, NoCall, Inv, OwnTypeOK
  <1>9. QED  BY <1>4, <1>7, <1>8 DEF Linking

-----------------------------------------------------------------------------
(* The notices                                                             *)

CP == INSTANCE PaidConversionProofs WITH Keys <- {Key}

\* Every step here is a step of PaidConversion or leaves it alone.
LEMMA NextIsNoticeStep == [Next]_vars => [CP!NoticeNext]_CP!noticeVars
  <1> SUFFICES ASSUME [Next]_vars, ~ UNCHANGED noticeVars
               PROVE  CP!NoticeNext
    BY DEF noticeVars, CP!noticeVars
  <1>1. PICK w \in Workers : NotifyPaid(w) \/ Notice(w) \/ Dies(w)
    BY DEF Next, vars, noticeVars, Renew, Tick, Register, DeleteAccount, Capture, LinkBegin,
       BulkBegin, SignInLook, ReceiptBegin, LinkRead, LinkFails, LinkCommit, BulkCommit,
       StoreLink, ReceiptFind, ReceiptUpdate, ReceiptInsert, ReceiptFails, RefundFind, RefundWrite,
       SignInSeek, SignInMatch, SignInRenew, SignInCreate, SignInFails, SignInOwn
  <1>2. CASE NotifyPaid(w)
    <2>1. CP!Acquire(w, Key, "check")
      BY <1>2 DEF NotifyPaid, Conversion!Acquire, CP!Acquire, Conversion!Acquirable,
                  CP!Acquirable, noticeVars
    <2>2. QED  BY <2>1 DEF CP!NoticeNext
  <1>3. CASE Notice(w)
    BY <1>3 DEF Notice, CP!NoticeNext, CP!NoticeStep, Conversion!NoticeStep,
       Conversion!CheckTrial, CP!CheckTrial, Conversion!Sent, CP!Sent, Conversion!Refused,
       CP!Refused, Conversion!AnswerLost, CP!AnswerLost, Conversion!Reached, CP!Reached,
       Conversion!Release, CP!Release, Conversion!NoticeGoto, CP!NoticeGoto,
       Conversion!NoticeEnd, CP!NoticeEnd, Conversion!AfterSend, CP!AfterSend,
       Conversion!Quiet, CP!Quiet
  <1>4. CASE Dies(w)
    BY <1>4 DEF Dies, CP!NoticeNext, Conversion!NoticeDies, CP!NoticeDies,
       Conversion!NoticeEnd, CP!NoticeEnd, Conversion!Quiet, CP!Quiet, noticeVars
  <1>5. QED  BY <1>1, <1>2, <1>3, <1>4

LEMMA SpecIsNoticeSpec == Spec => CP!NoticeSpec
  <1>1. Init => CP!NoticeInit
    BY DEF Init, Conversion!NoticeInit, CP!NoticeInit, Conversion!Quiet, CP!Quiet
  <1>2. QED  BY <1>1, NextIsNoticeStep, PTL DEF Spec, CP!NoticeSpec

-----------------------------------------------------------------------------
\* The tables, the calls and the notices keep their types.
THEOREM TypeCorrect == Spec => []TypeOK
  <1>1. Spec => []OwnTypeOK
    BY InvHoldsInitially, NextKeepsInv, PTL DEF Spec, Inv
  <1>2. Spec => []CP!NoticeTypeOK
    <2>1. None \notin {Key}  BY AppleConstants DEF Key
    <2>2. CP!NoticeSpec => []CP!NoticeTypeOK
      BY <2>1, CP!NoticeTypeCorrect DEF CP!ConversionConstants
    <2>3. QED  BY <2>2, SpecIsNoticeSpec, PTL
  <1>3. OwnTypeOK /\ CP!NoticeTypeOK => TypeOK
    BY DEF OwnTypeOK, TypeOK, CP!NoticeTypeOK, Conversion!NoticeTypeOK, Calls
  <1>4. QED  BY <1>1, <1>2, <1>3, PTL

\* The account of a purchase has its subscription, through races, deletions
\* and aborted transactions.
THEOREM LinkedAccountSubscribed == Spec => []LinkedHasSubscription
  BY InvHoldsInitially, NextKeepsInv, PTL DEF Spec, Inv

\* Nobody owns what a purchase pays for without a link of it to an account of
\* the same address.
THEOREM AccessIsLinked == Spec => []AccessComesFromLink
  BY InvHoldsInitially, NextKeepsInv, PTL DEF Spec, Inv

\* A request that reads a linked purchase does not take it over.
THEOREM TakenOnlyByOvertaken == Spec => OnlyOvertakenTake
  <1>1. Inv /\ [Next]_vars => [TakenByOvertaken]_vars  BY NextTakesOvertaken
  <1>2. Spec => [][TakenByOvertaken]_vars
    BY <1>1, InvHoldsInitially, NextKeepsInv, PTL DEF Spec
  <1>3. QED  BY <1>2 DEF OnlyOvertakenTake, TakenByOvertaken

\* The notices of Apple's side implement NoticeLog: of a purchase no two are told
\* at a time, and none after the one that Slack has acknowledged.
THEOREM ConversionsLogged == Spec => ConversionLogged
  <1>1. None \notin {Key}  BY AppleConstants DEF Key
  <1>2. CP!NoticeSpec => CP!ImplementsLog
    BY <1>1, CP!NoticesImplementLog DEF CP!ConversionConstants
  <1>3. CP!ImplementsLog => ConversionLogged
    BY PTL DEF CP!ImplementsLog, ConversionLogged, Conversion!ImplementsLog, CP!Log!Spec,
       Conversion!Log!Spec, CP!Log!Init, Conversion!Log!Init, CP!Log!Next,
       Conversion!Log!Next, CP!Log!Take, Conversion!Log!Take, CP!Log!GiveBack,
       Conversion!Log!GiveBack, CP!Log!Lose, Conversion!Log!Lose, CP!Log!Tell,
       Conversion!Log!Tell, CP!Log!Move, Conversion!Log!Move, CP!Log!Message,
       Conversion!Log!Message, CP!Log!NoMessage, Conversion!Log!NoMessage,
       CP!Log!logVars, Conversion!Log!logVars, CP!LogEntry, Conversion!LogEntry,
       CP!Telling, Conversion!Telling
  <1>4. QED  BY <1>2, <1>3, SpecIsNoticeSpec, PTL
=============================================================================

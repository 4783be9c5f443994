--------------------------- MODULE NodePeersProofs ---------------------------
(***************************************************************************)
(* Proofs about NodePeers, for any nodes, clients, requests and bounds.    *)
(***************************************************************************)
EXTENDS NodePeers, FiniteSetTheorems, TLAPS

USE ConstantsOK

HasPost == \A q \in Requests :
  request[q].at # "idle" => /\ request[q].post \in Posts
                            /\ request[q].post.key \in KeysOf[q]

Typed == TypeOK /\ HasPost

-----------------------------------------------------------------------------
(* Addresses                                                               *)

LEMMA AddressIsAddress == \A index \in Nat : Address(index) \in Addresses
<1> SUFFICES ASSUME NEW index \in Nat PROVE Address(index) \in Addresses
  OBVIOUS
<1>1. index % Octet \in 0..(Octet - 1) /\ index \div Octet \in Nat
  OBVIOUS
<1>2. QED
  BY <1>1 DEF Address, Addresses

\* Two indexes with one address are one index.
LEMMA AddressInjective ==
  ASSUME NEW i \in Nat, NEW j \in Nat, Address(i) = Address(j)
  PROVE  i = j
<1>1. i \div Octet = j \div Octet /\ i % Octet = j % Octet
  BY DEF Address
<1>2. i = Octet * (i \div Octet) + (i % Octet)
  OBVIOUS
<1>3. j = Octet * (j \div Octet) + (j % Octet)
  OBVIOUS
<1>4. QED
  BY <1>1, <1>2, <1>3

LEMMA AddressInSubnet ==
  ASSUME NEW i \in Nat, i < Octet * Octet
  PROVE  Address(i)[1] \in 0..(Octet - 1)
<1>1. i = Octet * (i \div Octet) + (i % Octet) /\ i \div Octet \in Nat /\ i % Octet \in Nat
  OBVIOUS
<1> DEFINE d == i \div Octet
           r == i % Octet
<1>2. d \in Nat /\ r \in Nat /\ i = Octet * d + r
  BY <1>1
<1> HIDE DEF d, r
<1>3. d \in 0..(Octet - 1)
  BY <1>2
<1>4. QED
  BY <1>3 DEF Address, d

LEMMA CountIsBounded ==
  ASSUME NEW n
  PROVE  NextIndex(n) \in Nat /\ NextIndex(n) >= 2 /\ NextIndex(n) <= Cardinality(Keys) + 2
<1>1. ClientsOn(n) \subseteq Keys
  BY DEF ClientsOn
<1>2. /\ IsFiniteSet(ClientsOn(n))
      /\ Cardinality(ClientsOn(n)) <= Cardinality(Keys)
  BY <1>1, FS_Subset
<1>3. Cardinality(ClientsOn(n)) \in Nat /\ Cardinality(Keys) \in Nat
  BY <1>2, FS_CardinalityType
<1>4. QED
  BY <1>2, <1>3 DEF NextIndex

-----------------------------------------------------------------------------
(* Types                                                                   *)

LEMMA TypedInit == Init => Typed
<1> SUFFICES ASSUME Init PROVE Typed
  OBVIOUS
<1>1. Unset \in Addresses
  BY AddressIsAddress DEF Unset
<1>2. Absent \in Places /\ Idle \in Calls
  BY <1>1 DEF Absent, Places, Idle, Calls
<1>3. QED
  BY <1>2 DEF Init, Typed, TypeOK, HasPost, Idle

\* What a request does next is typed if its post is.
LEMMA GoesTyped ==
  ASSUME Typed, NEW q \in Requests, NEW step \in {"count", "post", "save"},
         NEW p \in Posts, NEW attempt \in 1..MaxAttempts, p.key \in KeysOf[q],
         Goes(q, step, p, attempt)
  PROVE  request' \in [Requests -> Calls] /\ HasPost'
<1>1. [at |-> step, post |-> p, attempt |-> attempt] \in Calls
  BY DEF Calls
<1>2. request' \in [Requests -> Calls]
  BY <1>1 DEF Goes, Typed, TypeOK
<1>3. HasPost'
  BY DEF Goes, Typed, TypeOK, HasPost
<1>4. QED
  BY <1>2, <1>3

LEMMA IdleTyped ==
  ASSUME Typed, NEW q \in Requests, request' = [request EXCEPT ![q] = Idle]
  PROVE  request' \in [Requests -> Calls] /\ HasPost'
<1>1. Idle \in Calls
  BY DEF Idle, Calls
<1>2. QED
  BY <1>1 DEF Typed, TypeOK, HasPost, Idle

LEMMA RegisteredTyped ==
  ASSUME Typed, NEW p \in Posts
  PROVE  /\ Registered(p) \in [Nodes -> [Keys -> Addresses \cup {None}]]
         /\ \A n \in Nodes, k \in Keys : Registered(p)[n][k] =
              IF n = p.node /\ k = p.key THEN p.address ELSE peers[n][k]
  BY DEF Typed, TypeOK, Registered, Posts

LEMMA TypedStep == Typed /\ [Next]_vars => Typed'
<1> SUFFICES ASSUME Typed, [Next]_vars PROVE Typed'
  OBVIOUS
<1>t. /\ rows \in [Keys -> Places] /\ request \in [Requests -> Calls]
      /\ late \in SUBSET Posts /\ strays \in SUBSET Posts /\ HasPost
      /\ disturbed \in SUBSET Nodes
      /\ peers \in [Nodes -> [Keys -> Addresses \cup {None}]]
  BY DEF Typed, TypeOK
<1>1. ASSUME NEW q \in Requests, Find(q) PROVE Typed'
  <2>1. PICK k \in KeysOf[q], n \in Nodes :
          LET same == rows[k].node = n
              a    == IF same THEN rows[k].address ELSE Unset
          IN  Goes(q, IF same THEN "post" ELSE "count",
                   [key |-> k, node |-> n, address |-> a], 1)
    BY <1>1 DEF Find
  <2> DEFINE a    == IF rows[k].node = n THEN rows[k].address ELSE Unset
             p    == [key |-> k, node |-> n, address |-> a]
             step == IF rows[k].node = n THEN "post" ELSE "count"
  <2>2. k \in Keys
    OBVIOUS
  <2>3. p \in Posts /\ p.key \in KeysOf[q]
    BY <1>t, <2>2, AddressIsAddress DEF Unset, Posts, Places
  <2>4. Goes(q, step, p, 1) /\ step \in {"count", "post", "save"} /\ 1 \in 1..MaxAttempts
    BY <2>1
  <2> HIDE DEF p, step
  <2>5. request' \in [Requests -> Calls] /\ HasPost'
    BY <2>3, <2>4, GoesTyped
  <2>6. QED
    BY <1>1, <1>t, <2>5 DEF Find, Typed, TypeOK
<1>2. ASSUME NEW q \in Requests, Count(q) PROVE Typed'
  <2> DEFINE p == request[q].post
             c == [p EXCEPT !.address = Address(NextIndex(p.node))]
  <2>1. p \in Posts /\ p.key \in KeysOf[q]
    BY <1>2, <1>t DEF Count, HasPost
  <2>2. Address(NextIndex(p.node)) \in Addresses
    BY CountIsBounded, AddressIsAddress
  <2>3. c \in Posts /\ c.key \in KeysOf[q]
    <3> HIDE DEF p
    <3>1. QED
      BY <2>1, <2>2 DEF Posts
  <2>4. Goes(q, "post", c, 1) /\ 1 \in 1..MaxAttempts
    BY <1>2 DEF Count
  <2> HIDE DEF c
  <2>5. request' \in [Requests -> Calls] /\ HasPost'
    BY <2>3, <2>4, GoesTyped
  <2>6. QED
    BY <1>2, <1>t, <2>5 DEF Count, Typed, TypeOK
<1>3. ASSUME NEW q \in Requests, Acknowledged(q) PROVE Typed'
  <2> DEFINE p == request[q].post
  <2>1. p \in Posts /\ p.key \in KeysOf[q] /\ request[q].attempt \in 1..MaxAttempts
    BY <1>3, <1>t DEF Acknowledged, HasPost, Calls
  <2>2. Goes(q, "save", p, request[q].attempt) /\ peers' = Registered(p)
    BY <1>3 DEF Acknowledged
  <2>3. request' \in [Requests -> Calls] /\ HasPost'
    BY <2>1, <2>2, GoesTyped
  <2>4. peers' \in [Nodes -> [Keys -> Addresses \cup {None}]]
    BY <2>1, <2>2, RegisteredTyped
  <2>5. QED
    BY <1>3, <1>t, <2>3, <2>4 DEF Acknowledged, Typed, TypeOK
<1>4. ASSUME NEW q \in Requests, AttemptFails(q) PROVE Typed'
  <2> DEFINE p    == request[q].post
             next == NextAttempt(request[q].attempt)
  <2>1. p \in Posts /\ p.key \in KeysOf[q] /\ request[q].attempt \in 1..MaxAttempts
    BY <1>4, <1>t DEF AttemptFails, HasPost, Calls
  <2>2. request' \in [Requests -> Calls] /\ HasPost'
    <3>1. CASE next > MaxAttempts
      BY <1>4, <3>1, IdleTyped DEF AttemptFails
    <3>2. CASE ~(next > MaxAttempts)
      <4>1. next \in 1..MaxAttempts
        BY <2>1, <3>2 DEF NextAttempt
      <4>2. Goes(q, "post", p, next)
        BY <1>4, <3>2 DEF AttemptFails
      <4> HIDE DEF next
      <4>3. QED
        BY <2>1, <4>1, <4>2, GoesTyped
    <3>3. QED
      BY <3>1, <3>2
  <2>3. /\ peers' = Registered(p) \/ peers' = peers
        /\ late' = late \/ late' = late \cup {p}
    BY <1>4 DEF AttemptFails
  <2>4. peers' \in [Nodes -> [Keys -> Addresses \cup {None}]]
    BY <1>t, <2>1, <2>3, RegisteredTyped
  <2>5. QED
    BY <1>4, <1>t, <2>1, <2>2, <2>3, <2>4 DEF AttemptFails, Typed, TypeOK
<1>5. ASSUME NEW p \in late, Arrives(p) PROVE Typed'
  <2>1. peers' \in [Nodes -> [Keys -> Addresses \cup {None}]]
    BY <1>5, <1>t, RegisteredTyped DEF Arrives
  <2>2. QED
    BY <1>5, <1>t, <2>1 DEF Arrives, Typed, TypeOK, HasPost
<1>6. ASSUME NEW q \in Requests, Save(q) PROVE Typed'
  <2> DEFINE p == request[q].post
  <2>1. p \in Posts
    BY <1>6, <1>t DEF Save, HasPost
  <2>2. SavedRow(p) \in Places /\ p.key \in Keys
    BY <2>1 DEF Posts, SavedRow, Places
  <2>3. rows' \in [Keys -> Places]
    BY <1>6, <1>t, <2>2 DEF Save
  <2>4. QED
    BY <1>6, <1>t, <2>3, IdleTyped DEF Save, Typed, TypeOK
<1>7. ASSUME NEW q \in Requests, Fails(q) PROVE Typed'
  BY <1>7, <1>t, IdleTyped DEF Fails, Typed, TypeOK
<1>8. CASE UNCHANGED vars
  BY <1>8 DEF vars, Typed, TypeOK, HasPost
<1>9. QED
  BY <1>1, <1>2, <1>3, <1>4, <1>5, <1>6, <1>7, <1>8 DEF Next, Proceed

LEMMA TypedInvariant == Spec => []Typed
BY TypedInit, TypedStep, PTL DEF Spec

\* Rows, peers and requests keep their types: an address always has its last
\* octet in range.
THEOREM TypeCorrect == Spec => []TypeOK
BY TypedInvariant, PTL DEF Typed

-----------------------------------------------------------------------------
(* Usable addresses: the subnet is not exhausted as long as it has room    *)
(* for two addresses more than there are clients                           *)

Usable(a) == a[1] \in 0..(Octet - 1) /\ a \notin {Address(0), Address(1)}

UsableIInv ==
  /\ Typed
  /\ UsableAddress
  /\ \A q \in Requests :
       request[q].at \in {"post", "save"} => Usable(request[q].post.address)

LEMMA NextIsUsable ==
  ASSUME Cardinality(Keys) + 2 < Octet * Octet, NEW n
  PROVE  Usable(Address(NextIndex(n)))
<1> DEFINE i == NextIndex(n)
<1>1. i \in Nat /\ i >= 2 /\ i < Octet * Octet
  <2>1. Cardinality(Keys) \in Nat
    BY FS_CardinalityType
  <2>2. i \in Nat /\ i >= 2 /\ i <= Cardinality(Keys) + 2
    BY CountIsBounded
  <2>3. Octet * Octet \in Nat
    OBVIOUS
  <2> HIDE DEF i
  <2>4. QED
    BY <2>1, <2>2, <2>3
<1> HIDE DEF i
<1>2. Address(i)[1] \in 0..(Octet - 1)
  BY <1>1, AddressInSubnet
<1>3. Address(i) # Address(0) /\ Address(i) # Address(1)
  BY <1>1, AddressInjective
<1>4. QED
  BY <1>2, <1>3 DEF Usable, i

LEMMA UsableInit == Init => UsableIInv
BY TypedInit DEF Init, UsableIInv, UsableAddress, Absent, Idle

LEMMA UsableStep ==
  Cardinality(Keys) + 2 < Octet * Octet /\ UsableIInv /\ [Next]_vars => UsableIInv'
<1> SUFFICES ASSUME Cardinality(Keys) + 2 < Octet * Octet, UsableIInv, [Next]_vars
             PROVE  UsableIInv'
  OBVIOUS
<1> DEFINE Ready == \A q \in Requests :
             request[q].at \in {"post", "save"} => Usable(request[q].post.address)
<1>t. /\ Typed' /\ HasPost /\ Ready /\ UsableAddress
      /\ rows \in [Keys -> Places] /\ request \in [Requests -> Calls]
  BY TypedStep DEF UsableIInv, Typed, TypeOK
<1>s. SUFFICES UsableAddress' /\ Ready'
  BY <1>t DEF UsableIInv, Usable
<1>1. ASSUME NEW q \in Requests, Find(q) PROVE UsableAddress' /\ Ready'
  <2>1. PICK k \in KeysOf[q], n \in Nodes :
          LET same == rows[k].node = n
              a    == IF same THEN rows[k].address ELSE Unset
          IN  Goes(q, IF same THEN "post" ELSE "count",
                   [key |-> k, node |-> n, address |-> a], 1)
    BY <1>1 DEF Find
  <2>2. rows[k].node = n => Usable(rows[k].address)
    BY <1>t DEF UsableAddress, Usable
  <2>3. Ready'
    BY <1>t, <2>1, <2>2 DEF Goes, Usable
  <2>4. QED
    BY <1>1, <1>t, <2>3 DEF Find, UsableAddress
<1>2. ASSUME NEW q \in Requests, Count(q) PROVE UsableAddress' /\ Ready'
  <2> DEFINE p == request[q].post
             a == Address(NextIndex(p.node))
  <2>1. Usable(a)
    BY NextIsUsable
  <2>2. p \in Posts
    BY <1>2, <1>t DEF Count, HasPost
  <2>3. [p EXCEPT !.address = a].address = a
    <3> HIDE DEF p, a
    <3>1. QED
      BY <2>2 DEF Posts
  <2>4. Goes(q, "post", [p EXCEPT !.address = a], 1)
    BY <1>2 DEF Count
  <2> HIDE DEF p, a
  <2>5. Ready'
    BY <1>t, <2>1, <2>3, <2>4 DEF Goes, Usable
  <2>6. QED
    BY <1>2, <1>t, <2>5 DEF Count, UsableAddress
<1>3. ASSUME NEW q \in Requests, Acknowledged(q) \/ AttemptFails(q) \/ Fails(q)
      PROVE  UsableAddress' /\ Ready'
  <2>1. Ready'
    BY <1>3, <1>t DEF Acknowledged, AttemptFails, Fails, Goes, Idle, Usable
  <2>2. QED
    BY <1>3, <1>t, <2>1 DEF Acknowledged, AttemptFails, Fails, UsableAddress
<1>4. ASSUME NEW p \in late, Arrives(p) PROVE UsableAddress' /\ Ready'
  BY <1>4, <1>t DEF Arrives, UsableAddress, Usable
<1>5. ASSUME NEW q \in Requests, Save(q) PROVE UsableAddress' /\ Ready'
  <2>1. Usable(request[q].post.address)
    BY <1>5, <1>t DEF Save
  <2>2. UsableAddress'
    BY <1>5, <1>t, <2>1 DEF Save, SavedRow, UsableAddress, Usable
  <2>3. QED
    BY <1>5, <1>t, <2>2 DEF Save, Idle, Usable
<1>6. CASE UNCHANGED vars
  BY <1>6, <1>t DEF vars, UsableAddress, Usable
<1>7. QED
  BY <1>1, <1>2, <1>3, <1>4, <1>5, <1>6 DEF Next, Proceed

\* While there are at least three fewer clients than addresses, no client is
\* given an address outside the subnet, its network address or the node's own.
THEOREM UsableAddressHolds ==
  ASSUME Cardinality(Keys) + 2 < Octet * Octet PROVE Spec => []UsableAddress
<1>1. UsableIInv /\ [Next]_vars => UsableIInv'
  BY UsableStep
<1>2. UsableIInv => UsableAddress
  BY DEF UsableIInv
<1>3. QED
  BY <1>1, <1>2, UsableInit, PTL DEF Spec

-----------------------------------------------------------------------------
(* Routing, when the calls of one client do not overlap                    *)

CallsDoNotOverlap == \A q, r \in Requests : q # r => KeysOf[q] \cap KeysOf[r] = {}

\* Node n routes address to k, or what it routes to k comes from a stray post.
Routes(k, n, address) == peers[n][k] = address \/ Strayed(k, n, peers[n][k])

\* What a request knows of its client's row and peer.
Knows(q) ==
  LET c == request[q]
      p == c.post
  IN  /\ c.at = "count" => rows[p.key].node # p.node
      /\ c.at \in {"post", "save"} /\ rows[p.key].node = p.node
           => rows[p.key].address = p.address
      /\ c.at = "save" => Routes(p.key, p.node, p.address)

RoutedIInv ==
  /\ Typed /\ RowRouted
  /\ \A q \in Requests : Knows(q)

LEMMA RoutedInit == Init => RoutedIInv
BY TypedInit DEF Init, RoutedIInv, RowRouted, Knows, Absent, Idle

\* What another request knows survives a step on key's row, peers and request.
LEMMA OthersKnow ==
  ASSUME CallsDoNotOverlap, RoutedIInv, Typed',
         NEW q \in Requests, NEW r \in Requests, r # q,
         NEW key \in KeysOf[q],
         request'[r] = request[r], strays' = strays,
         \A k \in Keys \ {key} :
           rows'[k] = rows[k] /\ \A n \in Nodes : peers'[n][k] = peers[n][k]
  PROVE  Knows(r)'
<1>1. CASE request[r].at = "idle"
  BY <1>1 DEF Knows
<1>2. CASE request[r].at # "idle"
  <2>1. request[r].post \in Posts /\ request[r].post.key \in KeysOf[r]
    BY <1>2 DEF RoutedIInv, Typed, HasPost
  <2>2. request[r].post.key \in Keys \ {key} /\ request[r].post.node \in Nodes
    BY <2>1 DEF CallsDoNotOverlap, Posts
  <2>3. Knows(r)
    BY DEF RoutedIInv
  <2>4. QED
    BY <1>2, <2>2, <2>3 DEF Knows, Routes, Strayed
<1>3. QED
  BY <1>1, <1>2

LEMMA RoutedStep == CallsDoNotOverlap /\ RoutedIInv /\ [Next]_vars => RoutedIInv'
<1> SUFFICES ASSUME CallsDoNotOverlap, RoutedIInv, [Next]_vars PROVE RoutedIInv'
  OBVIOUS
<1>t. /\ Typed' /\ HasPost /\ RowRouted /\ late \in SUBSET Posts
      /\ rows \in [Keys -> Places] /\ request \in [Requests -> Calls]
      /\ peers \in [Nodes -> [Keys -> Addresses \cup {None}]]
      /\ \A q \in Requests : Knows(q)
  BY TypedStep DEF RoutedIInv, Typed, TypeOK
<1>1. ASSUME NEW q \in Requests, Find(q) PROVE RoutedIInv'
  <2>1. PICK k \in KeysOf[q], n \in Nodes :
          LET same == rows[k].node = n
              a    == IF same THEN rows[k].address ELSE Unset
          IN  Goes(q, IF same THEN "post" ELSE "count",
                   [key |-> k, node |-> n, address |-> a], 1)
    BY <1>1 DEF Find
  <2>2. UNCHANGED <<rows, peers, strays>>
    BY <1>1 DEF Find
  <2>3. Knows(q)'
    BY <1>t, <2>1, <2>2 DEF Goes, Knows
  <2>4. \A r \in Requests : r # q => Knows(r)'
    BY <1>t, <2>1, <2>2, OthersKnow DEF Goes
  <2>5. QED
    BY <1>t, <2>2, <2>3, <2>4 DEF RoutedIInv, RowRouted, Strayed
<1>2. ASSUME NEW q \in Requests, Count(q) PROVE RoutedIInv'
  <2> DEFINE p == request[q].post
             c == [p EXCEPT !.address = Address(NextIndex(p.node))]
  <2>1. p \in Posts /\ p.key \in KeysOf[q] /\ rows[p.key].node # p.node
    BY <1>2, <1>t DEF Count, HasPost, Knows
  <2>2. c.key = p.key /\ c.node = p.node
    <3> HIDE DEF p
    <3>1. QED
      BY <2>1 DEF Posts
  <2>3. Goes(q, "post", c, 1) /\ UNCHANGED <<rows, peers, strays>>
    BY <1>2 DEF Count
  <2> HIDE DEF c, p
  <2>4. Knows(q)'
    BY <1>t, <2>1, <2>2, <2>3 DEF Goes, Knows
  <2>5. \A r \in Requests : r # q => Knows(r)'
    BY <1>t, <2>1, <2>3, OthersKnow DEF Goes
  <2>6. QED
    BY <1>t, <2>3, <2>4, <2>5 DEF RoutedIInv, RowRouted, Strayed
\* A post reaches the daemon: acknowledged, or applied with its answer lost.
<1>3. ASSUME NEW q \in Requests, Acknowledged(q) \/ AttemptFails(q) PROVE RoutedIInv'
  <2> DEFINE p == request[q].post
  <2>1. /\ p \in Posts /\ p.key \in KeysOf[q] /\ Knows(q)
        /\ request[q].at = "post"
    BY <1>3, <1>t DEF Acknowledged, AttemptFails, HasPost
  <2>2. UNCHANGED <<rows, strays>>
    BY <1>3 DEF Acknowledged, AttemptFails
  <2>3. peers' = Registered(p) \/ peers' = peers
    BY <1>3 DEF Acknowledged, AttemptFails
  <2>4. /\ \A n \in Nodes, k \in Keys :
             k # p.key \/ n # p.node => peers'[n][k] = peers[n][k]
        /\ peers'[p.node][p.key] \in {p.address, peers[p.node][p.key]}
    <3>1. p.node \in Nodes /\ p.key \in Keys
      BY <2>1 DEF Posts
    <3> HIDE DEF p
    <3>2. QED
      BY <1>t, <2>1, <2>3, <3>1 DEF Registered, Posts
  <2>5. RowRouted'
    <3>1. rows[p.key].node = p.node => rows[p.key].address = p.address
      BY <2>1 DEF Knows
    <3>2. SUFFICES ASSUME NEW k \in Keys, rows[k].node # None
                   PROVE  Routes(k, rows[k].node, rows[k].address)'
      BY <2>2 DEF RowRouted, Routes, Strayed
    <3>3. rows[k].node \in Nodes /\ Routes(k, rows[k].node, rows[k].address)
      BY <1>t, <3>2 DEF RowRouted, Places, Routes
    <3> HIDE DEF p
    <3>4. QED
      BY <2>2, <2>4, <3>1, <3>3 DEF Routes, Strayed
  <2>6. \A r \in Requests : r # q => request'[r] = request[r]
    BY <1>3, <1>t DEF Acknowledged, AttemptFails, Goes
  <2>7. \A r \in Requests : r # q => Knows(r)'
    BY <1>t, <2>1, <2>2, <2>4, <2>6, OthersKnow
  <2>8. Knows(q)'
    <3>1. CASE Acknowledged(q)
      <4>1. peers'[p.node][p.key] = p.address
        BY <3>1, <1>t, <2>1 DEF Acknowledged, Registered, Posts
      <4>2. request'[q] = [at |-> "save", post |-> p, attempt |-> request[q].attempt]
        BY <3>1, <1>t DEF Acknowledged, Goes
      <4>3. QED
        BY <2>1, <2>2, <4>1, <4>2 DEF Knows, Routes
    <3>2. CASE AttemptFails(q)
      <4>1. \/ request'[q] = Idle
            \/ request'[q].at = "post" /\ request'[q].post = p
        BY <3>2, <1>t DEF AttemptFails, Goes
      <4>2. QED
        BY <2>1, <2>2, <4>1 DEF Knows, Idle
    <3>3. QED
      BY <1>3, <3>1, <3>2
  <2>9. QED
    BY <1>t, <2>2, <2>5, <2>7, <2>8 DEF RoutedIInv
<1>4. ASSUME NEW q \in Requests, Save(q) PROVE RoutedIInv'
  <2> DEFINE p == request[q].post
  <2>1. /\ p \in Posts /\ p.key \in KeysOf[q]
        /\ Routes(p.key, p.node, p.address)
    BY <1>4, <1>t DEF Save, HasPost, Knows
  <2>2. /\ UNCHANGED <<peers, strays>> /\ request' = [request EXCEPT ![q] = Idle]
        /\ rows' = [rows EXCEPT ![p.key] = [node |-> p.node, address |-> p.address]]
    BY <1>4 DEF Save, SavedRow
  <2>3. RowRouted'
    BY <1>t, <2>1, <2>2 DEF RowRouted, Routes, Strayed
  <2>4. \A r \in Requests : r # q => Knows(r)'
    BY <1>t, <2>1, <2>2, OthersKnow
  <2>5. Knows(q)'
    BY <1>t, <2>2 DEF Knows, Idle
  <2>6. QED
    BY <1>t, <2>2, <2>3, <2>4, <2>5 DEF RoutedIInv
<1>5. ASSUME NEW q \in Requests, Fails(q) PROVE RoutedIInv'
  <2>1. UNCHANGED <<rows, peers, strays>> /\ request' = [request EXCEPT ![q] = Idle]
    BY <1>5 DEF Fails
  <2>2. \A r \in Requests : Knows(r)'
    BY <1>t, <2>1 DEF Knows, Idle, Routes, Strayed
  <2>3. QED
    BY <1>t, <2>1, <2>2 DEF RoutedIInv, RowRouted, Strayed
<1>6. CASE UNCHANGED vars
  BY <1>6, <1>t DEF vars, RoutedIInv, RowRouted, Knows, Routes, Strayed
\* A timed-out post reaches its daemon: what it overwrites is now its own.
<1>7. ASSUME NEW p \in late, Arrives(p) PROVE RoutedIInv'
  <2>1. p \in Posts /\ UNCHANGED <<rows, request>>
    BY <1>7, <1>t DEF Arrives
  <2>2. \A n \in Nodes, k \in Keys :
          peers'[n][k] = peers[n][k] \/ Strayed(k, n, peers[n][k])'
    <3>1. SUFFICES ASSUME NEW n \in Nodes, NEW k \in Keys, peers'[n][k] # peers[n][k]
                   PROVE  Strayed(k, n, peers[n][k])'
      OBVIOUS
    <3>2. n = p.node /\ k = p.key /\ peers'[n][k] = p.address
      BY <1>7, <1>t, <2>1, <3>1 DEF Arrives, Registered, Posts
    <3>3. p = [key |-> p.key, node |-> p.node, address |-> p.address]
      BY <2>1 DEF Posts
    <3>4. QED
      BY <1>7, <3>2, <3>3 DEF Arrives, Strayed
  <2>3. strays \subseteq strays'
    BY <1>7 DEF Arrives
  <2>4. \A n \in Nodes, k \in Keys, a \in Addresses :
          Routes(k, n, a) => Routes(k, n, a)'
    BY <2>2, <2>3 DEF Routes, Strayed
  <2>5. RowRouted'
    <3>1. SUFFICES ASSUME NEW k \in Keys, rows[k].node # None
                   PROVE  Routes(k, rows[k].node, rows[k].address)'
      BY <2>1 DEF RowRouted, Routes, Strayed
    <3>2. rows[k].node \in Nodes /\ rows[k].address \in Addresses
      BY <1>t, <3>1 DEF Places
    <3>3. Routes(k, rows[k].node, rows[k].address)
      BY <1>t, <3>1 DEF RowRouted, Routes
    <3>4. QED
      BY <2>1, <2>4, <3>2, <3>3
  <2>6. ASSUME NEW q \in Requests PROVE Knows(q)'
    <3>1. CASE request[q].at = "idle"
      BY <2>1, <3>1 DEF Knows
    <3>2. CASE request[q].at # "idle"
      <4>1. request[q].post \in Posts
        BY <1>t, <3>2 DEF HasPost
      <4>2. /\ request[q].post.node \in Nodes /\ request[q].post.key \in Keys
            /\ request[q].post.address \in Addresses
        BY <4>1 DEF Posts
      <4>3. QED
        BY <1>t, <2>1, <2>4, <4>2 DEF Knows
    <3>3. QED
      BY <3>1, <3>2
  <2>7. QED
    BY <1>t, <2>5, <2>6 DEF RoutedIInv
<1>8. QED
  BY <1>t, <1>1, <1>2, <1>3, <1>4, <1>5, <1>6, <1>7 DEF Next, Proceed

\* A stored row names the address that its node routes to the client, unless a
\* stray post changed it: the post precedes the row, and carries the row's own
\* address when the client stays on its node.
THEOREM RowRoutedHolds == ASSUME CallsDoNotOverlap PROVE Spec => []RowRouted
<1>1. RoutedIInv /\ [Next]_vars => RoutedIInv'
  BY RoutedStep
<1>2. RoutedIInv => RowRouted
  BY DEF RoutedIInv
<1>3. QED
  BY <1>1, <1>2, RoutedInit, PTL DEF Spec

-----------------------------------------------------------------------------
(* Addresses: while a node is undisturbed its clients have the addresses   *)
(* that follow the node's, and a request can only carry the next one       *)

Orderly(n) ==
  /\ \A j, k \in ClientsOn(n) : rows[j].address = rows[k].address => j = k
  /\ \A k \in ClientsOn(n) :
       \E i \in 2..(Cardinality(ClientsOn(n)) + 1) : rows[k].address = Address(i)
  /\ \A r \in Requests : Allocating(r, n) =>
       /\ request[r].post.address = Address(NextIndex(n))
       /\ \A q \in Requests : Allocating(q, n) => q = r

OrderlyIInv == Typed /\ \A n \in Nodes \ disturbed : Orderly(n)

LEMMA OrderlyInit == Init => OrderlyIInv
<1> SUFFICES ASSUME Init PROVE OrderlyIInv
  OBVIOUS
<1>1. ASSUME NEW n \in Nodes PROVE Orderly(n)
  <2>1. ClientsOn(n) = {}
    BY DEF Init, ClientsOn, Absent
  <2>2. \A r \in Requests : ~Allocating(r, n)
    BY DEF Init, Allocating, Idle
  <2>3. QED
    BY <2>1, <2>2 DEF Orderly
<1>2. QED
  BY <1>1, TypedInit DEF OrderlyIInv

\* A step that moves no client on or off n, and gives no request an address
\* there, keeps it orderly.
LEMMA OrderlyKept ==
  ASSUME NEW n, Orderly(n),
         ClientsOn(n)' = ClientsOn(n),
         \A k \in ClientsOn(n) : rows'[k] = rows[k],
         \A r \in Requests : Allocating(r, n)' =>
           Allocating(r, n) /\ request'[r].post.address = request[r].post.address
  PROVE  Orderly(n)'
<1>1. NextIndex(n)' = NextIndex(n)
  BY DEF NextIndex
<1>2. Address(NextIndex(n))' = Address(NextIndex(n))
  BY <1>1 DEF Address
<1>3. \A i \in Int : Address(i)' = Address(i)
  BY DEF Address
<1>4. QED
  BY <1>2, <1>3 DEF Orderly

\* A client that joins n with the next address keeps it orderly, if no other
\* request carries one there.
LEMMA OrderlyJoined ==
  ASSUME NEW n \in Nodes, Orderly(n), NEW key \in Keys, key \notin ClientsOn(n),
         ClientsOn(n)' = ClientsOn(n) \cup {key},
         \A k \in ClientsOn(n) : rows'[k] = rows[k],
         rows'[key].address = Address(NextIndex(n)),
         \A r \in Requests : ~Allocating(r, n)'
  PROVE  Orderly(n)'
<1> DEFINE c == Cardinality(ClientsOn(n))
<1>1. IsFiniteSet(ClientsOn(n)) /\ c \in Nat
  <2>1. ClientsOn(n) \subseteq Keys
    BY DEF ClientsOn
  <2>2. QED
    BY <2>1, FS_Subset, FS_CardinalityType
<1>2. Cardinality(ClientsOn(n))' = c + 1
  BY <1>1, FS_AddElement
<1>3. NextIndex(n) = c + 2
  BY DEF NextIndex
<1> HIDE DEF c
<1>4. \A k \in ClientsOn(n) : \E i \in 2..(c + 1) : rows[k].address = Address(i)
  BY DEF Orderly, c
<1>5. \A k \in ClientsOn(n) : rows[k].address # rows'[key].address
  BY <1>1, <1>3, <1>4, AddressInjective
<1>6. \A j, k \in ClientsOn(n)' : rows'[j].address = rows'[k].address => j = k
  BY <1>5 DEF Orderly
<1>7. \A k \in ClientsOn(n)' : \E i \in 2..((c + 1) + 1) : rows'[k].address = Address(i)
  <2> SUFFICES ASSUME NEW k \in ClientsOn(n)'
               PROVE  \E i \in 2..((c + 1) + 1) : rows'[k].address = Address(i)
    OBVIOUS
  <2>1. CASE k = key
    BY <2>1, <1>1, <1>3
  <2>2. CASE k \in ClientsOn(n)
    BY <2>2, <1>1, <1>4
  <2>3. QED
    BY <2>1, <2>2
<1>8. \A i \in Int : Address(i)' = Address(i)
  BY DEF Address
<1>9. QED
  BY <1>1, <1>2, <1>6, <1>7, <1>8 DEF Orderly

LEMMA OrderlyStep == OrderlyIInv /\ [Next]_vars => OrderlyIInv'
<1> SUFFICES ASSUME OrderlyIInv, [Next]_vars PROVE OrderlyIInv'
  OBVIOUS
<1>t. /\ Typed' /\ HasPost /\ rows \in [Keys -> Places]
      /\ request \in [Requests -> Calls] /\ disturbed \in SUBSET Nodes
  BY TypedStep DEF OrderlyIInv, Typed, TypeOK
<1>s. SUFFICES ASSUME NEW n \in Nodes, n \notin disturbed' PROVE Orderly(n)'
  BY <1>t DEF OrderlyIInv
<1>o. disturbed \subseteq disturbed' => Orderly(n)
  BY <1>s DEF OrderlyIInv
<1>1. ASSUME NEW q \in Requests, Find(q) PROVE Orderly(n)'
  <2>1. PICK k \in KeysOf[q], m \in Nodes :
          LET same == rows[k].node = m
              a    == IF same THEN rows[k].address ELSE Unset
          IN  Goes(q, IF same THEN "post" ELSE "count",
                   [key |-> k, node |-> m, address |-> a], 1)
    BY <1>1 DEF Find
  <2>2. UNCHANGED <<rows, disturbed>>
    BY <1>1 DEF Find
  <2>3. ~Allocating(q, n)'
    <3>1. CASE rows[k].node = m
      <4>1. rows[k] = [node |-> m, address |-> rows[k].address]
        BY <1>t, <3>1 DEF Places
      <4>2. request'[q].post = [key |-> k, node |-> m, address |-> rows[k].address]
        BY <1>t, <2>1, <3>1 DEF Goes
      <4>3. QED
        BY <2>2, <4>1, <4>2 DEF Allocating
    <3>2. CASE rows[k].node # m
      <4>1. request'[q].at = "count"
        BY <1>t, <2>1, <3>2 DEF Goes
      <4>2. QED
        BY <4>1 DEF Allocating
    <3>3. QED
      BY <3>1, <3>2
  <2>4. \A r \in Requests : r # q => request'[r] = request[r]
    BY <1>t, <2>1 DEF Goes
  <2>5. \A r \in Requests : Allocating(r, n)' =>
          Allocating(r, n) /\ request'[r].post.address = request[r].post.address
    BY <2>2, <2>3, <2>4 DEF Allocating
  <2>6. QED
    BY <1>o, <2>2, <2>5, OrderlyKept DEF ClientsOn
<1>2. ASSUME NEW q \in Requests, Count(q) PROVE Orderly(n)'
  <2> DEFINE p == request[q].post
             c == [p EXCEPT !.address = Address(NextIndex(p.node))]
  <2>1. p \in Posts
    BY <1>2, <1>t DEF Count, HasPost
  <2>2. c.key = p.key /\ c.node = p.node /\ c.address = Address(NextIndex(p.node))
    <3> HIDE DEF p
    <3>1. QED
      BY <2>1 DEF Posts
  <2>3. UNCHANGED rows /\ Orderly(n)
    BY <1>2, <1>o DEF Count
  <2>4. request'[q] = [at |-> "post", post |-> c, attempt |-> 1]
    BY <1>2, <1>t DEF Count, Goes
  <2>5. \A r \in Requests : r # q => request'[r] = request[r]
    BY <1>2, <1>t DEF Count, Goes
  <2>6. p.node = n => \A r \in Requests \ {q} : ~Allocating(r, n)
    BY <1>2, <1>s DEF Count
  <2> HIDE DEF c, p
  <2>7. \A r \in Requests \ {q} : Allocating(r, n)' =>
          Allocating(r, n) /\ request'[r].post.address = request[r].post.address
    BY <2>3, <2>5 DEF Allocating
  <2>8. CASE p.node # n
    <3>1. ~Allocating(q, n)'
      BY <2>2, <2>4, <2>8 DEF Allocating
    <3>2. QED
      BY <2>3, <2>7, <3>1, OrderlyKept DEF ClientsOn
  <2>9. CASE p.node = n
    <3>1. \A r \in Requests \ {q} : ~Allocating(r, n)'
      BY <2>6, <2>7, <2>9
    <3>2. ClientsOn(n)' = ClientsOn(n)
      BY <2>3 DEF ClientsOn
    <3>3. \A i \in Int : Address(i)' = Address(i)
      BY DEF Address
    <3>4. request'[q].post.address = Address(NextIndex(n))'
      BY <2>2, <2>4, <2>9, <3>2 DEF NextIndex, Address
    <3>5. QED
      BY <2>3, <3>1, <3>2, <3>3, <3>4 DEF Orderly
  <2>10. QED
    BY <2>8, <2>9
<1>3. ASSUME NEW q \in Requests, Acknowledged(q) \/ AttemptFails(q) \/ Fails(q)
      PROVE  Orderly(n)'
  <2>1. UNCHANGED rows /\ Orderly(n)
    BY <1>3, <1>o DEF Acknowledged, AttemptFails, Fails
  <2>2. \A r \in Requests : r # q => request'[r] = request[r]
    BY <1>3, <1>t DEF Acknowledged, AttemptFails, Fails, Goes
  <2>3. \/ request'[q] = Idle
        \/ request[q].at = "post" /\ request'[q].post = request[q].post
    BY <1>3, <1>t DEF Acknowledged, AttemptFails, Fails, Goes
  <2>4. \A r \in Requests : Allocating(r, n)' =>
          Allocating(r, n) /\ request'[r].post.address = request[r].post.address
    BY <2>1, <2>2, <2>3 DEF Allocating, Idle
  <2>5. QED
    BY <2>1, <2>4, OrderlyKept DEF ClientsOn
<1>4. ASSUME NEW p \in late, Arrives(p) PROVE Orderly(n)'
  <2>1. UNCHANGED <<rows, request>> /\ Orderly(n)
    BY <1>4, <1>o DEF Arrives
  <2>2. QED
    BY <2>1, OrderlyKept DEF ClientsOn, Allocating
<1>5. ASSUME NEW q \in Requests, Save(q) PROVE Orderly(n)'
  <2> DEFINE p   == request[q].post
             key == p.key
             new == [node |-> p.node, address |-> p.address]
  <2>1. p \in Posts /\ key \in Keys /\ request[q].at = "save"
    BY <1>5, <1>t DEF Save, HasPost, Posts
  <2>2. rows' = [rows EXCEPT ![key] = new] /\ Orderly(n)
    BY <1>5, <1>o DEF Save, SavedRow
  <2>3. /\ \A r \in Requests : r # q => request'[r] = request[r]
        /\ ~Allocating(q, n)'
    BY <1>5, <1>t DEF Save, Allocating, Idle
  <2>4. rows[key] # new => rows[key].node # n
    BY <1>5, <1>s, <1>t, <2>1, <2>2 DEF Save
  <2>5. rows'[key] = new /\ \A k \in Keys \ {key} : rows'[k] = rows[k]
    BY <1>t, <2>1, <2>2
  <2>6. new.node = p.node /\ new.address = p.address
    OBVIOUS
  <2>7. CASE rows[key] = new
    <3>1. rows' = rows
      BY <1>t, <2>1, <2>2, <2>7
    <3>2. QED
      BY <2>2, <2>3, <3>1, OrderlyKept DEF ClientsOn, Allocating
  <2>8. CASE rows[key] # new
    \* The row was not on n, so a request that carries an address there still does.
    <3>1. ASSUME NEW r \in Requests, r # q, Allocating(r, n)' PROVE Allocating(r, n)
      <4>1. request[r] = request'[r]
        BY <2>3, <3>1
      <4>2. request[r].post.key \in Keys
        BY <1>t, <3>1, <4>1 DEF Allocating, HasPost, Posts
      <4>3. CASE request[r].post.key = key
        BY <2>4, <2>8, <3>1, <4>1, <4>3 DEF Allocating
      <4>4. CASE request[r].post.key # key
        BY <2>5, <3>1, <4>1, <4>2, <4>4 DEF Allocating
      <4>5. QED
        BY <4>3, <4>4
    <3>2. CASE p.node # n
      <4>1. ClientsOn(n)' = ClientsOn(n) /\ key \notin ClientsOn(n)
        BY <2>4, <2>5, <2>6, <2>8, <3>2 DEF ClientsOn
      <4>2. \A k \in ClientsOn(n) : rows'[k] = rows[k]
        BY <2>5, <4>1 DEF ClientsOn
      <4>3. QED
        BY <2>2, <2>3, <3>1, <4>1, <4>2, OrderlyKept
    <3>3. CASE p.node = n
      <4>1. Allocating(q, n)
        BY <2>1, <2>8, <3>3 DEF Allocating
      <4>2. p.address = Address(NextIndex(n)) /\ \A r \in Requests : Allocating(r, n) => r = q
        BY <2>2, <4>1 DEF Orderly
      <4>3. \A r \in Requests : ~Allocating(r, n)'
        BY <2>3, <3>1, <4>2
      <4>4. key \notin ClientsOn(n) /\ ClientsOn(n)' = ClientsOn(n) \cup {key}
        BY <2>1, <2>4, <2>5, <2>6, <2>8, <3>3 DEF ClientsOn
      <4>5. \A k \in ClientsOn(n) : rows'[k] = rows[k]
        BY <2>5, <4>4 DEF ClientsOn
      <4>6. rows'[key].address = Address(NextIndex(n))
        BY <2>5, <2>6, <4>2
      <4> HIDE DEF key, new, p
      <4>7. QED
        BY <2>1, <2>2, <4>3, <4>4, <4>5, <4>6, OrderlyJoined
    <3>4. QED
      BY <3>2, <3>3
  <2>9. QED
    BY <2>7, <2>8
<1>6. CASE UNCHANGED vars
  <2>1. UNCHANGED <<rows, request>> /\ Orderly(n)
    BY <1>6, <1>o DEF vars
  <2>2. QED
    BY <2>1, OrderlyKept DEF ClientsOn, Allocating
<1>7. QED
  BY <1>1, <1>2, <1>3, <1>4, <1>5, <1>6 DEF Next, Proceed

\* Two clients of a node have different addresses until one of them, or of
\* the node's others, gives its address up, or two requests count the node's
\* rows at once: its clients have the addresses 2 to their number plus one.
THEOREM ScopedUnlessDisturbedHolds == Spec => []ScopedUnlessDisturbed
<1>1. OrderlyIInv => ScopedUnlessDisturbed
  <2> SUFFICES ASSUME OrderlyIInv, NEW j \in Keys, NEW k \in Keys, j # k,
                      rows[j].node # None, rows[j].node = rows[k].node,
                      rows[j].node \notin disturbed
               PROVE  rows[j].address # rows[k].address
    BY DEF ScopedUnlessDisturbed
  <2>1. rows[j].node \in Nodes
    BY DEF OrderlyIInv, Typed, TypeOK, Places
  <2>2. Orderly(rows[j].node)
    BY <2>1 DEF OrderlyIInv
  <2>3. QED
    BY <2>2 DEF Orderly, ClientsOn
<1>2. OrderlyIInv /\ [Next]_vars => OrderlyIInv'
  BY OrderlyStep
<1>3. QED
  BY <1>1, <1>2, OrderlyInit, PTL DEF Spec
=============================================================================

------------------------------ MODULE NodePeers ------------------------------
(***************************************************************************)
(* VPNConfigService.processVpnConnection: handing a WireGuard client an    *)
(* address on a node.  A request looks up the client's row in node_clients *)
(* and, unless it is on the same node, counts the node's rows to pick the  *)
(* next address; it then registers the peer on the node's daemon over      *)
(* HTTP, with a timeout and retries, and only then saves the row.  There   *)
(* is no transaction and no lock, so requests interleave between any two   *)
(* of these steps, and may stop at any of them.                            *)
(*                                                                         *)
(* The blind signature and the node are checked first; a request they      *)
(* reject changes nothing and is left out.  This code never deletes a      *)
(* node, a row or a peer.                                                  *)
(***************************************************************************)
EXTENDS Integers, FiniteSets

CONSTANTS
  Nodes,
  Keys,          \* client public keys
  Requests,      \* requests being served
  KeysOf,        \* the clients whose calls each request may carry
  MaxAttempts,   \* NODE_DAEMON_REGISTER_ATTEMPTS
  LatePosts,     \* bound: timed-out posts still on their way
  Octet,         \* values of one octet of an address: 256
  None

ASSUME ConstantsOK ==
  /\ MaxAttempts \in Nat \ {0} /\ LatePosts \in Nat /\ Octet \in Nat \ {0, 1}
  /\ KeysOf \in [Requests -> SUBSET Keys]
  /\ None \notin Nodes
  /\ IsFiniteSet(Keys)

VARIABLES
  rows,      \* node_clients: where each key is, and its address there
  peers,     \* each daemon's peers: the address of each key, if registered
  request,   \* what each request is doing
  late,      \* posts that timed out here and may still reach their daemon
  strays,    \* history: those that have reached it
  disturbed  \* history: nodes whose rows no longer number their clients

vars == <<rows, peers, request, late, strays, disturbed>>

\* Address(i) is 10.66.<a[1]>.<a[2]>/32; the node is Address(1).
BugNoCarry(index) == <<0, index>>
Address(index) == <<index \div Octet, index % Octet>>
Addresses == Nat \X (0..(Octet - 1))
Unset     == Address(0)

Places == [node : Nodes \cup {None}, address : Addresses]
Absent == [node |-> None, address |-> Unset]
Posts  == [key : Keys, node : Nodes, address : Addresses]
Calls  == [at : {"idle", "count", "post", "save"}, post : Posts \cup {None},
           attempt : 1..MaxAttempts]
Idle   == [at |-> "idle", post |-> None, attempt |-> 1]

TypeOK ==
  /\ rows \in [Keys -> Places]
  /\ peers \in [Nodes -> [Keys -> Addresses \cup {None}]]
  /\ request \in [Requests -> Calls]
  /\ late \in SUBSET Posts /\ strays \in SUBSET Posts
  /\ disturbed \in SUBSET Nodes

Init ==
  /\ rows = [k \in Keys |-> Absent]
  /\ peers = [n \in Nodes |-> [k \in Keys |-> None]]
  /\ request = [q \in Requests |-> Idle]
  /\ late = {} /\ strays = {} /\ disturbed = {}

-----------------------------------------------------------------------------
Goes(q, step, post, attempt) ==
  request' = [request EXCEPT ![q] = [at |-> step, post |-> post, attempt |-> attempt]]

\* Look the client up: on the same server it keeps its address.
Find(q) ==
  /\ request[q].at = "idle"
  /\ \E k \in KeysOf[q], n \in Nodes :
       LET same == rows[k].node = n
           a    == IF same THEN rows[k].address ELSE Unset
       IN  Goes(q, IF same THEN "post" ELSE "count", [key |-> k, node |-> n, address |-> a], 1)
  /\ UNCHANGED <<rows, peers, late, strays, disturbed>>

ClientsOn(n) == {k \in Keys : rows[k].node = n}

BugFromGateway(n) == Cardinality(ClientsOn(n)) + 1
NextIndex(n) == Cardinality(ClientsOn(n)) + 2

BugKeepRow(p) == IF rows[p.key] = Absent THEN [node |-> p.node, address |-> p.address]
                 ELSE [rows[p.key] EXCEPT !.node = p.node]
SavedRow(p) == [node |-> p.node, address |-> p.address]

\* r carries an address on n that is not yet in its client's row.
Allocating(r, n) ==
  LET p == request[r].post IN
    /\ request[r].at \in {"post", "save"}
    /\ p.node = n /\ rows[p.key] # [node |-> n, address |-> p.address]

\* Two requests that count between each other's count and save disturb a node.
Count(q) ==
  LET p == request[q].post IN
    /\ request[q].at = "count"
    /\ Goes(q, "post", [p EXCEPT !.address = Address(NextIndex(p.node))], 1)
    /\ disturbed' = disturbed \cup
         {n \in Nodes : n = p.node /\ \E r \in Requests \ {q} : Allocating(r, n)}
    /\ UNCHANGED <<rows, peers, late, strays>>

Registered(p) == [peers EXCEPT ![p.node][p.key] = p.address]

\* POST /peers answers 200 or 201.
Acknowledged(q) ==
  LET p == request[q].post IN
    /\ request[q].at = "post"
    /\ peers' = Registered(p)
    /\ Goes(q, "save", p, request[q].attempt)
    /\ UNCHANGED <<rows, late, strays, disturbed>>

\* A retryable failure of this attempt: a refused or broken connection, a
\* timeout or a 5xx.  The daemon may have applied it, or may do so later.
BugRestart(attempt) == (attempt % MaxAttempts) + 1
NextAttempt(attempt) == attempt + 1

AttemptFails(q) ==
  LET p    == request[q].post
      next == NextAttempt(request[q].attempt)
  IN
    /\ request[q].at = "post"
    /\ \/ peers' = Registered(p) /\ UNCHANGED late
       \/ UNCHANGED <<peers, late>>
       \/ Cardinality(late \cup strays) < LatePosts /\ late' = late \cup {p} /\ UNCHANGED peers
    /\ IF next > MaxAttempts
       THEN request' = [request EXCEPT ![q] = Idle]
       ELSE Goes(q, "post", p, next)
    /\ UNCHANGED <<rows, strays, disturbed>>

Arrives(p) ==
  /\ p \in late
  /\ peers' = Registered(p)
  /\ late' = late \ {p}
  /\ strays' = strays \cup {p}
  /\ UNCHANGED <<rows, request, disturbed>>

\* Upsert the row on client_public_key and answer.  A client that gives up an
\* address on a node disturbs that node.
Save(q) ==
  LET p == request[q].post IN
    /\ request[q].at = "save"
    /\ rows' = [rows EXCEPT ![p.key] = SavedRow(p)]
    /\ disturbed' = disturbed \cup {n \in Nodes : n = rows[p.key].node /\ rows'[p.key] # rows[p.key]}
    /\ request' = [request EXCEPT ![q] = Idle]
    /\ UNCHANGED <<peers, late, strays>>

\* A 4xx from the daemon, a database error, or the death of the process: the
\* request ends where it is, and nothing it did is undone.
Fails(q) ==
  /\ request[q].at # "idle"
  /\ request' = [request EXCEPT ![q] = Idle]
  /\ UNCHANGED <<rows, peers, late, strays, disturbed>>

Proceed(q) == Count(q) \/ Acknowledged(q) \/ AttemptFails(q) \/ Save(q) \/ Fails(q)

Next ==
  \/ \E q \in Requests : Find(q) \/ Proceed(q)
  \/ \E p \in late : Arrives(p)

Spec == Init /\ [][Next]_vars

\* Every await of a request resolves: each has a timeout.
FairSpec == Spec /\ \A q \in Requests : WF_vars(Proceed(q))

-----------------------------------------------------------------------------
(* Properties                                                              *)

Strayed(k, n, address) == [key |-> k, node |-> n, address |-> address] \in strays

\* A client's row names the address its node routes to it, however posts were
\* retried, rejected, or applied with their answer lost; only a post applied
\* after its own attempt timed out can part them.  The calls of one client
\* must not overlap.
RowRouted ==
  \A k \in Keys : LET r == rows[k] IN
    r.node # None => \/ peers[r.node][k] = r.address
                     \/ Strayed(k, r.node, peers[r.node][k])

\* vpn-config.service.ts:293 "Subnet: 10.66.0.0/16. Node is .1, clients from .2".
UsableAddress ==
  \A k \in Keys : LET a == rows[k].address IN
    rows[k].node # None => /\ a[1] \in 0..(Octet - 1)
                           /\ a \notin {Address(0), Address(1)}

\* README.md:89: the node "returns an allowedIps block strictly scoped to them".
AddressScoped ==
  \A j, k \in Keys :
    j # k /\ rows[j].node # None /\ rows[j].node = rows[k].node
      => rows[j].address # rows[k].address

\* What can break that scoping is only a client leaving the node (or changing
\* address there), and two requests counting its rows at once: until one of
\* these happens no retry, rejection, crash or stray post gives two clients of
\* a node one address.
ScopedUnlessDisturbed ==
  \A j, k \in Keys :
    /\ j # k /\ rows[j].node # None /\ rows[j].node = rows[k].node
    /\ rows[j].node \notin disturbed
    => rows[j].address # rows[k].address

\* Every call is answered: its retries end.
CallsEnd == \A q \in Requests : request[q].at # "idle" ~> request[q].at = "idle"
=============================================================================

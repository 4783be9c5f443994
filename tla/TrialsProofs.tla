----------------------------- MODULE TrialsProofs -----------------------------
(***************************************************************************)
(* Proofs about Trials, for any users, devices, workers and bounds.        *)
(*                                                                         *)
(* That the user row follows the grant, and that whoever sends a notice    *)
(* holds its claim, are inductive only together with what a call knows of  *)
(* the grant it works on: a call that restores or announces has seen one.  *)
(* Under the same invariant the notices implement NoticeLog.               *)
(***************************************************************************)
EXTENDS Trials, WellFoundedInduction, TLAPS

\* Every running call has its user.
HasUser ==
  /\ \A w \in Grants : call[w].at # "idle" => call[w].user \in Users
  /\ \A c \in Checks : check[c].at # "idle" => check[c].user \in Users

\* A call that restores or announces has seen a grant.
SawGrant ==
  \A w \in Grants :
    /\ call[w].at \in {"restore", "cluster"} => Granted(call[w].user)
    /\ call[w].at \in {"claim", "send", "release"} =>
         call[w].coordinator \in Users /\ Granted(call[w].coordinator)

\* A claim stays until its holder releases it, and for good once acknowledged.
ClaimsHeld ==
  /\ \A w \in Grants : call[w].at \in {"send", "release"} =>
       /\ grant[call[w].coordinator].claim = w
       /\ call[w].coordinator \notin announced
  /\ \A u \in Users : u \in announced => grant[u].claim # None
  /\ \A u \in Users : grant[u].claim # None => Granted(u)

IInv == TypeOK /\ HasUser /\ SawGrant /\ TrialFollowsGrant /\ ClaimsHeld

USE ConstantsOK

-----------------------------------------------------------------------------
(* Types                                                                   *)

TrialRows == [active : BOOLEAN, ends : Nat \cup {None}]
GrantRows == [expires : Nat \cup {None}, device : Devices \cup {None}, claim : Grants \cup {None}]
CallStates == [at : {"idle", "read", "restore", "device", "create",
                     "cluster", "claim", "send", "release"},
               user : Users \cup {None}, device : Devices \cup {None},
               start : Nat, coordinator : Users \cup {None}]
CheckStates == [at : {"idle", "read", "expire", "look", "repair", "session"},
                user : Users \cup {None}, round : {1, 2}, asked : Nat]

LEMMA TypeParts ==
  TypeOK <=> /\ trial \in [Users -> TrialRows] /\ grant \in [Users -> GrantRows]
             /\ fingerprint \in [Devices -> Users \cup {None}]
             /\ call \in [Grants -> CallStates] /\ check \in [Checks -> CheckStates]
             /\ announced \in SUBSET Users /\ posted \in [Users -> Nat] /\ now \in Nat
  BY DEF TypeOK, TrialRows, GrantRows, CallStates, CheckStates

LEMMA IdleTypes == /\ NoGrant \in GrantRows /\ NoGrant.expires = None /\ NoGrant.claim = None
                   /\ NoCall \in CallStates /\ NoCall.at = "idle"
                   /\ NoCheck \in CheckStates /\ NoCheck.at = "idle"
  BY DEF NoGrant, GrantRows, NoCall, CallStates, NoCheck, CheckStates

\* First returns a member: a set of naturals that is not empty has a least one.
LEMMA FirstMember ==
  ASSUME NEW S \in SUBSET Users, S # {}
  PROVE  First(S) \in S
<1> DEFINE Below == {p \in Nat \X Nat : p[1] < p[2]}
<1>1. IsWellFoundedOn(Below, Nat)
  BY NatLessThanWellFounded DEF OpToRel
<1>2. PICK u \in S : \A v \in S : ~ (<<v, u>> \in Below)
  <2>1. S \subseteq Nat
    OBVIOUS
  <2> HIDE DEF Below
  <2>2. QED
    BY <1>1, <2>1, WFMin
<1>3. \A v \in S : u <= v
  <2>1. ASSUME NEW v \in S PROVE u <= v
    <3>1. u \in Nat /\ v \in Nat /\ <<v, u>> \notin Below
      BY <1>2
    <3>2. QED
      BY <3>1
  <2>2. QED
    BY <2>1
<1>4. QED
  BY <1>3 DEF First

LEMMA FromGrantType ==
  ASSUME TypeOK, NEW u \in Users, NEW instant \in Nat, Granted(u)
  PROVE  FromGrant(u, instant) \in TrialRows /\ FromGrant(u, instant).ends = grant[u].expires
<1>1. grant[u].expires \in Nat \cup {None}
  BY TypeParts DEF GrantRows
<1>2. QED
  BY <1>1 DEF FromGrant, TrialRows, Granted

LEMMA InitOK == Init => IInv
<1> SUFFICES ASSUME Init PROVE IInv
  OBVIOUS
<1>1. TypeOK
  <2>1. trial \in [Users -> TrialRows]
    BY DEF Init, TrialRows
  <2>2. /\ grant \in [Users -> GrantRows] /\ call \in [Grants -> CallStates]
        /\ check \in [Checks -> CheckStates]
    BY IdleTypes DEF Init
  <2>3. QED
    BY <2>1, <2>2, TypeParts DEF Init
<1>2. HasUser /\ SawGrant /\ TrialFollowsGrant /\ ClaimsHeld
  BY IdleTypes DEF Init, HasUser, SawGrant, TrialFollowsGrant, ClaimsHeld, Granted
<1>3. QED
  BY <1>1, <1>2 DEF IInv

-----------------------------------------------------------------------------
(* What moving on does to a call                                           *)

CallPlaces == {"idle", "read", "restore", "device", "create", "cluster", "claim", "send", "release"}

LEMMA GotoEffect ==
  ASSUME TypeOK, NEW w \in Grants, NEW to \in CallPlaces, CallGoto(w, to)
  PROVE  /\ call' \in [Grants -> CallStates]
         /\ call'[w] = [call[w] EXCEPT !.at = to] /\ call'[w].at = to
         /\ call'[w].user = call[w].user /\ call'[w].coordinator = call[w].coordinator
         /\ \A v \in Grants \ {w} : call'[v] = call[v]
<1>1. call \in [Grants -> CallStates] /\ call[w] \in CallStates
  BY TypeParts
<1>2. [call[w] EXCEPT !.at = to] \in CallStates
  BY <1>1 DEF CallStates, CallPlaces
<1>3. call' = [call EXCEPT ![w] = [call[w] EXCEPT !.at = to]]
  BY DEF CallGoto
<1>4. QED
  BY <1>1, <1>2, <1>3 DEF CallStates

LEMMA EndEffect ==
  ASSUME TypeOK, NEW w \in Grants, EndCall(w)
  PROVE  /\ call' \in [Grants -> CallStates] /\ call'[w].at = "idle"
         /\ \A v \in Grants \ {w} : call'[v] = call[v]
<1>1. call \in [Grants -> CallStates]
  BY TypeParts
<1>2. QED
  BY <1>1, IdleTypes DEF EndCall

CheckPlaces == {"idle", "read", "expire", "look", "repair", "session"}

LEMMA CheckGotoEffect ==
  ASSUME TypeOK, NEW c \in Checks, NEW to \in CheckPlaces,
         CheckGoto(c, to) \/ check' = [check EXCEPT ![c].at = to, ![c].round = 2]
  PROVE  /\ check' \in [Checks -> CheckStates] /\ check'[c].user = check[c].user
         /\ \A d \in Checks \ {c} : check'[d] = check[d]
<1>1. check \in [Checks -> CheckStates] /\ check[c] \in CheckStates
  BY TypeParts
<1>2. PICK r \in {check[c].round, 2} :
        check' = [check EXCEPT ![c] = [check[c] EXCEPT !.at = to, !.round = r]]
  <2>1. CASE CheckGoto(c, to)
    <3>1. [check[c] EXCEPT !.at = to] = [check[c] EXCEPT !.at = to, !.round = check[c].round]
      BY <1>1 DEF CheckStates
    <3>2. QED
      BY <2>1, <3>1 DEF CheckGoto
  <2>2. CASE check' = [check EXCEPT ![c].at = to, ![c].round = 2]
    BY <1>1, <2>2
  <2>3. QED
    BY <2>1, <2>2
<1>3. [check[c] EXCEPT !.at = to, !.round = r] \in CheckStates
  BY <1>1 DEF CheckStates, CheckPlaces
<1>4. QED
  BY <1>1, <1>2, <1>3 DEF CheckStates

LEMMA ExpiredEffect ==
  ASSUME TypeOK, NEW c \in Checks, Expired(c)
  PROVE  /\ check' \in [Checks -> CheckStates] /\ check'[c].user = check[c].user
         /\ \A d \in Checks \ {c} : check'[d] = check[d]
  BY CheckGotoEffect DEF Expired, CheckPlaces

LEMMA EndCheckEffect ==
  ASSUME TypeOK, NEW c \in Checks, EndCheck(c)
  PROVE  /\ check' \in [Checks -> CheckStates] /\ check'[c].at = "idle"
         /\ \A d \in Checks \ {c} : check'[d] = check[d]
<1>1. check \in [Checks -> CheckStates]
  BY TypeParts
<1>2. QED
  BY <1>1, IdleTypes DEF EndCheck

-----------------------------------------------------------------------------
(* Writes to the trial columns                                             *)

\* Writing what the grant says, or only the flag, keeps the end date.
LEMMA TrialWrite ==
  ASSUME IInv, NEW u \in Users, NEW t \in TrialRows, trial' = [trial EXCEPT ![u] = t],
         UNCHANGED grant, Granted(u) => t.ends = grant[u].expires
  PROVE  trial' \in [Users -> TrialRows] /\ TrialFollowsGrant'
<1>1. trial \in [Users -> TrialRows]
  BY TypeParts DEF IInv
<1>2. trial' \in [Users -> TrialRows]
  BY <1>1
<1>3. TrialFollowsGrant'
  BY <1>1 DEF IInv, TrialFollowsGrant, Granted
<1>4. QED
  BY <1>2, <1>3

\* A step that leaves the grants and the announcements alone keeps the claims
\* if its call neither starts to send nor goes on to release.
LEMMA CallMoves ==
  ASSUME IInv, NEW w \in Grants, UNCHANGED <<grant, check, announced>>,
         \A v \in Grants \ {w} : call'[v] = call[v],
         call'[w].at \notin {"send", "release"}
  PROVE  ClaimsHeld'
  BY DEF IInv, ClaimsHeld, Granted

-----------------------------------------------------------------------------
(* grantIfEligible keeps the invariant                                     *)

\* A step of a call that writes no table.
LEMMA CallOnly ==
  ASSUME IInv, NEW w \in Grants,
         GrantBegin(w) \/ GrantRead(w) \/ GrantDevice(w) \/ GrantFails(w)
  PROVE  IInv'
<1>0. UNCHANGED <<trial, grant, fingerprint, check, announced, posted, now>> /\ TypeOK
  BY DEF GrantBegin, GrantRead, GrantDevice, GrantFails, IInv
<1>1. /\ call' \in [Grants -> CallStates] /\ \A v \in Grants \ {w} : call'[v] = call[v]
      /\ call'[w].at \in {"idle", "read", "restore", "device", "create"}
      /\ call'[w].at # "idle" => call'[w].user \in Users
      /\ call'[w].at = "restore" => Granted(call'[w].user)
  <2>1. CASE GrantBegin(w)
    <3>1. PICK u \in Users, d \in Devices \cup {None} :
            call' = [call EXCEPT ![w] = [NoCall EXCEPT !.at = "read", !.user = u,
                                                       !.device = d, !.start = now]]
      BY <2>1 DEF GrantBegin
    <3>2. [NoCall EXCEPT !.at = "read", !.user = u, !.device = d, !.start = now] \in CallStates
      BY <1>0, TypeParts DEF NoCall, CallStates
    <3>3. call \in [Grants -> CallStates]
      BY <1>0, TypeParts
    <3>4. QED
      BY <3>1, <3>2, <3>3 DEF NoCall
  <2>2. CASE GrantRead(w)
    <3>1. call[w].user \in Users
      BY <2>2 DEF GrantRead, IInv, HasUser
    <3>2. CASE Granted(call[w].user) /\ CallGoto(w, "restore")
      BY <1>0, <3>1, <3>2, GotoEffect DEF CallPlaces
    <3>3. CASE EndCall(w)
      BY <1>0, <3>3, EndEffect
    <3>4. CASE \E to \in {"create", "device"} : CallGoto(w, to)
      BY <1>0, <3>1, <3>4, GotoEffect DEF CallPlaces
    <3>5. QED
      BY <2>2, <3>2, <3>3, <3>4 DEF GrantRead
  <2>3. CASE GrantDevice(w)
    <3>1. call[w].user \in Users
      BY <2>3 DEF GrantDevice, IInv, HasUser
    <3>2. CASE CallGoto(w, "create")
      BY <1>0, <3>1, <3>2, GotoEffect DEF CallPlaces
    <3>3. CASE EndCall(w)
      BY <1>0, <3>3, EndEffect
    <3>4. QED
      BY <2>3, <3>2, <3>3 DEF GrantDevice
  <2>4. CASE GrantFails(w)
    BY <1>0, <2>4, EndEffect DEF GrantFails
  <2>5. QED
    BY <2>1, <2>2, <2>3, <2>4
<1>2. TypeOK'
  BY <1>0, <1>1, TypeParts DEF TypeOK, CallStates
<1>3. HasUser' /\ SawGrant' /\ TrialFollowsGrant'
  BY <1>0, <1>1 DEF IInv, HasUser, SawGrant, TrialFollowsGrant, Granted
<1>4. ClaimsHeld'
  BY <1>0, <1>1, CallMoves
<1>5. QED
  BY <1>2, <1>3, <1>4 DEF IInv

LEMMA RestoreKeeps ==
  ASSUME IInv, NEW w \in Grants, GrantRestore(w)
  PROVE  IInv'
<1> DEFINE u == call[w].user
<1>0. UNCHANGED <<grant, fingerprint, check, announced, posted, now>> /\ TypeOK /\ u \in Users /\ Granted(u)
  BY DEF GrantRestore, IInv, HasUser, SawGrant
<1>1. /\ call' \in [Grants -> CallStates] /\ call'[w].at = "idle"
      /\ \A v \in Grants \ {w} : call'[v] = call[v]
  BY <1>0, EndEffect DEF GrantRestore
<1>2. trial' \in [Users -> TrialRows] /\ TrialFollowsGrant'
  <2> DEFINE t == FromGrant(u, call[w].start)
  <2>1. call[w].start \in Nat
    BY <1>0, TypeParts DEF CallStates
  <2>2. t \in TrialRows /\ t.ends = grant[u].expires
    BY <1>0, <2>1, FromGrantType
  <2>3. trial' = [trial EXCEPT ![u] = t]
    BY DEF GrantRestore
  <2> HIDE DEF t, u
  <2>4. QED
    BY <1>0, <2>2, <2>3, TrialWrite
<1>3. TypeOK'
  BY <1>0, <1>1, <1>2 DEF TypeOK, CallStates, TrialRows
<1>4. HasUser' /\ SawGrant'
  BY <1>0, <1>1 DEF IInv, HasUser, SawGrant, Granted
<1>5. ClaimsHeld'
  BY <1>0, <1>1, CallMoves
<1>6. QED
  BY <1>2, <1>3, <1>4, <1>5 DEF IInv

\* The new row is nobody's claim: the user had no grant, so nobody waits on it.
LEMMA CreateKeeps ==
  ASSUME IInv, NEW w \in Grants, GrantCreate(w)
  PROVE  IInv'
<1>u. PICK u \in Users : call[w].user = u
  BY DEF GrantCreate, IInv, HasUser
<1>p. PICK g : g = [expires |-> call[w].start + Duration, device |-> call[w].device, claim |-> None]
  OBVIOUS
<1>0. UNCHANGED <<check, announced, posted, now>> /\ TypeOK
  BY DEF GrantCreate, IInv
<1>1. ~Granted(u)
  BY <1>u DEF GrantCreate, MayInsert
<1>2. /\ call' \in [Grants -> CallStates] /\ call'[w].at = "cluster" /\ call'[w].user = u
      /\ \A v \in Grants \ {w} : call'[v] = call[v]
  BY <1>0, <1>u, GotoEffect DEF GrantCreate, CallPlaces
<1>3. /\ call[w].start + Duration \in Nat /\ call[w].device \in Devices \cup {None}
      /\ call[w].start + Duration # None
  <2>1. call[w].start \in Nat /\ call[w].device \in Devices \cup {None}
    BY <1>0, TypeParts DEF CallStates
  <2>2. call[w].start + Duration \in Nat
    BY <2>1
  <2>3. QED
    BY <2>1, <2>2
<1>4. g \in GrantRows /\ NewTrial(w) \in TrialRows /\ NewTrial(w).ends = g.expires /\ g.claim = None /\ g.expires # None
  BY <1>p, <1>3 DEF GrantRows, TrialRows, NewTrial
<1>5. grant \in [Users -> GrantRows] /\ trial \in [Users -> TrialRows]
      /\ fingerprint \in [Devices -> Users \cup {None}]
  BY <1>0, TypeParts
<1>6. grant' = [grant EXCEPT ![u] = g] /\ trial' = [trial EXCEPT ![u] = NewTrial(w)]
  BY <1>u, <1>p DEF GrantCreate
<1>7. /\ grant' \in [Users -> GrantRows] /\ trial' \in [Users -> TrialRows]
      /\ grant'[u] = g /\ trial'[u].ends = g.expires
      /\ \A v \in Users \ {u} : grant'[v] = grant[v] /\ trial'[v] = trial[v]
  BY <1>0, <1>4, <1>5, <1>6
<1>8. TypeOK'
  <2>1. fingerprint' \in [Devices -> Users \cup {None}]
    BY <1>u, <1>5 DEF GrantCreate
  <2>2. QED
    BY <1>0, <1>2, <1>7, <2>1 DEF TypeOK, CallStates, TrialRows, GrantRows
<1>g. \A v \in Users : Granted(v)' <=> v = u \/ Granted(v)
  BY <1>4, <1>7 DEF Granted
<1>9. HasUser'
  BY <1>0, <1>2 DEF IInv, HasUser
<1>10. SawGrant'
  <2>1. ASSUME NEW v \in Grants \ {w}
        PROVE  (/\ call[v].at \in {"restore", "cluster"} => Granted(call[v].user)
                /\ call[v].at \in {"claim", "send", "release"} =>
                     call[v].coordinator \in Users /\ Granted(call[v].coordinator))'
    BY <1>2, <1>g DEF IInv, HasUser, SawGrant
  <2>2. QED
    BY <2>1, <1>2, <1>g DEF SawGrant
<1>11. TrialFollowsGrant'
  BY <1>7 DEF IInv, TrialFollowsGrant, Granted
<1>12. ClaimsHeld'
  <2>1. u \notin announced /\ \A v \in Grants : call[v].at \in {"send", "release"} => call[v].coordinator # u
    BY <1>0, <1>1 DEF IInv, ClaimsHeld, SawGrant
  <2>2. ASSUME NEW v \in Grants, call'[v].at \in {"send", "release"}
        PROVE  (/\ grant[call[v].coordinator].claim = v
                /\ call[v].coordinator \notin announced)'
    <3>1. v # w /\ call'[v] = call[v]
      BY <1>2, <2>2
    <3>2. call[v].coordinator \in Users \ {u} /\ call[v].coordinator \notin announced
          /\ grant[call[v].coordinator].claim = v
      BY <2>1, <2>2, <3>1 DEF IInv, ClaimsHeld, SawGrant
    <3>3. QED
      BY <1>0, <1>7, <3>1, <3>2
  <2>3. \A v \in Users : (v \in announced => grant[v].claim # None)'
    BY <1>0, <1>7, <2>1 DEF IInv, ClaimsHeld
  <2>4. \A v \in Users : (grant[v].claim # None => Granted(v))'
    BY <1>g, <1>4, <1>7 DEF IInv, ClaimsHeld
  <2>5. QED
    BY <2>2, <2>3, <2>4 DEF ClaimsHeld
<1>13. QED
  BY <1>8, <1>9, <1>10, <1>11, <1>12 DEF IInv

-----------------------------------------------------------------------------
(* The notice keeps the invariant                                          *)

LEMMA ClusterKeeps ==
  ASSUME IInv, NEW w \in Grants, NoticeCluster(w)
  PROVE  IInv'
<1>0. UNCHANGED <<trial, grant, fingerprint, check, announced, posted, now>> /\ TypeOK
  BY DEF NoticeCluster, IInv
<1>1. /\ call' \in [Grants -> CallStates] /\ \A v \in Grants \ {w} : call'[v] = call[v]
      /\ call'[w].at \in {"idle", "claim"}
      /\ call'[w].at # "idle" => call'[w].user \in Users
      /\ call'[w].at = "claim" => /\ call'[w].coordinator \in Users
                                  /\ Granted(call'[w].coordinator)
  <2>1. CASE EndCall(w)
    BY <1>0, <2>1, EndEffect
  <2>2. CASE call' = [call EXCEPT ![w].at = "claim", ![w].coordinator = First(Holders)]
    <3>1. call[w].user \in Users /\ Granted(call[w].user)
      BY DEF NoticeCluster, IInv, HasUser, SawGrant
    <3>2. First(Holders) \in Holders
      <4>1. Holders \in SUBSET Users /\ Holders # {}
        BY <3>1 DEF Holders
      <4>2. QED
        BY <4>1, FirstMember
    <3>3. First(Holders) \in Users /\ Granted(First(Holders))
      BY <3>2 DEF Holders
    <3>4. call \in [Grants -> CallStates] /\ call[w] \in CallStates
      BY <1>0, TypeParts
    <3>5. [call[w] EXCEPT !.at = "claim", !.coordinator = First(Holders)] \in CallStates
      BY <3>3, <3>4 DEF CallStates
    <3>6. call' = [call EXCEPT ![w] = [call[w] EXCEPT !.at = "claim", !.coordinator = First(Holders)]]
      BY <2>2, <3>4
    <3>7. QED
      BY <3>1, <3>3, <3>4, <3>5, <3>6 DEF CallStates
  <2>3. QED
    BY <2>1, <2>2 DEF NoticeCluster
<1>2. TypeOK'
  BY <1>0, <1>1, TypeParts DEF TypeOK, CallStates
<1>3. HasUser' /\ SawGrant' /\ TrialFollowsGrant'
  BY <1>0, <1>1 DEF IInv, HasUser, SawGrant, TrialFollowsGrant, Granted
<1>4. ClaimsHeld'
  BY <1>0, <1>1, CallMoves
<1>5. QED
  BY <1>2, <1>3, <1>4 DEF IInv

\* The winner of the guarded update is the only holder of a claim nobody held.
LEMMA ClaimKeeps ==
  ASSUME IInv, NEW w \in Grants, NoticeClaim(w)
  PROVE  IInv'
<1>0. UNCHANGED <<trial, fingerprint, check, announced, posted, now>> /\ TypeOK
  BY DEF NoticeClaim, IInv
<1>u. PICK u \in Users : call[w].coordinator = u /\ Granted(u)
  BY DEF NoticeClaim, IInv, SawGrant
<1>1. CASE EndCall(w) /\ UNCHANGED grant
  <2>1. /\ call' \in [Grants -> CallStates] /\ call'[w].at = "idle"
        /\ \A v \in Grants \ {w} : call'[v] = call[v]
    BY <1>0, <1>1, EndEffect
  <2>2. TypeOK'
    BY <1>0, <1>1, <2>1, TypeParts DEF TypeOK, CallStates
  <2>3. HasUser' /\ SawGrant' /\ TrialFollowsGrant'
    BY <1>0, <1>1, <2>1 DEF IInv, HasUser, SawGrant, TrialFollowsGrant, Granted
  <2>4. ClaimsHeld'
    BY <1>0, <1>1, <2>1, CallMoves
  <2>5. QED
    BY <2>2, <2>3, <2>4 DEF IInv
<1>2. CASE MayClaim(u) /\ CallGoto(w, "send") /\ grant' = [grant EXCEPT ![u].claim = w]
  <2>1. /\ call' \in [Grants -> CallStates] /\ call'[w].at = "send" /\ call'[w].coordinator = u
        /\ call'[w].user = call[w].user /\ \A v \in Grants \ {w} : call'[v] = call[v]
    BY <1>0, <1>2, <1>u, GotoEffect DEF CallPlaces
  <2>2. /\ grant' \in [Users -> GrantRows] /\ grant'[u].claim = w
        /\ \A v \in Users : grant'[v].expires = grant[v].expires
        /\ \A v \in Users \ {u} : grant'[v] = grant[v]
    <3>1. grant \in [Users -> GrantRows] /\ grant[u] \in GrantRows
      BY <1>0, TypeParts
    <3>2. [grant[u] EXCEPT !.claim = w] \in GrantRows
      BY <3>1 DEF GrantRows
    <3>3. QED
      BY <1>2, <3>1, <3>2 DEF GrantRows
  <2>3. \A v \in Users : Granted(v)' <=> Granted(v)
    BY <2>2 DEF Granted
  <2>4. TypeOK'
    BY <1>0, <2>1, <2>2, TypeParts DEF TypeOK, CallStates, GrantRows
  <2>5. HasUser'
    BY <1>0, <2>1 DEF IInv, HasUser, NoticeClaim
  <2>6. SawGrant' /\ TrialFollowsGrant'
    BY <1>0, <1>u, <2>1, <2>2, <2>3 DEF IInv, HasUser, SawGrant, TrialFollowsGrant
  <2>7. ClaimsHeld'
    <3>1. grant[u].claim = None /\ u \notin announced
      BY <1>2 DEF MayClaim, IInv, ClaimsHeld
    <3>2. \A v \in Grants : call[v].at \in {"send", "release"} => call[v].coordinator # u
      BY <3>1 DEF IInv, ClaimsHeld
    <3>3. ASSUME NEW v \in Grants, call'[v].at \in {"send", "release"}
          PROVE  (/\ grant[call[v].coordinator].claim = v
                  /\ call[v].coordinator \notin announced)'
      <4>1. CASE v = w
        BY <1>0, <2>1, <2>2, <3>1, <4>1
      <4>2. CASE v # w
        <5>1. /\ call'[v] = call[v] /\ call[v].coordinator \in Users \ {u}
              /\ grant[call[v].coordinator].claim = v /\ call[v].coordinator \notin announced
          BY <2>1, <3>2, <3>3, <4>2 DEF IInv, SawGrant, ClaimsHeld
        <5>2. QED
          BY <1>0, <2>2, <5>1
      <4>3. QED
        BY <4>1, <4>2
    <3>4. \A v \in Users : (v \in announced => grant[v].claim # None)'
      BY <1>0, <2>2, <3>1 DEF IInv, ClaimsHeld
    <3>5. \A v \in Users : (grant[v].claim # None => Granted(v))'
      BY <1>u, <2>2, <2>3 DEF IInv, ClaimsHeld
    <3>6. QED
      BY <3>3, <3>4, <3>5 DEF ClaimsHeld
  <2>8. QED
    BY <2>4, <2>5, <2>6, <2>7 DEF IInv
<1>3. QED
  BY <1>1, <1>2, <1>u DEF NoticeClaim

\* Slack's answer: the claim of an acknowledged notice has no sender any more.
LEMMA AnswerKeeps ==
  ASSUME IInv, NEW w \in Grants, NoticeSent(w) \/ NoticeRefused(w) \/ NoticeLost(w)
  PROVE  IInv'
<1>0. UNCHANGED <<trial, grant, fingerprint, check, now>> /\ TypeOK
  BY DEF NoticeSent, NoticeRefused, NoticeLost, IInv
<1>u. PICK u \in Users : call[w].coordinator = u /\ Granted(u) /\ grant[u].claim = w
  BY DEF NoticeSent, NoticeRefused, NoticeLost, IInv, SawGrant, ClaimsHeld
<1>1. /\ call' \in [Grants -> CallStates] /\ \A v \in Grants \ {w} : call'[v] = call[v]
      /\ \/ call'[w].at = "idle" /\ announced' = announced \cup {u}
         \/ /\ call'[w].at = "release" /\ call'[w].coordinator = u /\ announced' = announced
            /\ call'[w].user = call[w].user
  <2>1. CASE NoticeSent(w)
    BY <1>0, <1>u, <2>1, EndEffect DEF NoticeSent
  <2>2. CASE NoticeRefused(w) \/ NoticeLost(w)
    BY <1>0, <1>u, <2>2, GotoEffect DEF NoticeRefused, NoticeLost, CallPlaces
  <2>3. QED
    BY <2>1, <2>2
<1>p. posted' \in [Users -> Nat]
  <2>1. posted' = posted \/ posted' = [posted EXCEPT ![u] = @ + 1]
    BY <1>u DEF NoticeSent, NoticeRefused, NoticeLost, Reached
  <2>2. QED
    BY <1>0, <2>1 DEF TypeOK
<1>2. TypeOK'
  BY <1>0, <1>1, <1>p, TypeParts DEF TypeOK, CallStates
<1>3. HasUser'
  BY <1>0, <1>1 DEF IInv, HasUser, NoticeSent, NoticeRefused, NoticeLost
<1>4. SawGrant' /\ TrialFollowsGrant'
  BY <1>0, <1>u, <1>1 DEF IInv, SawGrant, TrialFollowsGrant, Granted
<1>5. ClaimsHeld'
  <2>1. u \notin announced
    BY <1>u DEF NoticeSent, NoticeRefused, NoticeLost, IInv, ClaimsHeld
  <2>2. \A v \in Grants \ {w} : call[v].at \in {"send", "release"} => call[v].coordinator # u
    BY <1>u DEF IInv, ClaimsHeld
  <2>3. QED
    BY <1>0, <1>u, <1>1, <2>1, <2>2 DEF IInv, ClaimsHeld, Granted
<1>6. QED
  BY <1>2, <1>3, <1>4, <1>5 DEF IInv

LEMMA ReleaseKeeps ==
  ASSUME IInv, NEW w \in Grants, NoticeRelease(w)
  PROVE  IInv'
<1>0. UNCHANGED <<trial, fingerprint, check, announced, posted, now>> /\ TypeOK
  BY DEF NoticeRelease, IInv
<1>u. PICK u \in Users : call[w].coordinator = u /\ grant[u].claim = w /\ u \notin announced
  BY DEF NoticeRelease, IInv, SawGrant, ClaimsHeld
<1>1. /\ call' \in [Grants -> CallStates] /\ call'[w].at = "idle"
      /\ \A v \in Grants \ {w} : call'[v] = call[v]
  BY <1>0, EndEffect DEF NoticeRelease
<1>2. /\ grant' \in [Users -> GrantRows] /\ grant'[u].claim = None
      /\ \A v \in Users : grant'[v].expires = grant[v].expires
      /\ \A v \in Users \ {u} : grant'[v] = grant[v]
  <2>1. grant \in [Users -> GrantRows] /\ grant[u] \in GrantRows
    BY <1>0, TypeParts
  <2>2. [grant[u] EXCEPT !.claim = None] \in GrantRows
    BY <2>1 DEF GrantRows
  <2>3. grant' = [grant EXCEPT ![u].claim = None]
    BY <1>u, <2>1 DEF NoticeRelease
  <2>4. QED
    BY <2>1, <2>2, <2>3 DEF GrantRows
<1>3. \A v \in Users : Granted(v)' <=> Granted(v)
  BY <1>2 DEF Granted
<1>4. TypeOK'
  BY <1>0, <1>1, <1>2, TypeParts DEF TypeOK, CallStates, GrantRows
<1>5. HasUser' /\ SawGrant' /\ TrialFollowsGrant'
  BY <1>0, <1>1, <1>2, <1>3 DEF IInv, HasUser, SawGrant, TrialFollowsGrant
<1>6. ClaimsHeld'
  <2>1. ASSUME NEW v \in Grants, call'[v].at \in {"send", "release"}
        PROVE  (/\ grant[call[v].coordinator].claim = v
                /\ call[v].coordinator \notin announced)'
    <3>1. v # w /\ call'[v] = call[v] /\ grant[call[v].coordinator].claim = v
          /\ call[v].coordinator \in Users /\ call[v].coordinator \notin announced
      BY <1>1, <2>1 DEF IInv, SawGrant, ClaimsHeld
    <3>2. call[v].coordinator # u
      BY <1>u, <3>1
    <3>3. QED
      BY <1>0, <1>2, <3>1, <3>2
  <2>2. \A v \in Users : (v \in announced => grant[v].claim # None)'
    BY <1>0, <1>u, <1>2 DEF IInv, ClaimsHeld
  <2>3. \A v \in Users : (grant[v].claim # None => Granted(v))'
    BY <1>2, <1>3 DEF IInv, ClaimsHeld
  <2>4. QED
    BY <2>1, <2>2, <2>3 DEF ClaimsHeld
<1>7. QED
  BY <1>4, <1>5, <1>6 DEF IInv

-----------------------------------------------------------------------------
(* Status requests, the providers and the clock keep the invariant         *)

LEMMA CheckOnly ==
  ASSUME IInv, NEW c \in Checks, UNCHANGED <<trial, grant, fingerprint, call, announced, posted, now>>,
         check' \in [Checks -> CheckStates], \A d \in Checks \ {c} : check'[d] = check[d],
         check'[c].at # "idle" => check'[c].user \in Users
  PROVE  IInv'
<1>1. TypeOK'
  BY TypeParts DEF IInv, TypeOK, CheckStates
<1>2. HasUser' /\ SawGrant' /\ TrialFollowsGrant' /\ ClaimsHeld'
  BY DEF IInv, HasUser, SawGrant, TrialFollowsGrant, ClaimsHeld, Granted
<1>3. QED
  BY <1>1, <1>2 DEF IInv

LEMMA CheckWrites ==
  ASSUME IInv, NEW c \in Checks, UNCHANGED <<grant, fingerprint, call, announced, posted, now>>,
         check' \in [Checks -> CheckStates], \A d \in Checks \ {c} : check'[d] = check[d],
         check'[c].at # "idle" => check'[c].user \in Users,
         trial' \in [Users -> TrialRows], TrialFollowsGrant'
  PROVE  IInv'
<1>1. TypeOK'
  BY TypeParts DEF IInv, TypeOK, CheckStates, TrialRows
<1>2. HasUser' /\ SawGrant' /\ ClaimsHeld'
  BY DEF IInv, HasUser, SawGrant, ClaimsHeld, Granted
<1>3. QED
  BY <1>1, <1>2 DEF IInv

LEMMA CheckKeeps ==
  ASSUME IInv, NEW c \in Checks, CheckStep(c)
  PROVE  IInv'
<1>0. /\ TypeOK /\ check \in [Checks -> CheckStates] /\ check[c] \in CheckStates
      /\ trial \in [Users -> TrialRows] /\ now \in Nat
  BY TypeParts DEF IInv
<1>1. CASE StatusBegin(c)
  <2>1. PICK u \in Users : check' = [check EXCEPT ![c].at = "read", ![c].user = u]
    BY <1>1 DEF StatusBegin
  <2>2. [check[c] EXCEPT !.at = "read", !.user = u] \in CheckStates
    BY <1>0 DEF CheckStates
  <2>3. check' = [check EXCEPT ![c] = [check[c] EXCEPT !.at = "read", !.user = u]]
    BY <1>0, <2>1
  <2>4. check'[c].user \in Users /\ check' \in [Checks -> CheckStates]
    BY <1>0, <2>2, <2>3 DEF CheckStates
  <2>5. QED
    BY <1>1, <2>3, <2>4, <1>0, CheckOnly DEF StatusBegin
<1>2. CASE ExpireRead(c)
  <2>1. check[c].user \in Users
    BY <1>2 DEF ExpireRead, IInv, HasUser
  <2>2. CheckGoto(c, "expire") \/ Expired(c)
    BY <1>2 DEF ExpireRead
  <2>3. /\ check' \in [Checks -> CheckStates] /\ check'[c].user = check[c].user
        /\ \A d \in Checks \ {c} : check'[d] = check[d]
    BY <1>0, <2>2, CheckGotoEffect, ExpiredEffect DEF CheckPlaces
  <2>4. QED
    BY <1>2, <2>1, <2>3, CheckOnly DEF ExpireRead
<1>3. CASE ExpireWrite(c)
  <2>1. check[c].user \in Users
    BY <1>3 DEF ExpireWrite, IInv, HasUser
  <2>2. /\ check' \in [Checks -> CheckStates] /\ check'[c].user = check[c].user
        /\ \A d \in Checks \ {c} : check'[d] = check[d]
    BY <1>0, <1>3, ExpiredEffect DEF ExpireWrite
  <2>3. PICK t : t = [trial[check[c].user] EXCEPT !.active = FALSE]
    OBVIOUS
  <2>4. t \in TrialRows /\ t.ends = trial[check[c].user].ends
    BY <1>0, <2>1, <2>3 DEF TrialRows
  <2>5. trial' = [trial EXCEPT ![check[c].user] = t] /\ UNCHANGED grant
    BY <1>3, <2>3 DEF ExpireWrite
  <2>6. Granted(check[c].user) => t.ends = grant[check[c].user].expires
    BY <2>1, <2>4 DEF IInv, TrialFollowsGrant
  <2>7. trial' \in [Users -> TrialRows] /\ TrialFollowsGrant'
    BY <2>1, <2>4, <2>5, <2>6, TrialWrite
  <2>8. QED
    BY <1>3, <2>1, <2>2, <2>7, CheckWrites DEF ExpireWrite
<1>4. CASE StatusLook(c)
  <2>1. check[c].user \in Users
    BY <1>4 DEF StatusLook, IInv, HasUser
  <2>2. CASE EndCheck(c)
    BY <1>0, <1>4, <2>2, EndCheckEffect, CheckOnly DEF StatusLook
  <2>3. CASE check' = [check EXCEPT ![c].at = "repair", ![c].asked = now]
    <3>1. [check[c] EXCEPT !.at = "repair", !.asked = now] \in CheckStates
      BY <1>0 DEF CheckStates
    <3>2. check' = [check EXCEPT ![c] = [check[c] EXCEPT !.at = "repair", !.asked = now]]
      BY <1>0, <2>3
    <3>3. check'[c].user \in Users /\ check' \in [Checks -> CheckStates]
      BY <1>0, <2>1, <3>1, <3>2 DEF CheckStates
    <3>4. QED
      BY <1>4, <1>0, <3>2, <3>3, CheckOnly DEF StatusLook
  <2>4. QED
    BY <1>4, <2>2, <2>3 DEF StatusLook
<1>5. CASE StatusRepair(c)
  <2>1. check[c].user \in Users
    BY <1>5 DEF StatusRepair, IInv, HasUser
  <2>2. /\ check' \in [Checks -> CheckStates] /\ check'[c].at = "idle"
        /\ \A d \in Checks \ {c} : check'[d] = check[d]
    BY <1>0, <1>5, EndCheckEffect DEF StatusRepair
  <2>3. CASE Granted(check[c].user)
    <3>1. PICK t : t = FromGrant(check[c].user, check[c].asked)
      OBVIOUS
    <3>2. check[c].asked \in Nat
      BY <1>0 DEF CheckStates
    <3>3. t \in TrialRows /\ t.ends = grant[check[c].user].expires
      BY <1>0, <2>1, <2>3, <3>1, <3>2, FromGrantType
    <3>4. trial' = [trial EXCEPT ![check[c].user] = t] /\ UNCHANGED grant
      BY <1>5, <2>3, <3>1 DEF StatusRepair
    <3>5. trial' \in [Users -> TrialRows] /\ TrialFollowsGrant'
      BY <2>1, <3>3, <3>4, TrialWrite
    <3>6. QED
      BY <1>5, <2>2, <3>5, CheckWrites DEF StatusRepair
  <2>4. CASE ~Granted(check[c].user)
    BY <1>5, <2>2, <2>4, CheckOnly DEF StatusRepair
  <2>5. QED
    BY <2>3, <2>4
<1>6. CASE StatusFails(c)
  BY <1>0, <1>6, EndCheckEffect, CheckOnly DEF StatusFails
<1>7. CASE SessionRead(c)
  <2>1. PICK u \in Users :
          /\ trial[u].ends # None
          /\ check' = [check EXCEPT ![c].at = "session", ![c].user = u, ![c].asked = trial[u].ends]
    BY <1>7 DEF SessionRead
  <2>2. PICK s : s = [check[c] EXCEPT !.at = "session", !.user = u, !.asked = trial[u].ends]
    OBVIOUS
  <2>3. s \in CheckStates /\ s.user = u
    BY <1>0, <2>1, <2>2 DEF CheckStates, TrialRows
  <2>4. check' = [check EXCEPT ![c] = s]
    BY <1>0, <2>1, <2>2
  <2>5. check'[c].user \in Users /\ check' \in [Checks -> CheckStates]
    <3>1. check'[c] = s
      BY <1>0, <2>4
    <3>2. QED
      BY <1>0, <2>1, <2>3, <2>4, <3>1
  <2>6. QED
    BY <1>7, <1>0, <2>4, <2>5, CheckOnly DEF SessionRead
<1>8. CASE SessionExpire(c)
  <2>1. check[c].user \in Users
    BY <1>8 DEF SessionExpire, IInv, HasUser
  <2>2. /\ check' \in [Checks -> CheckStates] /\ check'[c].at = "idle"
        /\ \A d \in Checks \ {c} : check'[d] = check[d]
    BY <1>0, <1>8, EndCheckEffect DEF SessionExpire
  <2>3. CASE check[c].asked < now
    <3>1. PICK t : t = [trial[check[c].user] EXCEPT !.active = FALSE]
      OBVIOUS
    <3>2. t \in TrialRows /\ t.ends = trial[check[c].user].ends
      BY <1>0, <2>1, <3>1 DEF TrialRows
    <3>3. trial' = [trial EXCEPT ![check[c].user] = t] /\ UNCHANGED grant
      BY <1>8, <2>3, <3>1 DEF SessionExpire
    <3>4. Granted(check[c].user) => t.ends = grant[check[c].user].expires
      BY <2>1, <3>2 DEF IInv, TrialFollowsGrant
    <3>5. trial' \in [Users -> TrialRows] /\ TrialFollowsGrant'
      BY <2>1, <3>2, <3>3, <3>4, TrialWrite
    <3>6. QED
      BY <1>8, <2>2, <3>5, CheckWrites DEF SessionExpire
  <2>4. CASE ~(check[c].asked < now)
    BY <1>8, <2>2, <2>4, CheckOnly DEF SessionExpire
  <2>5. QED
    BY <2>3, <2>4
<1>9. QED
  BY <1>1, <1>2, <1>3, <1>4, <1>5, <1>6, <1>7, <1>8 DEF CheckStep

\* A provider marks only a user without an end date, who thus has no grant.
LEMMA MarkKeeps ==
  ASSUME IInv, NEW u \in Users, ProviderMark(u)
  PROVE  IInv'
<1>0. UNCHANGED <<grant, fingerprint, call, check, announced, posted, now>>
  BY DEF ProviderMark
<1>1. PICK e \in Instants : trial' = [trial EXCEPT ![u] = [active |-> TRUE, ends |-> e]]
  BY DEF ProviderMark
<1>2. [active |-> TRUE, ends |-> e] \in TrialRows
  BY DEF TrialRows, Instants
<1>3. ~Granted(u)
  BY DEF ProviderMark, MayMark, IInv, TrialFollowsGrant, Granted
<1>4. trial' \in [Users -> TrialRows] /\ TrialFollowsGrant'
  BY <1>0, <1>1, <1>2, <1>3, TrialWrite
<1>5. TypeOK'
  BY <1>0, <1>4 DEF IInv, TypeOK, TrialRows
<1>6. HasUser' /\ SawGrant' /\ ClaimsHeld'
  BY <1>0 DEF IInv, HasUser, SawGrant, ClaimsHeld, Granted
<1>7. QED
  BY <1>4, <1>5, <1>6 DEF IInv

LEMMA QuietKeeps ==
  ASSUME IInv, Tick \/ UNCHANGED vars
  PROVE  IInv'
<1>0. UNCHANGED <<trial, grant, fingerprint, call, check, announced, posted>> /\ (now' = now \/ now' = now + 1)
  BY DEF Tick, vars
<1>1. TypeOK'
  BY <1>0 DEF IInv, TypeOK
<1>2. HasUser' /\ SawGrant' /\ TrialFollowsGrant' /\ ClaimsHeld'
  BY <1>0 DEF IInv, HasUser, SawGrant, TrialFollowsGrant, ClaimsHeld, Granted
<1>3. QED
  BY <1>1, <1>2 DEF IInv

LEMMA GrantStepKeeps ==
  ASSUME IInv, NEW w \in Grants, GrantStep(w)
  PROVE  IInv'
  BY CallOnly, RestoreKeeps, CreateKeeps, ClusterKeeps, ClaimKeeps, AnswerKeeps,
     ReleaseKeeps DEF GrantStep

LEMMA StepKeeps == IInv /\ [Next]_vars => IInv'
  BY GrantStepKeeps, CheckKeeps, MarkKeeps, QuietKeeps DEF Next

-----------------------------------------------------------------------------
(* The theorems                                                            *)

LEMMA Invariant == Spec => []IInv
  BY InitOK, StepKeeps, PTL DEF Spec

\* Every variable keeps its type.
THEOREM TypeCorrect == Spec => []TypeOK
<1>1. IInv => TypeOK
  BY DEF IInv
<1>2. QED
  BY <1>1, Invariant, PTL

\* A user with a grant shows its end date, whatever grants, status requests,
\* Stripe and Apple write to the columns concurrently.
THEOREM TrialFollowsGrantHolds == Spec => []TrialFollowsGrant
<1>1. IInv => TrialFollowsGrant
  BY DEF IInv
<1>2. QED
  BY <1>1, Invariant, PTL

\* Who sends a notice holds the claim, and an acknowledged notice is never sent
\* again for its coordinator.
THEOREM SenderHoldsClaimHolds == Spec => []SenderHoldsClaim
<1>1. IInv => SenderHoldsClaim
  BY DEF IInv, ClaimsHeld, SenderHoldsClaim
<1>2. QED
  BY <1>1, Invariant, PTL

\* A step that changes a grant inserts the row of a user without one, or only
\* moves the claim.
LEMMA GrantsStay ==
  ASSUME TypeOK, [Next]_vars
  PROVE  \A u \in Users : Granted(u) => /\ grant'[u].expires = grant[u].expires
                                        /\ grant'[u].device = grant[u].device
<1>0. grant \in [Users -> GrantRows]
  BY TypeParts
<1>1. CASE UNCHANGED grant
  BY <1>1
<1>2. ASSUME NEW w \in Grants, GrantCreate(w)
      PROVE  \A u \in Users \ {call[w].user} : grant'[u] = grant[u]
  BY <1>0, <1>2 DEF GrantCreate
<1>3. ASSUME NEW w \in Grants, GrantCreate(w) PROVE ~Granted(call[w].user)
  BY <1>3 DEF GrantCreate, MayInsert
<1>4. ASSUME NEW w \in Grants, NoticeClaim(w) \/ NoticeRelease(w)
      PROVE  \A u \in Users : /\ grant'[u].expires = grant[u].expires
                              /\ grant'[u].device = grant[u].device
  <2>1. CASE UNCHANGED grant
    BY <2>1
  <2>2. CASE \E v \in {w, None, grant[call[w].coordinator].claim} :
               grant' = [grant EXCEPT ![call[w].coordinator].claim = v]
    BY <1>0, <2>2 DEF GrantRows
  <2>3. QED
    BY <1>4, <2>1, <2>2 DEF NoticeClaim, NoticeRelease
<1>5. \/ UNCHANGED grant
      \/ \E w \in Grants : GrantCreate(w) \/ NoticeClaim(w) \/ NoticeRelease(w)
  <2>1. ASSUME NEW w \in Grants, GrantStep(w)
        PROVE  UNCHANGED grant \/ GrantCreate(w) \/ NoticeClaim(w) \/ NoticeRelease(w)
    BY <2>1 DEF GrantStep, GrantBegin, GrantRead, GrantRestore, GrantDevice, GrantFails,
               NoticeCluster, NoticeSent, NoticeRefused, NoticeLost
  <2>2. ASSUME NEW c \in Checks, CheckStep(c) PROVE UNCHANGED grant
    BY <2>2 DEF CheckStep, StatusBegin, ExpireRead, ExpireWrite, StatusLook,
               StatusRepair, SessionRead, SessionExpire, StatusFails
  <2>3. QED
    BY <2>1, <2>2 DEF Next, ProviderMark, Tick, vars
<1>6. QED
  BY <1>1, <1>2, <1>3, <1>4, <1>5

\* Only a new grant takes a hash, its own; and the grants behind the other
\* hashes stay.
LEMMA StepKeepsFingerprints ==
  ASSUME IInv, FingerprintHasGrant, [Next]_vars
  PROVE  FingerprintHasGrant'
<1>0. TypeOK /\ grant \in [Users -> GrantRows] /\ fingerprint \in [Devices -> Users \cup {None}]
  BY TypeParts DEF IInv
<1>1. ASSUME NEW u \in Users, Granted(u)
      PROVE  Granted(u)' /\ grant'[u].device = grant[u].device
  BY <1>0, <1>1, GrantsStay DEF Granted
<1>2. CASE UNCHANGED fingerprint
  <2>1. SUFFICES ASSUME NEW d \in Devices, fingerprint[d] # None
                 PROVE  Granted(fingerprint[d])' /\ grant'[fingerprint[d]].device = d
    BY <1>2 DEF FingerprintHasGrant
  <2>2. PICK u \in Users : u = fingerprint[d] /\ Granted(u) /\ grant[u].device = d
    BY <1>0, <2>1 DEF FingerprintHasGrant
  <2>3. Granted(u)' /\ grant'[u].device = d
    BY <1>1, <2>2
  <2>4. QED
    BY <1>2, <2>2, <2>3 DEF Granted
<1>3. ASSUME NEW w \in Grants, GrantCreate(w) PROVE FingerprintHasGrant'
  <2>1. PICK u \in Users : call[w].user = u
    BY <1>3 DEF GrantCreate, IInv, HasUser
  <2>2. Granted(u)' /\ grant'[u].device = call[w].device
    <3>1. call[w].start \in Nat
      BY <1>0, TypeParts DEF CallStates
    <3>2. call[w].start + Duration \in Nat
      BY <3>1
    <3>3. QED
      BY <1>0, <1>3, <2>1, <3>2 DEF GrantCreate, Granted
  <2>3. SUFFICES ASSUME NEW d \in Devices, fingerprint'[d] # None
                 PROVE  \E v \in Users : /\ v = fingerprint'[d]
                                         /\ Granted(v)' /\ grant'[v].device = d
    BY DEF FingerprintHasGrant, Granted
  <2>4. CASE d = call[w].device
    BY <1>3, <2>1, <2>2, <2>4 DEF GrantCreate
  <2>5. CASE d # call[w].device
    <3>1. fingerprint'[d] = fingerprint[d]
      BY <1>3, <2>5 DEF GrantCreate
    <3>2. PICK v \in Users : v = fingerprint[d] /\ Granted(v) /\ grant[v].device = d
      BY <1>0, <2>3, <3>1 DEF FingerprintHasGrant
    <3>3. QED
      BY <1>1, <3>1, <3>2
  <2>6. QED
    BY <2>4, <2>5
<1>4. UNCHANGED fingerprint \/ \E w \in Grants : GrantCreate(w)
  <2>1. ASSUME NEW w \in Grants, GrantStep(w) PROVE UNCHANGED fingerprint \/ GrantCreate(w)
    BY <2>1 DEF GrantStep, GrantBegin, GrantRead, GrantRestore, GrantDevice, GrantFails,
               NoticeCluster, NoticeClaim, NoticeSent, NoticeRefused, NoticeLost, NoticeRelease
  <2>2. ASSUME NEW c \in Checks, CheckStep(c) PROVE UNCHANGED fingerprint
    BY <2>2 DEF CheckStep, StatusBegin, ExpireRead, ExpireWrite, StatusLook,
               StatusRepair, SessionRead, SessionExpire, StatusFails
  <2>3. QED
    BY <2>1, <2>2 DEF Next, ProviderMark, Tick, vars
<1>5. QED
  BY <1>2, <1>3, <1>4

\* A hash is only ever taken by a trial of its user, made with it, whoever reads
\* and takes it concurrently and whatever fails.
THEOREM FingerprintHasGrantHolds == Spec => []FingerprintHasGrant
<1>1. Init => FingerprintHasGrant
  BY DEF Init, FingerprintHasGrant
<1>2. QED
  BY <1>1, StepKeepsFingerprints, Invariant, PTL DEF Spec

-----------------------------------------------------------------------------
(* The notices implement the log                                           *)

LogVars == <<[u \in Users |-> StartNotice(u)], posted>>

\* A step that makes `to` of the notice of u, and its messages.
LEMMA StartMoves ==
  ASSUME NEW u \in Users, NEW from, NEW to, StartNotice(u) = from, StartNotice(u)' = to,
         \A v \in Users \ {u} : StartNotice(v)' = StartNotice(v)
  PROVE  Log!Move(u, from, to)
  BY DEF Log!Move

\* A step that announces nothing and moves nobody to or from the sending of a
\* notice leaves the log alone.
LEMMA StartStays ==
  ASSUME UNCHANGED <<announced, posted>>, \A u \in Users : StartTelling(u)' <=> StartTelling(u)
  PROVE  UNCHANGED LogVars
<1>1. \A u \in Users : StartNotice(u)' = StartNotice(u)
  BY DEF StartNotice
<1>2. QED
  BY <1>1 DEF LogVars

\* A call that is not sending, before or after its step.
LEMMA QuietCallStays ==
  ASSUME NEW w \in Grants, UNCHANGED <<announced, posted>>,
         call[w].at # "send", call'[w].at # "send",
         \A v \in Grants \ {w} : call'[v] = call[v]
  PROVE  UNCHANGED LogVars
<1>1. \A v \in Grants : call'[v].at = "send" <=> call[v].at = "send"
  OBVIOUS
<1>2. \A v \in Grants : call[v].at = "send" => call'[v] = call[v]
  OBVIOUS
<1>3. \A u \in Users : StartTelling(u)' <=> StartTelling(u)
  BY <1>1, <1>2 DEF StartTelling
<1>4. QED
  BY <1>3, StartStays

\* The guarded update succeeds for a coordinator that nobody tells and that was
\* never announced.
LEMMA ClaimTakes ==
  ASSUME IInv, NEW w \in Grants, NoticeClaim(w)
  PROVE  Log!Next \/ UNCHANGED LogVars
<1>0. UNCHANGED <<announced, posted>> /\ TypeOK /\ call[w].at # "send"
  BY DEF NoticeClaim, IInv
<1>1. PICK u \in Users : call[w].coordinator = u
  BY DEF NoticeClaim, IInv, SawGrant
<1>2. CASE EndCall(w)
  BY <1>0, <1>2, EndEffect, QuietCallStays
<1>3. CASE MayClaim(u) /\ CallGoto(w, "send")
  <2>1. grant[u].claim = None /\ u \notin announced
    BY <1>3 DEF MayClaim, IInv, ClaimsHeld
  <2>2. ~StartTelling(u)
    BY <2>1 DEF StartTelling, IInv, ClaimsHeld
  <2>3. /\ call'[w].at = "send" /\ call'[w].coordinator = u
        /\ \A v \in Grants \ {w} : call'[v] = call[v]
    BY <1>0, <1>1, <1>3, GotoEffect DEF CallPlaces
  <2>4. StartTelling(u)' /\ \A v \in Users \ {u} : StartTelling(v)' <=> StartTelling(v)
    BY <1>0, <2>3 DEF StartTelling
  <2>5. StartNotice(u) = "open" /\ StartNotice(u)' = "taken"
    BY <1>0, <2>1, <2>2, <2>4 DEF StartNotice
  <2>6. \A v \in Users \ {u} : StartNotice(v)' = StartNotice(v)
    BY <1>0, <2>4 DEF StartNotice
  <2>7. Log!Take(u)
    BY <1>0, <2>5, <2>6, StartMoves DEF Log!Take, Log!NoMessage
  <2>8. QED
    BY <2>7 DEF Log!Next
<1>4. QED
  BY <1>1, <1>2, <1>3 DEF NoticeClaim

\* The sender of a notice is its only one, and leaves the sending: with Slack's
\* acknowledgement, with a message whose answer is lost, or without a message.
LEMMA SenderLeaves ==
  ASSUME IInv, NEW w \in Grants, call[w].at = "send", GrantStep(w)
  PROVE  Log!Next
<1>0. TypeOK
  BY DEF IInv
<1>1. NoticeSent(w) \/ NoticeRefused(w) \/ NoticeLost(w) \/ GrantFails(w)
  BY DEF GrantStep, GrantBegin, GrantRead, GrantRestore, GrantDevice, GrantCreate,
         NoticeCluster, NoticeClaim, NoticeRelease
<1>2. PICK u \in Users : call[w].coordinator = u /\ grant[u].claim = w /\ u \notin announced
  BY DEF IInv, SawGrant, ClaimsHeld
<1>3. \A v \in Grants \ {w} : call[v].at = "send" => call[v].coordinator # u
  BY <1>2 DEF IInv, ClaimsHeld
<1>4. call'[w].at # "send" /\ \A v \in Grants \ {w} : call'[v] = call[v]
  BY <1>0, <1>1, EndEffect, GotoEffect
     DEF NoticeSent, NoticeRefused, NoticeLost, GrantFails, CallPlaces
<1>5. StartNotice(u) = "taken" /\ ~StartTelling(u)'
  BY <1>2, <1>3, <1>4 DEF StartNotice, StartTelling
<1>6. \A v \in Users \ {u} : StartTelling(v)' <=> StartTelling(v)
  BY <1>2, <1>4 DEF StartTelling
<1>7. CASE NoticeSent(w)
  <2>1. announced' = announced \cup {u} /\ Log!Message(u)
    BY <1>2, <1>7 DEF NoticeSent, Reached, Log!Message
  <2>2. StartNotice(u)' = "told" /\ \A v \in Users \ {u} : StartNotice(v)' = StartNotice(v)
    BY <1>6, <2>1 DEF StartNotice
  <2>3. Log!Tell(u)
    BY <1>5, <2>1, <2>2, StartMoves DEF Log!Tell
  <2>4. QED
    BY <2>3 DEF Log!Next
<1>8. CASE ~NoticeSent(w)
  <2>1. announced' = announced
    BY <1>1, <1>8 DEF NoticeRefused, NoticeLost, GrantFails
  <2>2. StartNotice(u)' = "open" /\ \A v \in Users \ {u} : StartNotice(v)' = StartNotice(v)
    BY <1>2, <1>5, <1>6, <2>1 DEF StartNotice
  <2>3. Log!Move(u, "taken", "open")
    BY <1>5, <2>2, StartMoves
  <2>4. Log!Message(u) \/ Log!NoMessage
    BY <1>1, <1>2, <1>8 DEF NoticeRefused, NoticeLost, GrantFails, Reached, Log!Message,
                            Log!NoMessage
  <2>5. QED
    BY <2>3, <2>4 DEF Log!GiveBack, Log!Lose, Log!Next
<1>9. QED
  BY <1>7, <1>8

\* Every other step of a call neither enters nor leaves the sending.
LEMMA OtherStepsStay ==
  ASSUME IInv, NEW w \in Grants, call[w].at # "send", GrantStep(w), ~NoticeClaim(w)
  PROVE  UNCHANGED LogVars
<1>0. TypeOK
  BY DEF IInv
<1>1. \/ GrantBegin(w) \/ GrantRead(w) \/ GrantRestore(w) \/ GrantDevice(w) \/ GrantCreate(w)
      \/ GrantFails(w) \/ NoticeCluster(w) \/ NoticeRelease(w)
  BY DEF GrantStep, NoticeSent, NoticeRefused, NoticeLost
<1>2. UNCHANGED <<announced, posted>>
  BY <1>1 DEF GrantBegin, GrantRead, GrantRestore, GrantDevice, GrantCreate, GrantFails,
              NoticeCluster, NoticeRelease
<1>3. call'[w].at # "send" /\ \A v \in Grants \ {w} : call'[v] = call[v]
  <2>1. CASE EndCall(w)
    BY <1>0, <2>1, EndEffect
  <2>2. CASE \E to \in {"restore", "device", "create", "cluster"} : CallGoto(w, to)
    BY <1>0, <2>2, GotoEffect DEF CallPlaces
  <2>3. CASE GrantBegin(w)
    BY <1>0, <2>3, TypeParts DEF GrantBegin, NoCall
  <2>4. CASE call' = [call EXCEPT ![w].at = "claim", ![w].coordinator = First(Holders)]
    BY <1>0, <2>4, TypeParts DEF CallStates
  <2>5. QED
    BY <1>1, <2>1, <2>2, <2>3, <2>4 DEF GrantRead, GrantRestore, GrantDevice, GrantCreate,
       GrantFails, NoticeCluster, NoticeRelease
<1>4. QED
  BY <1>2, <1>3, QuietCallStays

LEMMA StepIsLogStep == IInv /\ [Next]_vars => [Log!Next]_LogVars
<1> SUFFICES ASSUME IInv, [Next]_vars PROVE Log!Next \/ UNCHANGED LogVars
  OBVIOUS
<1>1. ASSUME NEW w \in Grants, GrantStep(w) PROVE Log!Next \/ UNCHANGED LogVars
  BY <1>1, ClaimTakes, SenderLeaves, OtherStepsStay
<1>2. CASE UNCHANGED <<call, announced, posted>>
  BY <1>2, StartStays DEF StartTelling
<1>3. (\E w \in Grants : GrantStep(w)) \/ UNCHANGED <<call, announced, posted>>
  <2>1. ASSUME NEW c \in Checks, CheckStep(c) PROVE UNCHANGED <<call, announced, posted>>
    BY <2>1 DEF CheckStep, StatusBegin, ExpireRead, ExpireWrite, StatusLook,
               StatusRepair, SessionRead, SessionExpire, StatusFails
  <2>2. QED
    BY <2>1 DEF Next, ProviderMark, Tick, vars
<1>4. QED
  BY <1>1, <1>2, <1>3

\* Each coordinator's notice is taken, told and given back as NoticeLog says,
\* whatever Slack answers and wherever calls die.
THEOREM StartLoggedHolds == Spec => StartLogged
<1>1. Init => Log!Init
  BY DEF Init, Log!Init, StartNotice, StartTelling, NoCall
<1>2. LogVars = Log!logVars
  BY DEF LogVars, Log!logVars
<1>3. IInv /\ [Next]_vars => [Log!Next]_Log!logVars
  BY <1>2, StepIsLogStep DEF LogVars, Log!logVars
<1>4. QED
  BY <1>1, <1>3, Invariant, PTL DEF Spec, StartLogged, Log!Spec

=============================================================================

------------------------------- MODULE SignIns -------------------------------
(***************************************************************************)
(* How AuthService finds, makes and changes accounts.  login, googleSignIn *)
(* and linkProvider get a Firebase token, appleSignIn one of Apple and     *)
(* maybe one of Firebase; each looks for an account by the identities of   *)
(* its token, one query after the other, and then creates one or updates   *)
(* the one it read.  Nothing runs in a transaction, so other requests come *)
(* in between; the unique keys of the table decide.  The links themselves  *)
(* and what they share are in AccountLinks, with which this module shares  *)
(* no name: one module proves about both.                                  *)
(***************************************************************************)
EXTENDS Integers, FiniteSets

CONSTANTS
  Accounts,    \* ids of accounts; an id is used once
  Requests,    \* concurrent requests
  Firebase,    \* Firebase tokens: [uid, email, apple]
  AppleTokens, \* tokens of Apple: [apple, email]
  Written,     \* addresses, or none, in the body of appleSignIn
  MaxCalls,    \* bound: requests
  Null         \* no value: a null column, a missing token

Issuers   == {"google", "apple"}
Uids      == {t.uid : t \in Firebase}
AppleIds  == ({t.apple : t \in Firebase} \cup {a.apple : a \in AppleTokens}) \ {Null}
\* The addresses made up for tokens without one: apple_<id>@temp.com and
\* <uid>@linked.keenvpn.com.
MadeUp(i) == <<"at", i>>
BugBlank(email, i) == email
Address(email, i) == IF email = Null THEN MadeUp(i) ELSE email
Ids       == AppleIds \cup Uids
Emails    == ({t.email : t \in Firebase} \cup {a.email : a \in AppleTokens}
               \cup Written \cup {MadeUp(i) : i \in Ids}) \ {Null}

\* Every token has an id; no id reads like an address.
TokensOK ==
  /\ MaxCalls \in Nat
  /\ Null \notin Firebase \cup AppleTokens /\ Null \notin {MadeUp(i) : i \in Ids}
  /\ \A t \in Firebase : t.uid # Null
  /\ \A a \in AppleTokens : a.apple # Null
  /\ Ids \cap Emails = {}
ASSUME SignInConstants == TokensOK

VARIABLES
  user,   \* the users table: a record, or Null
  unused, \* ids not given out yet
  req,    \* what each request is doing
  asked,  \* requests so far
  known,  \* history: the persons, as sets of identities that tokens have connected
  unproven \* history: accounts found or given an address by the body's word alone

signInVars == <<user, unused, req, asked, known, unproven>>

Row == [uid : Uids \cup {Null}, email : Emails, apple : AppleIds \cup {Null},
        provider : Issuers]
Identities == Ids \cup Emails

\* The Firebase and Apple token, the address appleSignIn goes by, the provider, the
\* caller of linkProvider with its uid, the account found and its row as it was read.
NoRequest == [at |-> "idle", kind |-> "login", fb |-> Null, ap |-> Null, mail |-> Null,
              p |-> "google", me |-> Null, meUid |-> Null, id |-> Null, row |-> Null]

RequestStates ==
  [at : {"idle", "byUid", "byEmail", "byApple", "create", "update", "appleId", "appleEmail",
         "appleCreate", "appleUpdate", "adopt", "uidOwner", "setUid",
         "linkUid", "linkApple", "linkEmail", "linkCreate", "linkAgain", "identify"},
   kind : {"login", "google", "apple", "link"}, p : Issuers,
   fb : Firebase \cup {Null}, ap : AppleTokens \cup {Null}, mail : Emails \cup {Null},
   me : Accounts \cup {Null}, meUid : Uids \cup {Null},
   id : Accounts \cup {Null}, row : Row \cup {Null}]

\* The unique keys of users
Unique == \A x, y \in Accounts : x # y /\ user[x] # Null /\ user[y] # Null =>
            /\ user[x].email # user[y].email
            /\ user[x].uid # user[y].uid \/ user[x].uid = Null
            /\ user[x].apple # user[y].apple \/ user[x].apple = Null

SignInTypeOK ==
  /\ user \in [Accounts -> Row \cup {Null}] /\ Unique /\ unused \in SUBSET Accounts
  /\ \A x \in unused : user[x] = Null
  /\ req \in [Requests -> RequestStates]
  /\ asked \in Nat /\ known \in SUBSET SUBSET Identities /\ unproven \in SUBSET Accounts

SignInInit ==
  /\ user = [x \in Accounts |-> Null] /\ unused = Accounts
  /\ req = [w \in Requests |-> NoRequest] /\ asked = 0 /\ unproven = {}
  /\ known = {{i, MadeUp(i)} : i \in Ids} \cup {{e} : e \in Emails \ {MadeUp(i) : i \in Ids}}

-----------------------------------------------------------------------------
\* The identities of an account or a Firebase token, and those that the tokens
\* of a request show: of one person, whatever the accounts say.
Of(r)    == {r.uid, r.email, r.apple} \ {Null}
Shown(c) == (IF c.fb = Null THEN {} ELSE Of(c.fb))
              \cup (IF c.ap = Null THEN {} ELSE {c.ap.apple, c.ap.email} \ {Null})
OfOnePerson(ids) == \E person \in known : ids \subseteq person
Learn(ids) ==
  LET touched == {c \in known : c \cap ids # {}}
  IN  known' = (known \ touched) \cup {UNION touched}

By(field, v) == {x \in Accounts : v # Null /\ user[x] # Null /\ user[x][field] = v}

\* Whether row r for account x breaks no unique key.
Fits(x, r) == By("uid", r.uid) \cup By("email", r.email) \cup By("apple", r.apple) \subseteq {x}

\* An update of the account that was read: no change if it is gone or a key is taken.
Updated(x, r) == user[x] # Null /\ Fits(x, r)
Update(x, r)  == user' = IF Updated(x, r) THEN [user EXCEPT ![x] = r] ELSE user

Begin(w, c) ==
  /\ req[w].at = "idle" /\ asked < MaxCalls /\ asked' = asked + 1
  /\ Learn(Shown(c))
  /\ req' = [req EXCEPT ![w] = c] /\ UNCHANGED <<user, unused, unproven>>
Move(w, to)       == req' = [req EXCEPT ![w].at = to]
Hold(w, to, x, r) == req' = [req EXCEPT ![w].at = to, ![w].id = x, ![w].row = r]
Done(w)           == req' = [req EXCEPT ![w] = NoRequest]

-----------------------------------------------------------------------------
(* login and googleSignIn                                                  *)

FirebaseBegin(w, k, p, t) ==
  /\ k \in {"login", "google"} /\ (k = "google" => p = "google") /\ t.email # Null
  /\ Begin(w, [NoRequest EXCEPT !.at = "byUid", !.kind = k, !.fb = t, !.p = p])

\* The first that finds one: uid, address, Apple id.  The provider must be that
\* of the account.
FirebaseFind(w) ==
  LET t == req[w].fb
      found(X, otherwise) ==
        IF X = {} THEN Move(w, otherwise)
        ELSE \E x \in X : IF user[x].provider = req[w].p
                          THEN Hold(w, "update", x, user[x]) ELSE Done(w)
  IN /\ \/ req[w].at = "byUid"   /\ found(By("uid", t.uid), "byEmail")
        \/ req[w].at = "byEmail" /\ found(By("email", t.email),
                                           IF t.apple = Null THEN "create" ELSE "byApple")
        \/ req[w].at = "byApple" /\ found(By("apple", t.apple), "create")
     /\ UNCHANGED <<user, unused, asked, known, unproven>>

FirebaseCreate(w) ==
  LET t == req[w].fb
      r == [uid |-> t.uid, email |-> t.email, apple |-> Null, provider |-> req[w].p]
  IN /\ req[w].at = "create"
     /\ \E x \in unused :
          IF Fits(x, r) THEN user' = [user EXCEPT ![x] = r] /\ unused' = unused \ {x}
                        ELSE UNCHANGED <<user, unused>>
     /\ Done(w) /\ UNCHANGED <<asked, known, unproven>>

\* googleSignIn keeps the address of an account with an Apple id from a token
\* with one; login never does: nothing sets the google_user_id it asks for.
KeepsAddress(c) == /\ c.kind = "google" /\ c.fb.apple # Null /\ c.row.apple # Null
                   /\ c.row.email # c.fb.email

FirebaseUpdate(w) ==
  LET c == req[w] IN
    /\ c.at = "update"
    /\ Update(c.id, [user[c.id] EXCEPT
                       !.email = IF KeepsAddress(c) THEN @ ELSE c.fb.email,
                       !.uid = IF c.kind = "login" /\ c.row.uid = Null THEN c.fb.uid ELSE @])
    /\ Done(w) /\ UNCHANGED <<unused, asked, known, unproven>>

-----------------------------------------------------------------------------
(* appleSignIn                                                             *)

\* The address of the token, else the one that the body of the request gives.
Mail(a, body) == IF a.email # Null THEN a.email ELSE body
Claims(c) == c.ap # Null /\ c.mail # c.ap.email

AppleBegin(w, a, t, body) ==
  Begin(w, [NoRequest EXCEPT !.at = "appleId", !.kind = "apple", !.ap = a, !.fb = t,
                             !.mail = Mail(a, body), !.p = "apple"])

AppleFind(w) ==
  LET a == req[w].ap
      m == req[w].mail IN
    /\ \/ /\ req[w].at = "appleId"
          /\ IF By("apple", a.apple) = {}
             THEN Move(w, IF m = Null THEN "appleCreate" ELSE "appleEmail")
             ELSE \E x \in By("apple", a.apple) : Hold(w, "appleUpdate", x, user[x])
       \/ /\ req[w].at = "appleEmail"
          /\ IF By("email", m) = {} THEN Move(w, "appleCreate")
             ELSE \E x \in By("email", m) :
                    IF user[x].provider = "google" THEN Done(w) ELSE Hold(w, "adopt", x, user[x])
    /\ UNCHANGED <<user, unused, asked, known, unproven>>

\* Then the uid of the Firebase token is linked, if there is none yet.
AppleNext(w, x, r) ==
  IF req[w].fb # Null /\ r.uid = Null THEN Hold(w, "uidOwner", x, r) ELSE Done(w)

AppleCreate(w) ==
  LET c == req[w]
      r == [uid |-> Null, email |-> Address(c.mail, c.ap.apple),
            apple |-> c.ap.apple, provider |-> "apple"]
  IN /\ c.at = "appleCreate"
     /\ \E x \in unused :
          IF Fits(x, r)
          THEN /\ user' = [user EXCEPT ![x] = r] /\ unused' = unused \ {x}
               /\ AppleNext(w, x, r)
               /\ unproven' = IF Claims(c) THEN unproven \cup {x} ELSE unproven
          ELSE Done(w) /\ UNCHANGED <<user, unused, unproven>>
     /\ UNCHANGED <<asked, known>>

\* The address is written, be it the one that was read, unless there was a uid.
AppleUpdate(w) ==
  LET c == req[w]
      r == [user[c.id] EXCEPT !.email = IF c.row.uid # Null THEN @
                                        ELSE IF c.mail # Null THEN c.mail ELSE c.row.email,
                              !.apple = IF c.at = "adopt" THEN c.ap.apple ELSE @]
  IN /\ c.at \in {"appleUpdate", "adopt"}
     /\ Update(c.id, r)
     /\ IF Updated(c.id, r) THEN AppleNext(w, c.id, r) ELSE Done(w)
     /\ unproven' = IF /\ Updated(c.id, r) /\ Claims(c)
                       /\ c.at = "adopt" \/ c.row.uid = Null
                    THEN unproven \cup {c.id} ELSE unproven
     /\ UNCHANGED <<unused, asked, known>>

\* A uid that another account has is left there.
AppleUidOwner(w) ==
  /\ req[w].at = "uidOwner"
  /\ IF By("uid", req[w].fb.uid) \subseteq {req[w].id} THEN Move(w, "setUid") ELSE Done(w)
  /\ UNCHANGED <<user, unused, asked, known, unproven>>

AppleSetUid(w) ==
  LET c == req[w] IN
    /\ c.at = "setUid"
    /\ Update(c.id, [user[c.id] EXCEPT !.uid = c.fb.uid])
    /\ Done(w) /\ UNCHANGED <<unused, asked, known, unproven>>

-----------------------------------------------------------------------------
(* linkProvider: the account of the token                                  *)

LinkStart(w, me, p, t) ==
  /\ user[me] # Null /\ user[me].provider # p
  /\ Begin(w, [NoRequest EXCEPT !.at = "linkUid", !.kind = "link", !.fb = t, !.p = p,
                                !.me = me, !.meUid = user[me].uid])

\* One that is not the caller, by uid, Apple id and address; the caller found
\* by Apple id ends the search.
LinkFind(w) ==
  LET c == req[w]
      t == c.fb
      found(X, otherwise) ==
        IF X = {} THEN Move(w, otherwise) ELSE \E x \in X : Hold(w, "identify", x, user[x])
  IN /\ \/ /\ c.at = "linkUid"
           /\ found(By("uid", t.uid) \ {c.me}, IF c.p = "apple" THEN "linkApple" ELSE "linkEmail")
        \/ /\ c.at = "linkApple"
           /\ IF By("apple", t.apple) = {c.me} THEN Move(w, "linkCreate")
              ELSE found(By("apple", t.apple), "linkEmail")
        \/ c.at = "linkEmail" /\ found(By("email", t.email) \ {c.me}, "linkCreate")
     /\ UNCHANGED <<user, unused, asked, known, unproven>>

LinkCreate(w) ==
  LET c == req[w]
      r == [uid |-> IF c.fb.uid = c.meUid THEN Null ELSE c.fb.uid,
            email |-> Address(c.fb.email, c.fb.uid),
            apple |-> IF c.p = "apple" THEN c.fb.apple ELSE Null, provider |-> c.p]
  IN /\ c.at = "linkCreate"
     /\ \E x \in unused :
          IF c.p = "apple" /\ c.fb.apple = Null
          THEN Done(w) /\ UNCHANGED <<user, unused>>
          ELSE IF Fits(x, r)
          THEN user' = [user EXCEPT ![x] = r] /\ unused' = unused \ {x} /\ Hold(w, "identify", x, r)
          ELSE Move(w, "linkAgain") /\ UNCHANGED <<user, unused>>
     /\ UNCHANGED <<asked, known, unproven>>

\* A key was taken: the account of the address, once more.
LinkAgain(w) ==
  LET X == By("email", req[w].fb.email) \ {req[w].me} IN
    /\ req[w].at = "linkAgain"
    /\ IF X = {} THEN Done(w) ELSE \E x \in X : Hold(w, "identify", x, user[x])
    /\ UNCHANGED <<user, unused, asked, known, unproven>>

\* The account becomes one of the provider; an Apple id only from the token.
BugNamesCaller(c) == c.me
Chosen(c) == c.id

LinkAdopt(w) ==
  LET c == req[w]
      x == Chosen(c)
      apple  == /\ c.p = "apple" /\ c.fb.apple # Null
                /\ c.row.provider # "apple" \/ c.row.apple # c.fb.apple
      google == c.p = "google" /\ c.row.provider # "google"
  IN /\ c.at = "identify"
     /\ \/ apple  /\ Update(x, [user[x] EXCEPT !.provider = "apple", !.apple = c.fb.apple])
        \/ google /\ Update(x, [user[x] EXCEPT !.provider = "google",
                                  !.uid = IF c.fb.uid # c.meUid /\ c.row.uid = Null
                                          THEN c.fb.uid ELSE @])
        \/ ~apple /\ ~google /\ UNCHANGED user
     /\ Done(w) /\ UNCHANGED <<unused, asked, known, unproven>>

-----------------------------------------------------------------------------
Delete(x) ==
  /\ user[x] # Null /\ user' = [user EXCEPT ![x] = Null]
  /\ UNCHANGED <<unused, req, asked, known, unproven>>

\* The process dies, a statement fails, or linkProvider finds a link.
Stops(w) == req[w].at # "idle" /\ Done(w) /\ UNCHANGED <<user, unused, asked, known, unproven>>

SignInNext ==
  \/ \E x \in Accounts : Delete(x)
  \/ \E w \in Requests :
       \/ \E k \in {"login", "google"}, p \in Issuers, t \in Firebase : FirebaseBegin(w, k, p, t)
       \/ FirebaseFind(w) \/ FirebaseCreate(w) \/ FirebaseUpdate(w)
       \/ \E a \in AppleTokens, t \in Firebase \cup {Null}, body \in Written :
            AppleBegin(w, a, t, body)
       \/ AppleFind(w) \/ AppleCreate(w) \/ AppleUpdate(w) \/ AppleUidOwner(w) \/ AppleSetUid(w)
       \/ \E me \in Accounts, p \in Issuers, t \in Firebase : LinkStart(w, me, p, t)
       \/ LinkFind(w) \/ LinkCreate(w) \/ LinkAgain(w) \/ LinkAdopt(w)
       \/ Stops(w)

SignInSpec == SignInInit /\ [][SignInNext]_signInVars

-----------------------------------------------------------------------------
(* Properties                                                              *)

\* Whatever comes between a look-up and the write that relies on it, the
\* identities on one account are of one person: tokens connect them.  Not so an
\* address that appleSignIn takes from the body of a request, for a token without
\* one: the accounts it finds or gives an address by that are set apart.
OnePersonPerAccount ==
  \A x \in Accounts \ unproven : user[x] # Null => OfOnePerson(Of(user[x]))
=============================================================================

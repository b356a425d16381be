------------------------------ MODULE Accounts ------------------------------
(***************************************************************************)
(* Accounts, cookie sessions, sign-in with a password or with a provider,  *)
(* and the saved websites of an account: src/lib/auth/*.ts, the website    *)
(* service and their routes in src/lib/api/router.ts.                      *)
(*                                                                         *)
(* Every request reads its session and then its user before its handler    *)
(* runs, and a handler reads before it writes; nothing but the two         *)
(* deletions is a transaction.  The unique indexes are provisioned by an   *)
(* operator, or not: Indexed.                                              *)
(***************************************************************************)
EXTENDS Naturals, FiniteSets

CONSTANTS
  Reqs,         \* request slots of the API instances
  Browsers,     \* cookie jars
  Emails,       \* normalised addresses
  Subjects,     \* stable provider identities
  GoogleSubjects,  \* those of Google, linked to an account of the same address
  GoogleStates,    \* the identifiers of login states made for Google, the others GitHub's
  EmailOf,      \* the verified address of a subject
  Hosts,        \* hostnames of saved websites
  Indexed,      \* the unique indexes have been provisioned
  MaxUsers, MaxSessions, MaxStates, MaxSites,   \* bounds on identifiers
  MaxCalls,     \* bound on the requests of a behaviour
  None

VARIABLES
  users,      \* account id -> document or NoUser
  sessions,   \* token -> account id, 0 without a document
  cookie,     \* browser -> session token, 0 without
  states,     \* the login states that may still be consumed
  nonce,      \* browser -> provider -> the state its nonce cookie belongs to, 0 without
  stateUses,  \* state -> callbacks that consumed it, and by another browser
  sites,      \* website id -> document or NoSite
  events,     \* website ids that analytics events refer to
  gone,       \* accounts whose deletion has committed
  calls,      \* requests begun
  req         \* the request in each slot

accountVars == <<users, sessions, cookie, states, nonce, stateUses, sites, events, gone,
                 calls, req>>

UserIds  == 1 .. MaxUsers
Tokens   == 1 .. MaxSessions
StateIds == 1 .. MaxStates
SiteIds  == 1 .. MaxSites

AccountsOK ==
  /\ GoogleSubjects \subseteq Subjects /\ GoogleStates \subseteq StateIds /\ EmailOf \in [Subjects -> Emails]
  /\ Indexed \in BOOLEAN /\ None \notin Emails \cup Subjects \cup Hosts
  /\ \A n \in {MaxUsers, MaxSessions, MaxStates, MaxSites, MaxCalls} : n \in Nat \ {0}

NoUser == [email |-> None, password |-> FALSE, subjects |-> {}]
NoSite == [owner |-> 0, host |-> None]
NoNonces == [google |-> 0, github |-> 0]
NoReq  == [op |-> "none", at |-> "idle", browser |-> None, token |-> 0, user |-> 0,
           arg |-> None, id |-> 0, nonce |-> NoNonces, gone |-> {}]

Present(u) == users[u] # NoUser
WithEmail(e) == {u \in UserIds : users[u].email = e}
WithSubject(s) == {u \in UserIds : s \in users[u].subjects}
Provider(s) == IF s \in GoogleSubjects THEN "google" ELSE "github"
SameProvider(s) == {t \in Subjects : Provider(t) = Provider(s)}
StatesFor(provider) == IF provider = "google" THEN GoogleStates ELSE StateIds \ GoogleStates
SitesOf(u, h) == {w \in SiteIds : sites[w] = [owner |-> u, host |-> h]}
Owns(u, w) == w \in SiteIds /\ u # 0 /\ sites[w].owner = u

\* The smallest unused identifier; none is left at the bound.
Unused(S, used) == CHOOSE n \in S : n \notin used /\ \A m \in S \ used : n <= m
Fresh(S, used) == S \ used # {}

\* Nobody has signed up, or one with a password has.
AccountsInit ==
  /\ users \in {[u \in UserIds |-> NoUser]} \cup
        {[u \in UserIds |-> IF u = 1 THEN [NoUser EXCEPT !.email = e, !.password = TRUE]
                            ELSE NoUser] : e \in Emails}
  /\ sessions = [t \in Tokens |-> 0]
  /\ cookie = [b \in Browsers |-> 0]
  /\ states = {} /\ nonce = [b \in Browsers |-> NoNonces]
  /\ stateUses = [st \in StateIds |-> 0]
  /\ sites = [w \in SiteIds |-> NoSite]
  /\ events = {} /\ gone = {} /\ calls = 0
  /\ req = [r \in Reqs |-> NoReq]
-----------------------------------------------------------------------------
(* handleApiRequest: the session, then the user, then the route.           *)

Go(r, at) == req' = [req EXCEPT ![r].at = at]
Done(r) == req' = [req EXCEPT ![r] = NoReq]
At(r, op, at) == req[r].op = op /\ req[r].at = at

\* Every answer to a callback clears the nonce cookie.
EndCallback(r) ==
  Done(r) /\ nonce' = [nonce EXCEPT ![req[r].browser][Provider(req[r].arg)] = 0]

Arguments(op) ==
  CASE op \in {"signup", "login"} -> Emails
    [] op = "callback" -> Subjects
    [] op = "addSite" -> Hosts
    [] OTHER -> {None}

Identifiers(op, b) ==
  CASE op = "callback" -> StateIds
    [] op \in {"removeSite", "collect"} -> SiteIds
    [] OTHER -> {0}

Ops == {"signup", "login", "startGoogle", "startGithub", "callback", "logout", "delete", "addSite",
        "removeSite", "collect"}

\* A callback carries a state that has been handed out, to this browser or another.
HandedOut == {st \in StateIds : st \in states \/ stateUses[st] > 0}

Arrive(r, b, op, x, n) ==
  /\ req[r] = NoReq /\ calls < MaxCalls
  /\ x \in Arguments(op) /\ n \in Identifiers(op, b)
  /\ op = "callback" => n \in HandedOut
  /\ op \in {"removeSite", "collect"} => sites[n] # NoSite
  /\ calls' = calls + 1
  /\ req' = [req EXCEPT ![r] = [op |-> op, at |-> "session", browser |-> b,
                                token |-> cookie[b], user |-> 0, arg |-> x, id |-> n,
                                nonce |-> nonce[b], gone |-> gone]]
  /\ UNCHANGED <<users, sessions, cookie, states, nonce, stateUses, sites, events, gone>>

\* The rate limiter or a failing read of the session ends the request.
Refuse(r) ==
  /\ req[r].at = "session"
  /\ Done(r)
  /\ UNCHANGED <<users, sessions, cookie, states, nonce, stateUses, sites, events, gone, calls>>

SessionUser(t) == IF t \in Tokens THEN sessions[t] ELSE 0

\* validateSession, first read.
ReadSession(r) ==
  /\ req[r].at = "session"
  /\ req' = [req EXCEPT ![r].user = SessionUser(req[r].token),
                        ![r].at = IF SessionUser(req[r].token) = 0 THEN "run" ELSE "user"]
  /\ UNCHANGED <<users, sessions, cookie, states, nonce, stateUses, sites, events, gone, calls>>

\* A bug for the run to find: the session document is trusted.
UserTrusted(u) == u
UserRead(u) == IF Present(u) THEN u ELSE 0

\* validateSession, second read: a session whose user is gone authenticates nobody.
ReadUser(r) ==
  /\ req[r].at = "user"
  /\ req' = [req EXCEPT ![r].user = UserRead(req[r].user), ![r].at = "run"]
  /\ UNCHANGED <<users, sessions, cookie, states, nonce, stateUses, sites, events, gone, calls>>

NeedsUser == {"delete", "addSite", "removeSite", "collect"}

Unauthenticated(r) ==
  /\ req[r].at = "run" /\ req[r].op \in NeedsUser /\ req[r].user = 0
  /\ Done(r)
  /\ UNCHANGED <<users, sessions, cookie, states, nonce, stateUses, sites, events, gone, calls>>
-----------------------------------------------------------------------------
(* Passwords, sessions.                                                    *)

\* createUser, the read: an existing address is refused.  The hash is computed next.
FindSignup(r) ==
  /\ At(r, "signup", "run")
  /\ IF WithEmail(req[r].arg) = {} THEN Go(r, "insert") ELSE Done(r)
  /\ UNCHANGED <<users, sessions, cookie, states, nonce, stateUses, sites, events, gone, calls>>

Inserted(r, doc) ==
  /\ Fresh(UserIds, {u \in UserIds : Present(u)} \cup gone)
  /\ LET u == Unused(UserIds, {v \in UserIds : Present(v)} \cup gone)
     IN /\ users' = [users EXCEPT ![u] = doc]
        /\ req' = [req EXCEPT ![r].user = u, ![r].at = "login"]

\* createUser, the write; the unique index, where there is one, refuses a duplicate.
InsertSignup(r) ==
  /\ At(r, "signup", "insert")
  /\ IF Indexed /\ WithEmail(req[r].arg) # {}
     THEN Done(r) /\ UNCHANGED users
     ELSE Inserted(r, [NoUser EXCEPT !.email = req[r].arg, !.password = TRUE])
  /\ UNCHANGED <<sessions, cookie, states, nonce, stateUses, sites, events, gone, calls>>

\* verifyUserCredentials: the right password or not; an account without one has none.
VerifyPassword(r) ==
  /\ At(r, "login", "run")
  /\ \/ Done(r)
     \/ \E u \in WithEmail(req[r].arg) :
          users[u].password /\ req' = [req EXCEPT ![r].user = u, ![r].at = "login"]
  /\ UNCHANGED <<users, sessions, cookie, states, nonce, stateUses, sites, events, gone, calls>>

\* createSession: by now the account may be gone, which the insertion does not notice.
CreateSession(r) ==
  /\ req[r].at = "login" /\ Fresh(Tokens, {t \in Tokens : sessions[t] # 0})
  /\ LET t == Unused(Tokens, {k \in Tokens : sessions[k] # 0})
     IN /\ sessions' = [sessions EXCEPT ![t] = req[r].user]
        /\ cookie' = [cookie EXCEPT ![req[r].browser] = t]
  /\ IF req[r].op = "callback" THEN EndCallback(r) ELSE Done(r) /\ UNCHANGED nonce
  /\ UNCHANGED <<users, states, stateUses, sites, events, gone, calls>>

Logout(r) ==
  /\ At(r, "logout", "run")
  /\ sessions' = [t \in Tokens |-> IF t = req[r].token THEN 0 ELSE sessions[t]]
  /\ cookie' = [cookie EXCEPT ![req[r].browser] = 0]
  /\ Done(r)
  /\ UNCHANGED <<users, states, nonce, stateUses, sites, events, gone, calls>>
-----------------------------------------------------------------------------
(* Sign-in with a provider.                                                *)

\* createLoginState: the state is bound to a nonce that only this browser's cookie of the
\* provider holds.
CreateState(r, provider) ==
  /\ Fresh(StatesFor(provider), HandedOut)
  /\ LET st == Unused(StatesFor(provider), HandedOut)
     IN /\ states' = states \cup {st}
        /\ nonce' = [nonce EXCEPT ![req[r].browser][provider] = st]
  /\ Done(r)
  /\ UNCHANGED <<users, sessions, cookie, stateUses, sites, events, gone, calls>>

StartGoogle(r) == At(r, "startGoogle", "run") /\ CreateState(r, "google")
StartGithub(r) == At(r, "startGithub", "run") /\ CreateState(r, "github")

\* A bug for the run to find: the state is looked up and left where it is.
Kept(st) == states
Consumed(st) == states \ {st}

\* consumeLoginState, one findOneAndDelete with the provider whose callback it is and the
\* nonce the request came with.
ConsumeState(r) ==
  LET st == req[r].id
      provider == Provider(req[r].arg)
  IN /\ At(r, "callback", "run")
     /\ IF st \in states \cap StatesFor(provider) /\ req[r].nonce[provider] = st
        THEN /\ states' = Consumed(st) /\ Go(r, "exchange")
             /\ stateUses' = [stateUses EXCEPT ![st] = @ + 1]
             /\ UNCHANGED nonce
        ELSE EndCallback(r) /\ UNCHANGED <<states, stateUses>>
     /\ UNCHANGED <<users, sessions, cookie, sites, events, gone, calls>>

\* The code is exchanged and the profile fetched, or the provider refuses.
Exchange(r) ==
  /\ At(r, "callback", "exchange")
  /\ \/ Go(r, "bySubject") /\ UNCHANGED nonce
     \/ EndCallback(r)
  /\ UNCHANGED <<users, sessions, cookie, states, stateUses, sites, events, gone, calls>>

\* findOrCreateSocialUser: the subject first.
FindSubject(r) ==
  /\ At(r, "callback", "bySubject")
  /\ \/ \E u \in WithSubject(req[r].arg) :
          req' = [req EXCEPT ![r].user = u, ![r].at = "login"]
     \/ WithSubject(req[r].arg) = {} /\ Go(r, "byEmail")
  /\ UNCHANGED <<users, sessions, cookie, states, nonce, stateUses, sites, events, gone, calls>>

\* ... then the address: an account of Google's verified address is linked, another is
\* an error.
FindEmail(r) ==
  /\ At(r, "callback", "byEmail")
  /\ \/ \E u \in WithEmail(EmailOf[req[r].arg]) :
          IF req[r].arg \in GoogleSubjects
          THEN req' = [req EXCEPT ![r].id = u, ![r].at = "link"] /\ UNCHANGED nonce
          ELSE EndCallback(r)
     \/ WithEmail(EmailOf[req[r].arg]) = {} /\ Go(r, "create") /\ UNCHANGED nonce
  /\ UNCHANGED <<users, sessions, cookie, states, stateUses, sites, events, gone, calls>>

\* A bug for the run to find: the identity that is bound already is replaced.
Replaceable(u, s) == Present(u)
Linkable(u, s) == Present(u) /\ users[u].subjects \cap SameProvider(s) = {}

\* The conditional update; the sparse unique index may refuse it.
Link(r) ==
  LET u == req[r].id
      s == req[r].arg
  IN /\ At(r, "callback", "link")
     /\ IF Linkable(u, s) /\ ~(Indexed /\ WithSubject(s) \ {u} # {})
        THEN /\ users' = [users EXCEPT ![u].subjects = (@ \ SameProvider(s)) \cup {s}]
             /\ req' = [req EXCEPT ![r].user = u, ![r].at = "login"]
        ELSE Go(r, "again") /\ UNCHANGED users
     /\ UNCHANGED <<sessions, cookie, states, nonce, stateUses, sites, events, gone, calls>>

CreateSocial(r) ==
  LET s == req[r].arg
  IN /\ At(r, "callback", "create")
     /\ IF Indexed /\ WithEmail(EmailOf[s]) \cup WithSubject(s) # {}
        THEN Go(r, "again") /\ UNCHANGED users
        ELSE Inserted(r, [NoUser EXCEPT !.email = EmailOf[s], !.subjects = {s}])
     /\ UNCHANGED <<sessions, cookie, states, nonce, stateUses, sites, events, gone, calls>>

\* After a conflict only the account bound to this very subject will do.
FindAgain(r) ==
  /\ At(r, "callback", "again")
  /\ \/ /\ \E u \in WithSubject(req[r].arg) :
             req' = [req EXCEPT ![r].user = u, ![r].at = "login"]
        /\ UNCHANGED nonce
     \/ WithSubject(req[r].arg) = {} /\ EndCallback(r)
  /\ UNCHANGED <<users, sessions, cookie, states, stateUses, sites, events, gone, calls>>
-----------------------------------------------------------------------------
(* Websites and deletions.                                                 *)

FindSite(r) ==
  /\ At(r, "addSite", "run") /\ req[r].user # 0
  /\ IF SitesOf(req[r].user, req[r].arg) = {} THEN Go(r, "insert") ELSE Done(r)
  /\ UNCHANGED <<users, sessions, cookie, states, nonce, stateUses, sites, events, gone, calls>>

\* A bug for the run to find: the index is not there, or the error is not handled.
SiteNotTaken(u, h) == FALSE
SiteTaken(u, h) == Indexed /\ SitesOf(u, h) # {}

\* createWebsite: on a duplicate the saved site is the answer.
InsertSite(r) ==
  /\ At(r, "addSite", "insert")
  /\ IF SiteTaken(req[r].user, req[r].arg)
     THEN UNCHANGED sites
     ELSE LET used == {w \in SiteIds : sites[w] # NoSite} \cup events
          IN /\ Fresh(SiteIds, used)
             /\ sites' = [sites EXCEPT ![Unused(SiteIds, used)] =
                                          [owner |-> req[r].user, host |-> req[r].arg]]
  /\ Done(r)
  /\ UNCHANGED <<users, sessions, cookie, states, nonce, stateUses, events, gone, calls>>

\* deleteWebsite: one transaction over the site and everything that names it.
RemoveSite(r) ==
  /\ At(r, "removeSite", "run") /\ req[r].user # 0
  /\ IF Owns(req[r].user, req[r].id)
     THEN sites' = [sites EXCEPT ![req[r].id] = NoSite] /\ events' = events \ {req[r].id}
     ELSE UNCHANGED <<sites, events>>
  /\ Done(r)
  /\ UNCHANGED <<users, sessions, cookie, states, nonce, stateUses, gone, calls>>

\* recordAnalyticsEvent: the check at the write boundary ...
CheckSite(r) ==
  /\ At(r, "collect", "run") /\ req[r].user # 0
  /\ IF Owns(req[r].user, req[r].id) THEN Go(r, "insert") ELSE Done(r)
  /\ UNCHANGED <<users, sessions, cookie, states, nonce, stateUses, sites, events, gone, calls>>

\* ... and the insertion, which a deletion may have overtaken.
InsertEvent(r) ==
  /\ At(r, "collect", "insert")
  /\ events' = events \cup {req[r].id}
  /\ Done(r)
  /\ UNCHANGED <<users, sessions, cookie, states, nonce, stateUses, sites, gone, calls>>

\* deleteUserAccount: one transaction over the account, its sessions and its websites.
DeleteAccount(r) ==
  LET u == req[r].user
  IN /\ At(r, "delete", "run") /\ u # 0
     /\ users' = [users EXCEPT ![u] = NoUser]
     /\ sessions' = [t \in Tokens |-> IF sessions[t] = u THEN 0 ELSE sessions[t]]
     /\ events' = events \ {w \in SiteIds : sites[w].owner = u}
     /\ sites' = [w \in SiteIds |-> IF sites[w].owner = u THEN NoSite ELSE sites[w]]
     /\ gone' = gone \cup {u}
     /\ cookie' = [cookie EXCEPT ![req[r].browser] = 0]
     /\ Done(r)
     /\ UNCHANGED <<states, nonce, stateUses, calls>>

\* A login state runs out after ten minutes.
ExpireState(st) ==
  /\ st \in states
  /\ states' = states \ {st}
  /\ stateUses' = [stateUses EXCEPT ![st] = @ + 1]
  /\ UNCHANGED <<users, sessions, cookie, nonce, sites, events, gone, calls, req>>

\* A session runs out after thirty days, or its document is removed by the TTL index.
ExpireSession(t) ==
  /\ sessions[t] # 0
  /\ sessions' = [sessions EXCEPT ![t] = 0]
  /\ UNCHANGED <<users, cookie, states, nonce, stateUses, sites, events, gone, calls, req>>

AccountsNext ==
  \/ \E r \in Reqs :
       \/ \E b \in Browsers, op \in Ops, x \in Emails \cup Subjects \cup Hosts \cup {None},
            n \in 0 .. MaxStates + MaxSites : Arrive(r, b, op, x, n)
       \/ Refuse(r) \/ ReadSession(r) \/ ReadUser(r) \/ Unauthenticated(r)
       \/ FindSignup(r) \/ InsertSignup(r) \/ VerifyPassword(r) \/ CreateSession(r) \/ Logout(r)
       \/ StartGoogle(r) \/ StartGithub(r) \/ ConsumeState(r) \/ Exchange(r) \/ FindSubject(r) \/ FindEmail(r)
       \/ Link(r) \/ CreateSocial(r) \/ FindAgain(r)
       \/ FindSite(r) \/ InsertSite(r) \/ RemoveSite(r) \/ CheckSite(r) \/ InsertEvent(r)
       \/ DeleteAccount(r)
  \/ \E st \in StateIds : ExpireState(st)
  \/ \E t \in Tokens : ExpireSession(t)

AccountsSpec == AccountsInit /\ [][AccountsNext]_accountVars
-----------------------------------------------------------------------------
\* A request that arrives after the deletion of an account has committed never runs as
\* that account, although a sign-in that was under way may have left it a session.
DeletedStaysOut ==
  \A r \in Reqs : req[r].at = "run" => req[r].user \notin req[r].gone

\* Whatever callbacks race, a sign-in ends in the account that is bound to the subject
\* the provider named; and with the unique indexes there is one such account, one of an
\* address, and one website of an account and a hostname.
SignInsConverge ==
  /\ \A r \in Reqs : At(r, "callback", "login") /\ Present(req[r].user)
       => req[r].arg \in users[req[r].user].subjects
  /\ Indexed =>
       /\ \A s \in Subjects : Cardinality(WithSubject(s)) <= 1
       /\ \A e \in Emails : Cardinality(WithEmail(e)) <= 1
       /\ \A w, v \in SiteIds : sites[w] = sites[v] /\ sites[w] # NoSite => w = v

\* A login state is consumed at most once, however often the callback is repeated, so
\* that a second request with the same address signs nobody in.
StateUsedOnce == \A st \in StateIds : stateUses[st] <= 1

\* What is deleted stays out of every later answer, concurrent first sign-ins end in one
\* account, and a state of the OAuth dance is used once (auth/user.ts, social.ts).
AccountsHold == DeletedStaysOut /\ SignInsConverge /\ StateUsedOnce
=============================================================================

---------------------------- MODULE ApiProofs ----------------------------
(***************************************************************************)
(* Theorems of the accounts, of the connection to Google and of the checks *)
(* of the API: who a request runs as, where a sign-in ends, whose tokens a *)
(* connection holds, and what a request has passed before it is answered,  *)
(* whatever requests race with each other and with deletions.              *)
(***************************************************************************)
EXTENDS Accounts, GoogleIntegration, ApiGate, ListTheorems, FiniteSetTheorems

\* An identifier that is drawn is one of the set and not in use.
LEMMA UnusedIsFree ==
  ASSUME NEW S \in SUBSET Nat, NEW used, Fresh(S, used)
  PROVE  Unused(S, used) \in S \ used
<1>1. \E n \in S \ used : \A m \in S \ used : n <= m
  BY LeastNumber DEF Fresh
<1>2. \E n \in S : n \notin used /\ \A m \in S \ used : n <= m
  BY <1>1
<1> QED
  BY <1>2, Zenon DEF Unused

\* At most one element is a cardinality of at most one.
LEMMA AtMostOne ==
  ASSUME NEW S, \A x, y \in S : x = y PROVE Cardinality(S) <= 1
<1>1. CASE S = {}
  BY <1>1, FS_EmptySet
<1>2. CASE S # {}
  <2>1. PICK x \in S : S = {x}
    BY <1>2
  <2> QED
    BY <2>1, FS_Singleton
<1> QED
  BY <1>1, <1>2

-----------------------------------------------------------------------------
(***************************************************************************)
(* Accounts                                                                *)
(***************************************************************************)
Docs == [email : Emails \cup {None}, password : BOOLEAN, subjects : SUBSET Subjects]
Fields == {"op", "at", "browser", "token", "user", "arg", "id", "nonce", "gone"}

AccountsTyped ==
  /\ users \in [UserIds -> Docs] /\ gone \subseteq UserIds
  /\ sessions \in [Tokens -> 0..MaxUsers]
  /\ req = [r \in Reqs |-> req[r]] /\ \A r \in Reqs : DOMAIN req[r] = Fields

\* Where a request is, as whom, and with what.
Placed(r) ==
  /\ req[r].user \in 0..MaxUsers /\ req[r].gone \subseteq gone
  /\ req[r].at = "session" => req[r].user = 0
  /\ req[r].at = "run" => req[r].user \notin req[r].gone
  /\ req[r].at = "login" => req[r].user \in UserIds /\ (Present(req[r].user) \/ req[r].user \in gone)
  /\ req[r].op = "callback" => req[r].arg \in Subjects
  /\ req[r].op = "signup" => req[r].arg \in Emails
  /\ At(r, "callback", "link") => req[r].id \in UserIds
  /\ At(r, "callback", "login") /\ Present(req[r].user) => req[r].arg \in users[req[r].user].subjects

\* An account that is deleted stays deleted; where there are indexes, two accounts have
\* neither an address nor a subject in common.
UsersInv ==
  /\ AccountsTyped /\ \A r \in Reqs : Placed(r)
  /\ \A u \in gone : users[u] = NoUser
  /\ Indexed => \A u, v \in UserIds :
       /\ users[u].email = users[v].email /\ users[u].email \in Emails => u = v
       /\ users[u].subjects \cap users[v].subjects # {} => u = v

\* A step of one request: where it goes, as whom, and with what.
Moved(r) ==
  /\ req' = [q \in Reqs |-> req'[q]]
  /\ \A q \in Reqs : DOMAIN req'[q] = Fields
  /\ \A q \in Reqs \ {r} : req'[q] = req[q]
Becomes(r, at, user) ==
  /\ Moved(r) /\ req'[r].at = at /\ req'[r].user = user
  /\ req'[r].op = req[r].op /\ req'[r].arg = req[r].arg /\ req'[r].gone = req[r].gone

\* What the others may find of the accounts: one is deleted, or made, or gets a subject.
UsersMove ==
  /\ gone \subseteq gone'
  /\ \A u \in UserIds : Present(u) => Present(u)' \/ u \in gone'
  /\ \A u \in UserIds : Present(u)' =>
       IF Present(u) THEN users[u].subjects \subseteq users'[u].subjects ELSE u \notin gone

LEMMA StepsTo ==
  ASSUME AccountsTyped, NEW r \in Reqs, NEW at, Go(r, at)
  PROVE  Becomes(r, at, req[r].user) /\ req'[r].id = req[r].id
BY DEF AccountsTyped, Go, Becomes, Moved, Fields

LEMMA GoesAs ==
  ASSUME AccountsTyped, NEW r \in Reqs, NEW at, NEW u,
         req' = [req EXCEPT ![r].user = u, ![r].at = at]
  PROVE  Becomes(r, at, u) /\ req'[r].id = req[r].id
BY DEF AccountsTyped, Becomes, Moved, Fields

LEMMA GoesWith ==
  ASSUME AccountsTyped, NEW r \in Reqs, NEW at, NEW u,
         req' = [req EXCEPT ![r].id = u, ![r].at = at]
  PROVE  Becomes(r, at, req[r].user) /\ req'[r].id = u
BY DEF AccountsTyped, Becomes, Moved, Fields

LEMMA Leaves ==
  ASSUME AccountsOK, AccountsTyped, NEW r \in Reqs, Done(r) PROVE Moved(r) /\ Placed(r)'
<1>1. req' = [req EXCEPT ![r] = NoReq] /\ req'[r] = NoReq
  BY DEF Done, AccountsTyped
<1>2. /\ NoReq.at = "idle" /\ NoReq.op = "none" /\ NoReq.user = 0 /\ NoReq.gone = {}
      /\ DOMAIN NoReq = Fields
  BY DEF NoReq, Fields
<1>3. Moved(r)
  BY <1>1, <1>2 DEF AccountsTyped, Moved
<1>4. 0 \in 0..MaxUsers
  BY DEF AccountsOK
<1> QED
  BY <1>1, <1>2, <1>3, <1>4 DEF Placed, At

LEMMA PlacedKeeps ==
  ASSUME UsersMove, NEW q \in Reqs, Placed(q), req'[q] = req[q] PROVE Placed(q)'
<1>1. req[q].at = "login" => users'[req[q].user] # NoUser \/ req[q].user \in gone'
  BY DEF UsersMove, Placed, Present
<1>2. At(q, "callback", "login") /\ users'[req[q].user] # NoUser
        => req[q].arg \in users'[req[q].user].subjects
  BY DEF UsersMove, Placed, Present, At
<1> QED
  BY <1>1, <1>2 DEF UsersMove, Placed, Present, At

\* A step that leaves the accounts alone.
LEMMA QuietStep ==
  ASSUME UsersInv, UNCHANGED <<users, gone>>, sessions' \in [Tokens -> 0..MaxUsers],
         NEW r \in Reqs, Moved(r), Placed(r)'
  PROVE  UsersInv'
<1>1. UsersMove
  BY DEF UsersMove, Present
<1>2. \A q \in Reqs : Placed(q)'
  BY <1>1, PlacedKeeps DEF UsersInv, Moved
<1> QED
  BY <1>2 DEF UsersInv, AccountsTyped, Moved

\* A request ends, goes on with its handler, or has found the account it signs in to.
LEMMA DoneStep ==
  ASSUME AccountsOK, UsersInv, UNCHANGED <<users, gone>>, sessions' \in [Tokens -> 0..MaxUsers],
         NEW r \in Reqs, Done(r)
  PROVE  UsersInv'
BY Leaves, QuietStep DEF UsersInv

LEMMA GoStep ==
  ASSUME UsersInv, UNCHANGED <<users, gone, sessions>>, NEW r \in Reqs,
         NEW at, at \notin {"session", "run", "login", "link"}, Go(r, at)
  PROVE  UsersInv'
<1>1. Becomes(r, at, req[r].user) /\ Placed(r)
  BY StepsTo DEF UsersInv
<1>2. Placed(r)'
  BY <1>1 DEF Becomes, Placed, At
<1> QED
  BY <1>1, <1>2, QuietStep DEF Becomes, UsersInv, AccountsTyped

LEMMA LoginStep ==
  ASSUME AccountsOK, UsersInv, UNCHANGED <<users, gone, sessions>>, NEW r \in Reqs,
         NEW u \in UserIds, Present(u), req[r].op = "callback" => req[r].arg \in users[u].subjects,
         req' = [req EXCEPT ![r].user = u, ![r].at = "login"]
  PROVE  UsersInv'
<1>1. Becomes(r, "login", u) /\ Placed(r)
  BY GoesAs DEF UsersInv
<1>2. u \in 0..MaxUsers
  BY DEF UserIds, AccountsOK
<1>3. Placed(r)'
  BY <1>1, <1>2 DEF Becomes, Placed, At, Present
<1> QED
  BY <1>1, <1>3, QuietStep DEF Becomes, UsersInv, AccountsTyped

\* Who has the subject is there, and so is who has the address.
LEMMA FoundIsPresent ==
  ASSUME AccountsOK, UsersInv
  PROVE  /\ \A s, u : u \in WithSubject(s) => u \in UserIds /\ Present(u) /\ s \in users[u].subjects
         /\ \A e \in Emails : \A u \in WithEmail(e) : u \in UserIds /\ Present(u)
<1>1. NoUser.subjects = {} /\ NoUser.email = None
  BY DEF NoUser
<1> QED
  BY <1>1 DEF WithSubject, WithEmail, Present, AccountsOK

LEMMA ReadSteps ==
  ASSUME AccountsOK, UsersInv, NEW r \in Reqs, ReadSession(r) \/ ReadUser(r) PROVE UsersInv'
<1>1. Placed(r) /\ 0 \in 0..MaxUsers
  BY DEF UsersInv, AccountsOK
<1>2. CASE ReadSession(r)
  <2> DEFINE u == SessionUser(req[r].token)
             at == IF u = 0 THEN "run" ELSE "user"
  <2>1. u \in 0..MaxUsers
    BY <1>1 DEF SessionUser, UsersInv, AccountsTyped
  <2>2. req' = [req EXCEPT ![r].user = u, ![r].at = at] /\ UNCHANGED <<users, gone, sessions>>
    BY <1>2 DEF ReadSession
  <2>3. at \in {"run", "user"} /\ (at = "run" => u = 0)
    OBVIOUS
  <2> HIDE DEF u, at
  <2>4. Becomes(r, at, u)
    BY <2>2, GoesAs DEF UsersInv
  <2>5. 0 \notin gone
    BY DEF UsersInv, AccountsTyped, UserIds
  <2>6. Placed(r)'
    BY <1>1, <2>1, <2>2, <2>3, <2>4, <2>5 DEF Becomes, Placed, At
  <2> QED
    BY <2>2, <2>4, <2>6, QuietStep DEF Becomes, UsersInv, AccountsTyped
<1>3. CASE ReadUser(r)
  <2> DEFINE u == UserRead(req[r].user)
  <2>1. req' = [req EXCEPT ![r].user = u, ![r].at = "run"] /\ UNCHANGED <<users, gone, sessions>>
    BY <1>3 DEF ReadUser
  <2>2. u \in 0..MaxUsers /\ u \notin gone
    BY <1>1 DEF UserRead, Present, UsersInv, AccountsTyped, UserIds, Placed
  <2> HIDE DEF u
  <2>3. Becomes(r, "run", u)
    BY <2>1, GoesAs DEF UsersInv
  <2>4. Placed(r)'
    BY <1>1, <2>1, <2>2, <2>3 DEF Becomes, Placed, At
  <2> QED
    BY <2>1, <2>3, <2>4, QuietStep DEF Becomes, UsersInv, AccountsTyped
<1> QED
  BY <1>2, <1>3

LEMMA ArriveStep ==
  ASSUME AccountsOK, UsersInv, NEW r \in Reqs, NEW b, NEW op, NEW x, NEW n, Arrive(r, b, op, x, n)
  PROVE  UsersInv'
<1> DEFINE new == [op |-> op, at |-> "session", browser |-> b, token |-> cookie[b], user |-> 0,
                   arg |-> x, id |-> n, nonce |-> nonce[b], gone |-> gone]
<1>1. req' = [req EXCEPT ![r] = new] /\ UNCHANGED <<users, gone, sessions>> /\ x \in Arguments(op)
  BY DEF Arrive
<1>2. /\ DOMAIN new = Fields /\ new.op = op /\ new.at = "session" /\ new.user = 0
      /\ new.arg = x /\ new.gone = gone
  BY DEF Fields
<1> HIDE DEF new
<1>3. Moved(r) /\ req'[r] = new
  BY <1>1, <1>2 DEF UsersInv, AccountsTyped, Moved
<1>4. (op = "callback" => x \in Subjects) /\ (op = "signup" => x \in Emails)
  BY <1>1 DEF Arguments
<1>5. Placed(r)'
  BY <1>1, <1>2, <1>3, <1>4 DEF Placed, At, AccountsOK
<1> QED
  BY <1>1, <1>3, <1>5, QuietStep DEF UsersInv, AccountsTyped

\* An account is made under an identifier that was never used.
LEMMA MakeStep ==
  ASSUME AccountsOK, UsersInv, NEW r \in Reqs, NEW doc \in Docs, doc # NoUser, Inserted(r, doc),
         UNCHANGED <<gone, sessions>>,
         req[r].op = "callback" => req[r].arg \in doc.subjects,
         Indexed => \A v \in UserIds : /\ users[v].email # doc.email
                                       /\ doc.subjects \cap users[v].subjects = {}
  PROVE  UsersInv'
<1> DEFINE used == {v \in UserIds : Present(v)} \cup gone
           u == Unused(UserIds, used)
<1>1. Fresh(UserIds, used) /\ users' = [users EXCEPT ![u] = doc]
      /\ req' = [req EXCEPT ![r].user = u, ![r].at = "login"]
  BY DEF Inserted
<1>2. u \in UserIds /\ ~Present(u) /\ u \notin gone
  <2>1. UserIds \in SUBSET Nat
    BY DEF UserIds, AccountsOK
  <2> HIDE DEF used
  <2>2. u \in UserIds \ used
    BY <1>1, <2>1, UnusedIsFree
  <2> QED
    BY <2>2 DEF used
<1> HIDE DEF used, u
<1>3. /\ users' \in [UserIds -> Docs] /\ users'[u] = doc
      /\ \A v \in UserIds : v # u => users'[v] = users[v]
  BY <1>1, <1>2 DEF UsersInv, AccountsTyped
<1>4. UsersMove
  BY <1>2, <1>3 DEF UsersMove, Present
<1>5. Becomes(r, "login", u)
  BY <1>1, GoesAs DEF UsersInv
<1>6. \A q \in Reqs \ {r} : Placed(q)'
  BY <1>4, <1>5, PlacedKeeps DEF UsersInv, Becomes, Moved
<1>7. Placed(r)'
  <2>1. u \in 0..MaxUsers /\ Placed(r) /\ req[r].gone \subseteq gone'
    BY <1>2 DEF UserIds, AccountsOK, UsersInv, Placed
  <2> QED
    BY <1>2, <1>3, <1>5, <2>1 DEF Becomes, Placed, At, Present
<1>8. \A v \in gone' : users'[v] = NoUser
  BY <1>2, <1>3 DEF UsersInv, AccountsTyped
<1>9. Indexed => \A v, w \in UserIds :
        /\ users'[v].email = users'[w].email /\ users'[v].email \in Emails => v = w
        /\ users'[v].subjects \cap users'[w].subjects # {} => v = w
  <2> SUFFICES ASSUME Indexed, NEW v \in UserIds, NEW w \in UserIds, v # w
               PROVE  /\ ~(users'[v].email = users'[w].email /\ users'[v].email \in Emails)
                      /\ users'[v].subjects \cap users'[w].subjects = {}
    OBVIOUS
  <2>1. CASE v = u
    BY <1>3, <2>1
  <2>2. CASE w = u
    BY <1>3, <2>2
  <2>3. CASE v # u /\ w # u
    BY <1>3, <2>3 DEF UsersInv
  <2> QED
    BY <2>1, <2>2, <2>3
<1> QED
  BY <1>3, <1>5, <1>6, <1>7, <1>8, <1>9 DEF UsersInv, AccountsTyped, Becomes, Moved

\* A subject is added to an account that is there and has none of the provider.
LEMMA LinkStep ==
  ASSUME AccountsOK, UsersInv, NEW r \in Reqs, Link(r) PROVE UsersInv'
<1> DEFINE u == req[r].id
           s == req[r].arg
<1>1. /\ At(r, "callback", "link") /\ UNCHANGED <<gone, sessions>>
      /\ u \in UserIds /\ s \in Subjects /\ Placed(r)
  BY DEF Link, UsersInv, Placed, At
<1>2. CASE Linkable(u, s) /\ ~(Indexed /\ WithSubject(s) \ {u} # {})
  <2> DEFINE doc == [users[u] EXCEPT !.subjects = (@ \ SameProvider(s)) \cup {s}]
  <2>1. /\ users' = [users EXCEPT ![u] = doc]
        /\ req' = [req EXCEPT ![r].user = u, ![r].at = "login"]
    BY <1>2 DEF Link
  <2>2. users[u] \in Docs /\ Present(u) /\ users[u].subjects \cap SameProvider(s) = {}
    BY <1>1, <1>2 DEF Linkable, UsersInv, AccountsTyped
  <2>3. doc \in Docs /\ doc.email = users[u].email /\ doc.subjects = users[u].subjects \cup {s}
    <3>1. (users[u].subjects \ SameProvider(s)) \cup {s} = users[u].subjects \cup {s}
      BY <2>2
    <3>2. users[u].subjects \cup {s} \in SUBSET Subjects
      BY <1>1, <2>2 DEF Docs
    <3> QED
      BY <2>2, <3>1, <3>2 DEF Docs
  <2>4. doc # NoUser
    BY <2>3 DEF NoUser
  <2> HIDE DEF doc
  <2>5. /\ users' \in [UserIds -> Docs] /\ users'[u] = doc
        /\ \A v \in UserIds : v # u => users'[v] = users[v]
    BY <1>1, <2>1, <2>3 DEF UsersInv, AccountsTyped
  <2>6. u \notin gone
    BY <2>2 DEF UsersInv, Present
  <2>7. UsersMove
    BY <1>1, <2>2, <2>3, <2>4, <2>5 DEF UsersMove, Present
  <2>8. Becomes(r, "login", u)
    BY <2>1, GoesAs DEF UsersInv
  <2>9. \A q \in Reqs \ {r} : Placed(q)'
    BY <2>7, <2>8, PlacedKeeps DEF UsersInv, Becomes, Moved
  <2>10. Placed(r)'
    <3>1. u \in 0..MaxUsers /\ s \in doc.subjects
      BY <1>1, <2>3 DEF UserIds, AccountsOK
    <3> HIDE DEF u, s
    <3>2. /\ Placed(r) /\ req'[r].at = "login" /\ req'[r].user = u /\ req'[r].op = req[r].op
          /\ req'[r].arg = req[r].arg /\ req'[r].gone = req[r].gone /\ gone' = gone
          /\ req[r].arg = s
      BY <1>1, <2>8 DEF Becomes, s
    <3> QED
      BY <1>1, <2>4, <2>5, <3>1, <3>2 DEF Placed, At, Present
  <2>11. \A v \in gone' : users'[v] = NoUser
    BY <1>1, <2>5, <2>6 DEF UsersInv, AccountsTyped
  <2>12. Indexed => \A v, w \in UserIds :
           /\ users'[v].email = users'[w].email /\ users'[v].email \in Emails => v = w
           /\ users'[v].subjects \cap users'[w].subjects # {} => v = w
    <3> SUFFICES ASSUME Indexed, NEW v \in UserIds, NEW w \in UserIds, v # w
                 PROVE  /\ ~(users'[v].email = users'[w].email /\ users'[v].email \in Emails)
                        /\ users'[v].subjects \cap users'[w].subjects = {}
      OBVIOUS
    <3>1. \A q \in UserIds : users'[q].email = users[q].email
      BY <2>3, <2>5
    <3>2. \A q \in UserIds \ {u} : s \notin users[q].subjects
      BY <1>2 DEF WithSubject
    <3>3. users[v].subjects \cap users[w].subjects = {}
      BY DEF UsersInv
    <3>4. ~(users[v].email = users[w].email /\ users[v].email \in Emails)
      BY DEF UsersInv
    <3>5. users'[v].subjects \cap users'[w].subjects = {}
      <4>1. CASE v = u
        BY <2>3, <2>5, <3>2, <3>3, <4>1
      <4>2. CASE w = u
        BY <2>3, <2>5, <3>2, <3>3, <4>2
      <4>3. CASE v # u /\ w # u
        BY <2>5, <3>3, <4>3
      <4> QED
        BY <4>1, <4>2, <4>3
    <3> QED
      BY <3>1, <3>4, <3>5
  <2> QED
    BY <1>1, <2>5, <2>8, <2>9, <2>10, <2>11, <2>12 DEF UsersInv, AccountsTyped, Becomes, Moved
<1>3. CASE ~(Linkable(u, s) /\ ~(Indexed /\ WithSubject(s) \ {u} # {}))
  <2>1. Go(r, "again") /\ UNCHANGED <<users, gone, sessions>>
    BY <1>1, <1>3 DEF Link
  <2> QED
    BY <2>1, GoStep
<1> QED
  BY <1>2, <1>3

LEMMA DeleteStep ==
  ASSUME AccountsOK, UsersInv, NEW r \in Reqs, DeleteAccount(r) PROVE UsersInv'
<1> DEFINE u == req[r].user
<1>1. u \in UserIds
  BY DEF DeleteAccount, UsersInv, Placed, UserIds, AccountsOK
<1>2. /\ users' = [users EXCEPT ![u] = NoUser] /\ gone' = gone \cup {u} /\ Done(r)
      /\ sessions' = [t \in Tokens |-> IF sessions[t] = u THEN 0 ELSE sessions[t]]
  BY DEF DeleteAccount
<1>3. NoUser \in Docs /\ NoUser.subjects = {} /\ NoUser.email \notin Emails
  BY DEF NoUser, Docs, AccountsOK
<1> HIDE DEF u
<1>4. /\ users' \in [UserIds -> Docs] /\ users'[u] = NoUser
      /\ \A v \in UserIds : v # u => users'[v] = users[v]
  BY <1>1, <1>2, <1>3 DEF UsersInv, AccountsTyped
<1>5. sessions' \in [Tokens -> 0..MaxUsers]
  <2>1. 0 \in 0..MaxUsers
    BY DEF AccountsOK
  <2> QED
    BY <1>2, <2>1 DEF UsersInv, AccountsTyped
<1>6. UsersMove
  BY <1>1, <1>2, <1>4 DEF UsersMove, Present
<1>7. Moved(r) /\ Placed(r)'
  BY <1>2, Leaves DEF UsersInv
<1>8. \A q \in Reqs : Placed(q)'
  BY <1>6, <1>7, PlacedKeeps DEF UsersInv, Moved
<1>9. /\ \A v \in gone' : users'[v] = NoUser
      /\ gone' \subseteq UserIds
  BY <1>1, <1>2, <1>4 DEF UsersInv, AccountsTyped
<1>10. Indexed => \A v, w \in UserIds :
         /\ users'[v].email = users'[w].email /\ users'[v].email \in Emails => v = w
         /\ users'[v].subjects \cap users'[w].subjects # {} => v = w
  <2> SUFFICES ASSUME Indexed, NEW v \in UserIds, NEW w \in UserIds, v # w
               PROVE  /\ ~(users'[v].email = users'[w].email /\ users'[v].email \in Emails)
                      /\ users'[v].subjects \cap users'[w].subjects = {}
    OBVIOUS
  <2>1. CASE v = u
    BY <1>3, <1>4, <2>1
  <2>2. CASE w = u
    BY <1>3, <1>4, <2>2
  <2>3. CASE v # u /\ w # u
    BY <1>4, <2>3 DEF UsersInv
  <2> QED
    BY <2>1, <2>2, <2>3
<1> QED
  BY <1>4, <1>5, <1>7, <1>8, <1>9, <1>10 DEF UsersInv, AccountsTyped, Moved

LEMMA UsersStart == ASSUME AccountsOK, AccountsInit PROVE UsersInv
<1>1. /\ NoUser \in Docs /\ NoUser.subjects = {} /\ NoUser.email = None
      /\ DOMAIN NoReq = Fields /\ NoReq.at = "idle" /\ NoReq.op = "none" /\ NoReq.user = 0
      /\ NoReq.gone = {} /\ 0 \in 0..MaxUsers
  BY DEF NoUser, Docs, NoReq, Fields, AccountsOK
<1>2. /\ users \in [UserIds -> Docs]
      /\ \A u \in UserIds : users[u].subjects = {} /\ (u # 1 => users[u].email = None)
  <2>1. CASE users = [u \in UserIds |-> NoUser]
    BY <1>1, <2>1
  <2>2. CASE \E e \in Emails : users = [u \in UserIds |->
               IF u = 1 THEN [NoUser EXCEPT !.email = e, !.password = TRUE] ELSE NoUser]
    <3>1. PICK e \in Emails : users = [u \in UserIds |->
            IF u = 1 THEN [NoUser EXCEPT !.email = e, !.password = TRUE] ELSE NoUser]
      BY <2>2
    <3> DEFINE doc == [NoUser EXCEPT !.email = e, !.password = TRUE]
    <3>2. doc \in Docs /\ doc.subjects = {}
      BY DEF NoUser, Docs
    <3>3. users = [u \in UserIds |-> IF u = 1 THEN doc ELSE NoUser]
      BY <3>1
    <3> HIDE DEF doc
    <3> QED
      BY <1>1, <3>2, <3>3
  <2> QED
    BY <2>1, <2>2 DEF AccountsInit
<1>3. sessions \in [Tokens -> 0..MaxUsers] /\ gone = {} /\ \A r \in Reqs : req[r] = NoReq
  BY <1>1 DEF AccountsInit
<1>4. req = [r \in Reqs |-> req[r]]
  BY DEF AccountsInit
<1>5. \A r \in Reqs : Placed(r)
  BY <1>1, <1>3 DEF Placed, At
<1>6. None \notin Emails
  BY DEF AccountsOK
<1> QED
  BY <1>1, <1>2, <1>3, <1>4, <1>5, <1>6 DEF UsersInv, AccountsTyped

LEMMA UsersStep ==
  ASSUME AccountsOK, UsersInv, [AccountsNext]_accountVars PROVE UsersInv'
<1>0. sessions \in [Tokens -> 0..MaxUsers] /\ 0 \in 0..MaxUsers
  BY DEF UsersInv, AccountsTyped, AccountsOK
<1>1. ASSUME NEW r \in Reqs, NEW b \in Browsers, NEW op \in Ops, NEW x, NEW n, Arrive(r, b, op, x, n)
      PROVE  UsersInv'
  BY <1>1, ArriveStep
<1>2. ASSUME NEW r \in Reqs,
             Refuse(r) \/ Unauthenticated(r) \/ StartGoogle(r) \/ StartGithub(r) \/ InsertSite(r)
               \/ RemoveSite(r) \/ InsertEvent(r)
      PROVE  UsersInv'
  <2>1. Done(r) /\ UNCHANGED <<users, gone, sessions>>
    BY <1>2 DEF Refuse, Unauthenticated, StartGoogle, StartGithub, CreateState, InsertSite,
                RemoveSite, InsertEvent
  <2> QED
    BY <1>0, <2>1, DoneStep
<1>3. ASSUME NEW r \in Reqs, ReadSession(r) \/ ReadUser(r) PROVE UsersInv'
  BY <1>3, ReadSteps
<1>4. ASSUME NEW r \in Reqs,
             FindSignup(r) \/ ConsumeState(r) \/ Exchange(r) \/ FindSite(r) \/ CheckSite(r)
      PROVE  UsersInv'
  <2>1. /\ UNCHANGED <<users, gone, sessions>>
        /\ \/ Done(r)
           \/ \E at \in {"insert", "exchange", "bySubject"} : Go(r, at)
    BY <1>4 DEF FindSignup, ConsumeState, Exchange, FindSite, CheckSite, EndCallback
  <2> QED
    BY <1>0, <2>1, DoneStep, GoStep
<1>5. ASSUME NEW r \in Reqs, InsertSignup(r) PROVE UsersInv'
  <2> DEFINE doc == [NoUser EXCEPT !.email = req[r].arg, !.password = TRUE]
  <2>1. At(r, "signup", "insert") /\ UNCHANGED <<gone, sessions>> /\ req[r].arg \in Emails
    BY <1>5 DEF InsertSignup, UsersInv, Placed, At
  <2>2. CASE Indexed /\ WithEmail(req[r].arg) # {}
    BY <1>0, <1>5, <2>1, <2>2, DoneStep DEF InsertSignup
  <2>3. CASE ~(Indexed /\ WithEmail(req[r].arg) # {})
    <3>1. Inserted(r, doc)
      BY <1>5, <2>3 DEF InsertSignup
    <3>2. doc \in Docs /\ doc.email = req[r].arg /\ doc.subjects = {}
      BY <2>1 DEF NoUser, Docs
    <3>3. doc # NoUser
      BY <2>1, <3>2 DEF NoUser, AccountsOK
    <3>4. Indexed => \A v \in UserIds : users[v].email # doc.email
      BY <2>3, <3>2 DEF WithEmail
    <3> HIDE DEF doc
    <3>5. req[r].op # "callback"
      BY <2>1 DEF At
    <3>6. Indexed => \A v \in UserIds : /\ users[v].email # doc.email
                                       /\ doc.subjects \cap users[v].subjects = {}
      BY <3>2, <3>4
    <3> QED
      BY <2>1, <3>1, <3>2, <3>3, <3>5, <3>6, MakeStep
  <2> QED
    BY <2>2, <2>3
<1>6. ASSUME NEW r \in Reqs, VerifyPassword(r) PROVE UsersInv'
  <2>1. /\ UNCHANGED <<users, gone, sessions>> /\ req[r].op = "login"
        /\ \/ Done(r)
           \/ \E u \in WithEmail(req[r].arg) :
                users[u].password /\ req' = [req EXCEPT ![r].user = u, ![r].at = "login"]
    BY <1>6 DEF VerifyPassword, At
  <2>2. CASE Done(r)
    BY <1>0, <2>1, <2>2, DoneStep
  <2>3. ASSUME NEW u \in WithEmail(req[r].arg), users[u].password,
               req' = [req EXCEPT ![r].user = u, ![r].at = "login"]
        PROVE  UsersInv'
    <3>1. u \in UserIds /\ Present(u)
      <4>1. NoUser = [email |-> None, password |-> FALSE, subjects |-> {}] /\ ~NoUser.password
        BY DEF NoUser
      <4> QED
        BY <2>3, <4>1 DEF WithEmail, Present
    <3> QED
      BY <2>1, <2>3, <3>1, LoginStep
  <2> QED
    BY <2>1, <2>2, <2>3
<1>7. ASSUME NEW r \in Reqs, CreateSession(r) PROVE UsersInv'
  <2> DEFINE t == Unused(Tokens, {k \in Tokens : sessions[k] # 0})
  <2>1. Done(r) /\ UNCHANGED <<users, gone>> /\ sessions' = [sessions EXCEPT ![t] = req[r].user]
    BY <1>7 DEF CreateSession, EndCallback
  <2>2. req[r].user \in 0..MaxUsers
    BY DEF UsersInv, Placed
  <2> HIDE DEF t
  <2>3. sessions' \in [Tokens -> 0..MaxUsers]
    BY <1>0, <2>1, <2>2
  <2> QED
    BY <2>1, <2>3, DoneStep
<1>8. ASSUME NEW r \in Reqs, Logout(r) PROVE UsersInv'
  <2>1. Done(r) /\ UNCHANGED <<users, gone>> /\ sessions' \in [Tokens -> 0..MaxUsers]
    BY <1>0, <1>8 DEF Logout
  <2> QED
    BY <2>1, DoneStep
<1>9. ASSUME NEW r \in Reqs, FindSubject(r) \/ FindAgain(r) PROVE UsersInv'
  <2>1. /\ UNCHANGED <<users, gone, sessions>> /\ req[r].op = "callback"
        /\ \/ Done(r) \/ Go(r, "byEmail")
           \/ \E u \in WithSubject(req[r].arg) : req' = [req EXCEPT ![r].user = u, ![r].at = "login"]
    BY <1>9 DEF FindSubject, FindAgain, EndCallback, At
  <2> QED
    BY <1>0, <2>1, DoneStep, GoStep, LoginStep, FoundIsPresent
<1>10. ASSUME NEW r \in Reqs, FindEmail(r) PROVE UsersInv'
  <2>1. /\ UNCHANGED <<users, gone, sessions>> /\ req[r].op = "callback"
        /\ \/ Done(r) \/ Go(r, "create")
           \/ \E u \in WithEmail(EmailOf[req[r].arg]) : req' = [req EXCEPT ![r].id = u, ![r].at = "link"]
    BY <1>10 DEF FindEmail, EndCallback, At
  <2>2. ASSUME NEW u \in WithEmail(EmailOf[req[r].arg]), req' = [req EXCEPT ![r].id = u, ![r].at = "link"]
        PROVE  UsersInv'
    <3>1. Becomes(r, "link", req[r].user) /\ req'[r].id = u /\ u \in UserIds /\ Placed(r)
      BY <2>2, GoesWith DEF UsersInv, WithEmail
    <3>2. Placed(r)'
      BY <2>1, <3>1 DEF Becomes, Placed, At
    <3> QED
      BY <1>0, <2>1, <3>1, <3>2, QuietStep DEF Becomes
  <2> QED
    BY <1>0, <2>1, <2>2, DoneStep, GoStep
<1>11. ASSUME NEW r \in Reqs, Link(r) PROVE UsersInv'
  BY <1>11, LinkStep
<1>12. ASSUME NEW r \in Reqs, CreateSocial(r) PROVE UsersInv'
  <2> DEFINE s == req[r].arg
             doc == [NoUser EXCEPT !.email = EmailOf[s], !.subjects = {s}]
  <2>1. At(r, "callback", "create") /\ UNCHANGED <<gone, sessions>> /\ s \in Subjects
    BY <1>12 DEF CreateSocial, UsersInv, Placed, At
  <2>2. CASE Indexed /\ WithEmail(EmailOf[s]) \cup WithSubject(s) # {}
    <3>1. Go(r, "again") /\ UNCHANGED users
      BY <1>12, <2>2 DEF CreateSocial
    <3> QED
      BY <2>1, <3>1, GoStep
  <2>3. CASE ~(Indexed /\ WithEmail(EmailOf[s]) \cup WithSubject(s) # {})
    <3>1. Inserted(r, doc)
      BY <1>12, <2>3 DEF CreateSocial
    <3>2. doc \in Docs /\ doc.email = EmailOf[s] /\ doc.subjects = {s}
      BY <2>1 DEF NoUser, Docs, AccountsOK
    <3>3. doc # NoUser
      BY <3>2 DEF NoUser
    <3>4. Indexed => \A v \in UserIds : /\ users[v].email # doc.email
                                       /\ doc.subjects \cap users[v].subjects = {}
      BY <2>3, <3>2 DEF WithEmail, WithSubject
    <3> HIDE DEF doc
    <3> QED
      BY <2>1, <3>1, <3>2, <3>3, <3>4, MakeStep
  <2> QED
    BY <2>2, <2>3
<1>13. ASSUME NEW r \in Reqs, DeleteAccount(r) PROVE UsersInv'
  BY <1>13, DeleteStep
<1>14. CASE UNCHANGED <<users, gone, req>> /\ sessions' \in [Tokens -> 0..MaxUsers]
  <2>1. \A q \in Reqs : Placed(q)' = Placed(q)
    BY <1>14 DEF Placed, At, Present
  <2> QED
    BY <1>14, <2>1 DEF UsersInv, AccountsTyped
<1>15. ASSUME NEW st \in StateIds, ExpireState(st) PROVE UsersInv'
  BY <1>0, <1>14, <1>15 DEF ExpireState
<1>16. ASSUME NEW t \in Tokens, ExpireSession(t) PROVE UsersInv'
  BY <1>0, <1>14, <1>16 DEF ExpireSession
<1>17. CASE UNCHANGED accountVars
  BY <1>0, <1>14, <1>17 DEF accountVars
<1> QED
  BY <1>1, <1>2, <1>3, <1>4, <1>5, <1>6, <1>7, <1>8, <1>9, <1>10, <1>11, <1>12, <1>13, <1>15, <1>16,
     <1>17 DEF AccountsNext

\* A login state that may still be consumed has not been.
StatesInv ==
  /\ states \subseteq StateIds /\ stateUses \in [StateIds -> Nat]
  /\ \A st \in StateIds : stateUses[st] <= 1 /\ (st \in states => stateUses[st] = 0)

LEMMA StatesStart == AccountsInit => StatesInv
<1> SUFFICES ASSUME AccountsInit PROVE StatesInv
  OBVIOUS
<1>1. states = {} /\ stateUses = [st \in StateIds |-> 0]
  BY DEF AccountsInit
<1> QED
  BY <1>1 DEF StatesInv

LEMMA StatesStep ==
  ASSUME AccountsOK, StatesInv, [AccountsNext]_accountVars PROVE StatesInv'
<1>1. ASSUME NEW st \in states, states' = states \ {st}, stateUses' = [stateUses EXCEPT ![st] = @ + 1]
      PROVE  StatesInv'
  BY <1>1 DEF StatesInv
<1>2. CASE UNCHANGED <<states, stateUses>>
  BY <1>2 DEF StatesInv
<1>3. ASSUME NEW r \in Reqs, NEW service, CreateState(r, service) PROVE StatesInv'
  <2> DEFINE st == Unused(StatesFor(service), HandedOut)
  <2>1. Fresh(StatesFor(service), HandedOut) /\ states' = states \cup {st} /\ UNCHANGED stateUses
    BY <1>3 DEF CreateState
  <2>2. StatesFor(service) \in SUBSET Nat /\ StatesFor(service) \subseteq StateIds
    <3>1. StatesFor(service) \subseteq StateIds
      BY DEF StatesFor, AccountsOK
    <3>2. StateIds \subseteq Nat
      BY DEF StateIds, AccountsOK
    <3> QED
      BY <3>1, <3>2
  <2>3. st \in StatesFor(service) \ HandedOut
    BY <2>1, <2>2, UnusedIsFree
  <2>4. st \in StateIds /\ st \notin HandedOut
    BY <2>2, <2>3
  <2> HIDE DEF st
  <2>5. stateUses[st] = 0
    BY <2>4 DEF HandedOut, StatesInv
  <2> QED
    BY <2>1, <2>4, <2>5 DEF StatesInv
<1>4. ASSUME NEW r \in Reqs, ConsumeState(r) PROVE StatesInv'
  <2>1. CASE req[r].id \in states
    <3>1. \/ UNCHANGED <<states, stateUses>>
          \/ states' = states \ {req[r].id} /\ stateUses' = [stateUses EXCEPT ![req[r].id] = @ + 1]
      BY <1>4 DEF ConsumeState, Consumed
    <3> QED
      BY <1>1, <1>2, <2>1, <3>1
  <2>2. CASE req[r].id \notin states
    BY <1>2, <1>4, <2>2 DEF ConsumeState
  <2> QED
    BY <2>1, <2>2
<1>5. ASSUME NEW st \in StateIds, ExpireState(st) PROVE StatesInv'
  BY <1>1, <1>5 DEF ExpireState
<1>6. CASE ~(\/ \E r \in Reqs : StartGoogle(r) \/ StartGithub(r) \/ ConsumeState(r)
             \/ \E st \in StateIds : ExpireState(st))
  <2>1. ASSUME NEW r \in Reqs, NEW b \in Browsers, NEW op \in Ops, NEW x, NEW n, Arrive(r, b, op, x, n)
        PROVE  UNCHANGED <<states, stateUses>>
    BY <2>1 DEF Arrive
  <2>2. ASSUME NEW r \in Reqs,
               \/ Refuse(r) \/ ReadSession(r) \/ ReadUser(r) \/ Unauthenticated(r) \/ FindSignup(r)
               \/ InsertSignup(r) \/ VerifyPassword(r) \/ CreateSession(r) \/ Logout(r) \/ Exchange(r)
        PROVE  UNCHANGED <<states, stateUses>>
    BY <2>2 DEF Refuse, ReadSession, ReadUser, Unauthenticated, FindSignup, InsertSignup,
                VerifyPassword, CreateSession, Logout, Exchange
  <2>3. ASSUME NEW r \in Reqs,
               \/ FindSubject(r) \/ FindEmail(r) \/ Link(r) \/ CreateSocial(r) \/ FindAgain(r)
               \/ FindSite(r) \/ InsertSite(r) \/ RemoveSite(r) \/ CheckSite(r) \/ InsertEvent(r)
               \/ DeleteAccount(r)
        PROVE  UNCHANGED <<states, stateUses>>
    BY <2>3 DEF FindSubject, FindEmail, Link, CreateSocial, FindAgain, FindSite, InsertSite,
                RemoveSite, CheckSite, InsertEvent, DeleteAccount
  <2>4. ASSUME NEW t \in Tokens, ExpireSession(t) PROVE UNCHANGED <<states, stateUses>>
    BY <2>4 DEF ExpireSession
  <2> QED
    BY <1>2, <1>6, <2>1, <2>2, <2>3, <2>4 DEF AccountsNext, accountVars
<1> QED
  BY <1>3, <1>4, <1>5, <1>6 DEF StartGoogle, StartGithub

\* Where there are indexes, a site is saved once.
SitesInv ==
  /\ DOMAIN sites = SiteIds
  /\ Indexed => \A w, v \in SiteIds : sites[w] = sites[v] /\ sites[w] # NoSite => w = v

LEMMA SitesStart == AccountsInit => SitesInv
BY DEF AccountsInit, SitesInv

LEMMA SitesStep ==
  ASSUME AccountsOK, SitesInv, [AccountsNext]_accountVars PROVE SitesInv'
<1>1. CASE UNCHANGED sites
  BY <1>1 DEF SitesInv
<1>2. ASSUME NEW r \in Reqs, InsertSite(r) PROVE SitesInv'
  <2> DEFINE used == {w \in SiteIds : sites[w] # NoSite} \cup events
             k == Unused(SiteIds, used)
             new == [owner |-> req[r].user, host |-> req[r].arg]
  <2>1. CASE SiteTaken(req[r].user, req[r].arg)
    BY <1>1, <1>2, <2>1 DEF InsertSite
  <2>2. CASE ~SiteTaken(req[r].user, req[r].arg)
    <3>1. Fresh(SiteIds, used) /\ sites' = [sites EXCEPT ![k] = new]
      BY <1>2, <2>2 DEF InsertSite
    <3>2. SiteIds \in SUBSET Nat
      BY DEF SiteIds, AccountsOK
    <3>3. k \in SiteIds
      BY <3>1, <3>2, UnusedIsFree
    <3>4. Indexed => \A w \in SiteIds : sites[w] # new
      BY <2>2 DEF SiteTaken, SitesOf
    <3> HIDE DEF k, new
    <3> QED
      BY <3>1, <3>3, <3>4 DEF SitesInv
  <2> QED
    BY <2>1, <2>2
<1>3. ASSUME NEW r \in Reqs, RemoveSite(r) PROVE SitesInv'
  <2>1. CASE Owns(req[r].user, req[r].id)
    <3>1. sites' = [sites EXCEPT ![req[r].id] = NoSite]
      BY <1>3, <2>1 DEF RemoveSite
    <3> QED
      BY <3>1 DEF SitesInv
  <2>2. CASE ~Owns(req[r].user, req[r].id)
    BY <1>1, <1>3, <2>2 DEF RemoveSite
  <2> QED
    BY <2>1, <2>2
<1>4. ASSUME NEW r \in Reqs, DeleteAccount(r) PROVE SitesInv'
  <2>1. sites' = [w \in SiteIds |-> IF sites[w].owner = req[r].user THEN NoSite ELSE sites[w]]
    BY <1>4 DEF DeleteAccount
  <2> QED
    BY <2>1 DEF SitesInv
<1>5. CASE ~(\E r \in Reqs : InsertSite(r) \/ RemoveSite(r) \/ DeleteAccount(r))
  <2>1. ASSUME NEW r \in Reqs, NEW b \in Browsers, NEW op \in Ops, NEW x, NEW n, Arrive(r, b, op, x, n)
        PROVE  UNCHANGED sites
    BY <2>1 DEF Arrive
  <2>2. ASSUME NEW r \in Reqs,
               \/ Refuse(r) \/ ReadSession(r) \/ ReadUser(r) \/ Unauthenticated(r) \/ FindSignup(r)
               \/ InsertSignup(r) \/ VerifyPassword(r) \/ CreateSession(r) \/ Logout(r) \/ Exchange(r)
        PROVE  UNCHANGED sites
    BY <2>2 DEF Refuse, ReadSession, ReadUser, Unauthenticated, FindSignup, InsertSignup,
                VerifyPassword, CreateSession, Logout, Exchange
  <2>3. ASSUME NEW r \in Reqs,
               \/ StartGoogle(r) \/ StartGithub(r) \/ ConsumeState(r) \/ FindSubject(r) \/ FindEmail(r)
               \/ Link(r) \/ CreateSocial(r) \/ FindAgain(r) \/ FindSite(r) \/ CheckSite(r)
               \/ InsertEvent(r)
        PROVE  UNCHANGED sites
    BY <2>3 DEF StartGoogle, StartGithub, CreateState, ConsumeState, FindSubject, FindEmail, Link,
                CreateSocial, FindAgain, FindSite, CheckSite, InsertEvent
  <2>4. ASSUME NEW st \in StateIds, ExpireState(st) PROVE UNCHANGED sites
    BY <2>4 DEF ExpireState
  <2>5. ASSUME NEW t \in Tokens, ExpireSession(t) PROVE UNCHANGED sites
    BY <2>5 DEF ExpireSession
  <2> QED
    BY <1>1, <1>5, <2>1, <2>2, <2>3, <2>4, <2>5 DEF AccountsNext, accountVars
<1> QED
  BY <1>2, <1>3, <1>4, <1>5

\* Whatever requests race: none runs as an account that was deleted before it came, a
\* sign-in ends in the account of its subject, the indexes keep accounts and sites single,
\* and a login state signs in once.
THEOREM SignInsAreSafe ==
  ASSUME AccountsOK PROVE AccountsSpec => []AccountsHold
<1>1. UsersInv => DeletedStaysOut
  BY DEF UsersInv, Placed, DeletedStaysOut
<1>2. UsersInv /\ SitesInv => SignInsConverge
  <2> SUFFICES ASSUME UsersInv, SitesInv PROVE SignInsConverge
    OBVIOUS
  <2>1. ASSUME Indexed, NEW s \in Subjects PROVE Cardinality(WithSubject(s)) <= 1
    <3>1. \A u, v \in WithSubject(s) : u = v
      BY <2>1 DEF UsersInv, WithSubject
    <3> QED
      BY <3>1, AtMostOne
  <2>2. ASSUME Indexed, NEW e \in Emails PROVE Cardinality(WithEmail(e)) <= 1
    <3>1. \A u, v \in WithEmail(e) : u = v
      BY <2>2 DEF UsersInv, WithEmail
    <3> QED
      BY <3>1, AtMostOne
  <2> QED
    BY <2>1, <2>2 DEF UsersInv, SitesInv, Placed, SignInsConverge
<1>3. StatesInv => StateUsedOnce
  BY DEF StatesInv, StateUsedOnce
<1>4. AccountsSpec => []UsersInv
  BY UsersStart, UsersStep, PTL DEF AccountsSpec
<1>5. AccountsSpec => []StatesInv
  BY StatesStart, StatesStep, PTL DEF AccountsSpec
<1>6. AccountsSpec => []SitesInv
  BY SitesStart, SitesStep, PTL DEF AccountsSpec
<1>7. DeletedStaysOut /\ SignInsConverge /\ StateUsedOnce => AccountsHold
  BY DEF AccountsHold
<1> QED
  BY <1>1, <1>2, <1>3, <1>4, <1>5, <1>6, <1>7, PTL

-----------------------------------------------------------------------------
(***************************************************************************)
(* The connection to Google                                                *)
(***************************************************************************)
CallFields == {"op", "at", "on", "arg", "state", "doc"}
DocFields == {"id", "access", "refresh", "fresh", "active", "property"}

CallsTyped ==
  /\ call = [c \in Calls |-> call[c]]
  /\ \A c \in Calls : DOMAIN call[c] = CallFields /\ (call[c].at # "idle" => call[c].on \in Instances)

\* A request goes on, or ends, and the others stay where they are.
OthersWait(c) ==
  /\ call' = [q \in Calls |-> call'[q]] /\ DOMAIN call'[c] = CallFields
  /\ \A q \in Calls \ {c} : call'[q] = call[q]
Proceeds(c, at, doc) ==
  /\ OthersWait(c) /\ call'[c].at = at /\ call'[c].doc = doc
  /\ call'[c].op = call[c].op /\ call'[c].on = call[c].on

LEMMA MoveProceeds ==
  ASSUME CallsTyped, NEW c \in Calls, NEW at, Move(c, at) PROVE Proceeds(c, at, call[c].doc)
BY DEF CallsTyped, Move, Proceeds, OthersWait, CallFields

LEMMA EndWaits ==
  ASSUME CallsTyped, NEW c \in Calls, End(c) PROVE OthersWait(c) /\ call'[c] = NoCall
<1>1. DOMAIN NoCall = CallFields
  BY DEF NoCall, CallFields
<1>2. call' = [call EXCEPT ![c] = NoCall]
  BY DEF End
<1> QED
  BY <1>1, <1>2 DEF CallsTyped, OthersWait

\* A load, and who waits for it.
Loading(c, i) ==
  call[c].op = "intelligence" /\ call[c].on = i /\ call[c].at \in {"open", "refresh", "query"}
Waiting(c, i) == Is(c, "intelligence", "joined") /\ call[c].on = i

\* The entry of an instance names the call that loads there, while it loads.
LoadsInv ==
  /\ CallsTyped /\ flight \in [Instances -> Calls \cup {Absent}]
  /\ \A i \in Instances, c \in Calls :
       (Loading(c, i) <=> flight[i] = c) /\ (Waiting(c, i) => flight[i] # Absent)

LEMMA LoadsStart == ASSUME GoogleOK, GoogleInit PROVE LoadsInv
<1>1. NoCall.at = "idle" /\ NoCall.op = "none" /\ DOMAIN NoCall = CallFields
  BY DEF NoCall, CallFields
<1>2. call = [c \in Calls |-> NoCall] /\ flight = [i \in Instances |-> Absent]
  BY DEF GoogleInit
<1> QED
  BY <1>1, <1>2 DEF LoadsInv, CallsTyped, Loading, Waiting, Is, GoogleOK

\* A step of a request that leaves the entries alone.
LEMMA EntriesStand ==
  ASSUME GoogleOK, LoadsInv, UNCHANGED flight, NEW c \in Calls, OthersWait(c),
         call'[c].at # "idle" => call'[c].on \in Instances,
         \A i \in Instances : Loading(c, i)' <=> Loading(c, i),
         \A i \in Instances : Waiting(c, i)' => flight[i] # Absent
  PROVE  LoadsInv'
<1>1. \A q \in Calls \ {c}, i \in Instances :
        (Loading(q, i)' <=> Loading(q, i)) /\ (Waiting(q, i)' <=> Waiting(q, i))
  BY DEF OthersWait, Loading, Waiting, Is
<1>2. CallsTyped'
  BY DEF LoadsInv, CallsTyped, OthersWait
<1> QED
  BY <1>1, <1>2 DEF LoadsInv

LEMMA EndStands ==
  ASSUME GoogleOK, LoadsInv, UNCHANGED flight, NEW c \in Calls, End(c),
         \A i \in Instances : ~Loading(c, i)
  PROVE  LoadsInv'
<1>1. OthersWait(c) /\ call'[c] = NoCall
  BY EndWaits DEF LoadsInv
<1>2. NoCall.at = "idle"
  BY DEF NoCall
<1> QED
  BY <1>1, <1>2, EntriesStand DEF Loading, Waiting, Is

LEMMA MoveStands ==
  ASSUME GoogleOK, LoadsInv, UNCHANGED flight, NEW c \in Calls, NEW at, Move(c, at),
         call[c].op # "intelligence", call[c].at # "idle"
  PROVE  LoadsInv'
<1>1. Proceeds(c, at, call[c].doc)
  BY MoveProceeds DEF LoadsInv
<1> QED
  BY <1>1, EntriesStand DEF Proceeds, Loading, Waiting, Is, LoadsInv, CallsTyped

\* The end of a load takes its own entry, and everyone who waits for it.
LEMMA EndLoadKeeps ==
  ASSUME GoogleOK, LoadsInv, NEW c \in Calls, call[c].at \in {"open", "refresh", "query"}, EndLoad(c)
  PROVE  LoadsInv'
<1> DEFINE i == call[c].on
<1>1. i \in Instances /\ NoCall.at = "idle" /\ DOMAIN NoCall = CallFields
  BY DEF LoadsInv, CallsTyped, NoCall, CallFields
<1>2. /\ flight' = IF flight[i] = c THEN [flight EXCEPT ![i] = Absent] ELSE flight
      /\ call' = [j \in Calls |-> IF j = c \/ (flight[i] = c /\ Waiting(j, i)) THEN NoCall ELSE call[j]]
  BY DEF EndLoad, Landed, Joined, Waiting
<1>3. flight[i] = c <=> call[c].op = "intelligence"
  BY <1>1 DEF LoadsInv, Loading
<1> HIDE DEF i
<1>4. CallsTyped'
  BY <1>1, <1>2 DEF LoadsInv, CallsTyped
<1>5. flight' \in [Instances -> Calls \cup {Absent}]
  BY <1>1, <1>2 DEF LoadsInv
<1>6. ASSUME NEW k \in Instances, NEW q \in Calls
      PROVE  (Loading(q, k)' <=> flight'[k] = q) /\ (Waiting(q, k)' => flight'[k] # Absent)
  <2>1. (Loading(q, k) <=> flight[k] = q) /\ (Waiting(q, k) => flight[k] # Absent) /\ q # Absent
    BY DEF LoadsInv, GoogleOK
  <2>2. CASE flight[i] = c
    <3>1. flight' = [flight EXCEPT ![i] = Absent]
      BY <1>2, <2>2
    <3>2. CASE q = c \/ Waiting(q, i)
      <4>1. call'[q] = NoCall
        BY <1>2, <2>2, <3>2
      <4>2. ~Loading(q, k)' /\ ~Waiting(q, k)'
        BY <1>1, <4>1 DEF Loading, Waiting, Is
      <4>3. flight'[k] # q
        <5>1. CASE k = i
          BY <1>1, <2>1, <3>1, <5>1 DEF LoadsInv
        <5>2. CASE k # i
          <6>1. ~Loading(q, k)
            BY <1>3, <2>2, <3>2, <5>2 DEF Loading, Waiting, Is, i
          <6> QED
            BY <1>1, <2>1, <3>1, <5>2, <6>1 DEF LoadsInv
        <5> QED
          BY <5>1, <5>2
      <4> QED
        BY <4>2, <4>3
    <3>3. CASE q # c /\ ~Waiting(q, i)
      <4>1. call'[q] = call[q]
        BY <1>2, <3>3
      <4>2. (Loading(q, k)' <=> Loading(q, k)) /\ (Waiting(q, k)' <=> Waiting(q, k))
        BY <4>1 DEF Loading, Waiting, Is
      <4>3. CASE k = i
        BY <1>1, <2>1, <2>2, <3>1, <3>3, <4>2, <4>3 DEF LoadsInv
      <4>4. CASE k # i
        BY <1>1, <2>1, <3>1, <4>2, <4>4 DEF LoadsInv
      <4> QED
        BY <4>3, <4>4
    <3> QED
      BY <3>2, <3>3
  <2>3. CASE flight[i] # c
    <3>1. flight' = flight /\ call'[q] = IF q = c THEN NoCall ELSE call[q]
      BY <1>2, <2>3
    <3>2. CASE q = c
      <4>1. ~Loading(q, k)' /\ ~Waiting(q, k)' /\ ~Loading(q, k)
        BY <1>1, <1>3, <2>3, <3>1, <3>2 DEF Loading, Waiting, Is
      <4> QED
        BY <2>1, <3>1, <4>1
    <3>3. CASE q # c
      <4>1. (Loading(q, k)' <=> Loading(q, k)) /\ (Waiting(q, k)' <=> Waiting(q, k))
        BY <3>1, <3>3 DEF Loading, Waiting, Is
      <4> QED
        BY <2>1, <3>1, <4>1
    <3> QED
      BY <3>2, <3>3
  <2> QED
    BY <2>2, <2>3
<1> QED
  BY <1>4, <1>5, <1>6 DEF LoadsInv

\* A step of a request that is before, in or after the same load as it was.
LEMMA ProceedStands ==
  ASSUME GoogleOK, LoadsInv, UNCHANGED flight, NEW c \in Calls, NEW at, NEW doc, Proceeds(c, at, doc),
         call[c].at # "idle",
         \A i \in Instances : Loading(c, i)' <=> Loading(c, i),
         \A i \in Instances : Waiting(c, i)' => flight[i] # Absent
  PROVE  LoadsInv'
<1>1. call'[c].on \in Instances
  BY DEF LoadsInv, CallsTyped, Proceeds
<1> QED
  BY <1>1, EntriesStand DEF Proceeds

LEMMA LoadsStep ==
  ASSUME GoogleOK, LoadsInv, [GoogleNext]_googleVars PROVE LoadsInv'
<1> USE DEF reading, connection, journey
<1>1. ASSUME NEW c \in Calls, NEW op \in GoogleOps, NEW i \in Instances, NEW x, Begin(c, op, i, x)
      PROVE  LoadsInv'
  <2>1. call'[c].on = i /\ DOMAIN call'[c] = CallFields /\ call'[c].op = op
        /\ call'[c].at \in {"cache", "open", "run"}
        /\ (op = "intelligence" => call'[c].at = "cache")
    BY <1>1 DEF Begin, LoadsInv, CallsTyped, CallFields, KeptReports
  <2>2. OthersWait(c)
    BY <1>1, <2>1 DEF Begin, LoadsInv, CallsTyped, OthersWait
  <2>3. call[c].at = "idle"
    BY <1>1 DEF Begin, NoCall
  <2>4. UNCHANGED flight
    BY <1>1 DEF Begin
  <2> QED
    BY <2>1, <2>2, <2>3, <2>4, EntriesStand DEF Loading, Waiting, Is
<1>2. ASSUME NEW c \in Calls, Connect(c) PROVE LoadsInv'
  <2>1. call[c].op = "connect" /\ call[c].at = "run" /\ UNCHANGED flight
    BY <1>2 DEF Connect, Is
  <2>2. CASE Move(c, "store")
    BY <2>1, <2>2, MoveStands
  <2>3. CASE End(c)
    BY <2>1, <2>3, EndStands DEF Loading
  <2> QED
    BY <1>2, <2>2, <2>3 DEF Connect
<1>3. ASSUME NEW c \in Calls, StoreState(c) PROVE LoadsInv'
  BY <1>3, EndStands DEF StoreState, Is, Loading
<1>4. ASSUME NEW c \in Calls, ConsumeAuthorization(c) PROVE LoadsInv'
  <2>1. call[c].op = "callback" /\ call[c].at = "run" /\ UNCHANGED flight
    BY <1>4 DEF ConsumeAuthorization, Is
  <2>2. CASE Move(c, "website")
    BY <2>1, <2>2, MoveStands
  <2>3. CASE End(c)
    BY <2>1, <2>3, EndStands DEF Loading
  <2> QED
    BY <1>4, <2>2, <2>3 DEF ConsumeAuthorization
<1>5. ASSUME NEW c \in Calls, CheckWebsite(c) PROVE LoadsInv'
  <2>1. call[c].op = "callback" /\ call[c].at = "website" /\ UNCHANGED flight
    BY <1>5 DEF CheckWebsite, Is
  <2>2. CASE Move(c, "save")
    BY <2>1, <2>2, MoveStands
  <2>3. CASE End(c)
    BY <2>1, <2>3, EndStands DEF Loading
  <2> QED
    BY <1>5, <2>2, <2>3 DEF CheckWebsite
<1>6. ASSUME NEW c \in Calls, SaveTokens(c) \/ SelectProperty(c) \/ Disconnect(c) PROVE LoadsInv'
  <2>1. call[c].op # "intelligence" /\ UNCHANGED flight /\ End(c)
    BY <1>6 DEF SaveTokens, SelectProperty, Disconnect, Is
  <2> QED
    BY <2>1, EndStands DEF Loading
<1>7. ASSUME NEW c \in Calls, AnswerFromCache(c) PROVE LoadsInv'
  BY <1>7, EndStands DEF AnswerFromCache, Loading
<1>8. ASSUME NEW c \in Calls, JoinLoad(c) PROVE LoadsInv'
  <2>1. Proceeds(c, "joined", call[c].doc) /\ UNCHANGED flight /\ call[c].at = "cache"
    BY <1>8, MoveProceeds DEF JoinLoad, LoadsInv
  <2>2. flight[call[c].on] # Absent
    BY <1>8 DEF JoinLoad, Flying
  <2>3. \A i \in Instances : Loading(c, i)' <=> Loading(c, i)
    BY <2>1 DEF Proceeds, Loading
  <2>4. \A i \in Instances : Waiting(c, i)' => flight[i] # Absent
    BY <2>1, <2>2 DEF Proceeds, Waiting, Is
  <2> QED
    BY <2>1, <2>3, <2>4, ProceedStands
<1>9. ASSUME NEW c \in Calls, StartLoad(c) PROVE LoadsInv'
  <2>1. Proceeds(c, "open", call[c].doc) /\ call[c].at = "cache" /\ call[c].on \in Instances
    BY <1>9, MoveProceeds DEF StartLoad, LoadsInv, CallsTyped
  <2>2. CASE call[c].op # "intelligence"
    <3>1. UNCHANGED flight
      BY <1>9, <2>2 DEF StartLoad
    <3>2. \A i \in Instances : (Loading(c, i)' <=> Loading(c, i)) /\ ~Waiting(c, i)'
      BY <2>1, <2>2 DEF Proceeds, Loading, Waiting, Is
    <3> QED
      BY <2>1, <3>1, <3>2, ProceedStands
  <2>3. CASE call[c].op = "intelligence"
    <3>1. flight' = [flight EXCEPT ![call[c].on] = c] /\ flight[call[c].on] = Absent
      BY <1>9, <2>3 DEF StartLoad, Flying
    <3>2. CallsTyped'
      BY <2>1 DEF LoadsInv, CallsTyped, Proceeds, OthersWait
    <3>3. \A q \in Calls \ {c}, i \in Instances :
            (Loading(q, i)' <=> Loading(q, i)) /\ (Waiting(q, i)' <=> Waiting(q, i))
      BY <2>1 DEF Proceeds, OthersWait, Loading, Waiting, Is
    <3>4. \A i \in Instances : (Loading(c, i)' <=> i = call[c].on) /\ ~Waiting(c, i)' /\ ~Loading(c, i)
      BY <2>1, <2>3 DEF Proceeds, Loading, Waiting, Is
    <3>5. \A i \in Instances : flight'[i] = IF i = call[c].on THEN c ELSE flight[i]
      BY <2>1, <3>1 DEF LoadsInv
    <3>6. flight' \in [Instances -> Calls \cup {Absent}]
      BY <2>1, <3>1 DEF LoadsInv
    <3>7. \A q \in Calls, i \in Instances :
            (Loading(q, i)' <=> flight'[i] = q) /\ (Waiting(q, i)' => flight'[i] # Absent)
      BY <2>1, <3>1, <3>3, <3>4, <3>5 DEF LoadsInv, GoogleOK
    <3> QED
      BY <3>2, <3>6, <3>7 DEF LoadsInv
  <2> QED
    BY <2>2, <2>3
<1>10. ASSUME NEW c \in Calls, OpenIntegration(c) PROVE LoadsInv'
  <2>1. CASE EndLoad(c)
    BY <1>10, <2>1, EndLoadKeeps DEF OpenIntegration
  <2>2. CASE /\ call' = [call EXCEPT ![c].doc = integ, ![c].at = IF integ.fresh THEN "query" ELSE "refresh"]
             /\ UNCHANGED flight
    <3> DEFINE at == IF integ.fresh THEN "query" ELSE "refresh"
    <3>1. at \in {"query", "refresh"}
      OBVIOUS
    <3>2. call' = [call EXCEPT ![c].doc = integ, ![c].at = at]
      BY <2>2
    <3> HIDE DEF at
    <3>3. Proceeds(c, at, integ)
      BY <3>2 DEF Proceeds, OthersWait, LoadsInv, CallsTyped, CallFields
    <3>4. call[c].at = "open"
      BY <1>10 DEF OpenIntegration
    <3>5. \A i \in Instances : (Loading(c, i)' <=> Loading(c, i)) /\ ~Waiting(c, i)'
      BY <3>1, <3>3, <3>4 DEF Proceeds, Loading, Waiting, Is
    <3> QED
      BY <2>2, <3>3, <3>4, <3>5, ProceedStands
  <2> QED
    BY <1>10, <2>1, <2>2 DEF OpenIntegration
<1>11. ASSUME NEW c \in Calls, Refresh(c) PROVE LoadsInv'
  <2>1. call[c].at = "refresh" /\ ((Move(c, "query") /\ UNCHANGED flight) \/ EndLoad(c))
    BY <1>11 DEF Refresh
  <2>2. CASE EndLoad(c)
    BY <2>1, <2>2, EndLoadKeeps
  <2>3. CASE Move(c, "query") /\ UNCHANGED flight
    <3>1. Proceeds(c, "query", call[c].doc)
      BY <2>3, MoveProceeds DEF LoadsInv
    <3>2. \A i \in Instances : (Loading(c, i)' <=> Loading(c, i)) /\ ~Waiting(c, i)'
      BY <2>1, <3>1 DEF Proceeds, Loading, Waiting, Is
    <3> QED
      BY <2>1, <2>3, <3>1, <3>2, ProceedStands
  <2> QED
    BY <2>1, <2>2, <2>3
<1>12. ASSUME NEW c \in Calls, Query(c) PROVE LoadsInv'
  BY <1>12, EndLoadKeeps DEF Query
<1>13. ASSUME UNCHANGED <<flight, call>> PROVE LoadsInv'
  BY <1>13 DEF LoadsInv, CallsTyped, Loading, Waiting, Is
<1> QED
  BY <1>1, <1>2, <1>3, <1>4, <1>5, <1>6, <1>7, <1>8, <1>9, <1>10, <1>11, <1>12, <1>13
     DEF GoogleNext, DeleteWebsite, TokenExpires, Tick, googleVars

\* The tokens a document holds, and a document as the code may have it in hand: none, or
\* one whose tokens are of accounts connected to it.
Held(d) == {d.access, d.refresh} \ {Absent}
Fits(d, k) ==
  /\ DOMAIN d = DocFields
  /\ d # NoDoc => d.id \in DocIds /\ Held(d) \subseteq k[d.id]
Grows(k, l) == \A d \in DocIds : k[d] \subseteq l[d]

TokensInv ==
  /\ CallsTyped /\ docs \in Nat /\ connected = [d \in DocIds |-> connected[d]]
  /\ Fits(integ, connected) /\ \A c \in Calls : Fits(call[c].doc, connected)

\* What a request has in hand is what it had, nothing, or the document as it is.
InHand == \A c \in Calls : call'[c].doc \in {call[c].doc, NoDoc, integ}

LEMMA NoDocFits == ASSUME NEW k PROVE Fits(NoDoc, k) /\ DOMAIN NoDoc = DocFields /\ NoDoc.id = 0
BY DEF Fits, NoDoc, DocFields

LEMMA StillFits ==
  ASSUME NEW k, NEW l, Grows(k, l), NEW d, Fits(d, k) PROVE Fits(d, l)
BY DEF Fits, Grows

LEMMA TokensStart == ASSUME GoogleOK, GoogleInit PROVE TokensInv
<1>1. CallsTyped /\ \A c \in Calls : call[c].doc = NoDoc
  BY DEF GoogleInit, CallsTyped, NoCall, CallFields
<1>2. 1 \in DocIds
  BY DEF GoogleOK, DocIds
<1>3. CASE integ = NoDoc /\ docs = 0 /\ connected = [d \in DocIds |-> {}]
  BY <1>1, <1>3, NoDocFits DEF TokensInv
<1>4. ASSUME NEW a \in Accounts, integ = Saved([NoDoc EXCEPT !.id = 1], a, TRUE), docs = 1,
             connected = [d \in DocIds |-> IF d = 1 THEN {a} ELSE {}]
      PROVE  TokensInv
  <2>1. DOMAIN integ = DocFields /\ integ.id = 1 /\ integ.access = a /\ integ.refresh = a
    BY <1>4 DEF Saved, NoDoc, DocFields
  <2>2. connected[1] = {a}
    BY <1>2, <1>4
  <2>3. Fits(integ, connected)
    BY <1>2, <2>1, <2>2 DEF Fits, Held
  <2>4. connected = [d \in DocIds |-> connected[d]] /\ docs \in Nat
    BY <1>4
  <2> QED
    BY <1>1, <2>3, <2>4, NoDocFits DEF TokensInv
<1> QED
  BY <1>3, <1>4 DEF GoogleInit

\* A step that saves no tokens.
LEMMA HandsFit ==
  ASSUME TokensInv, CallsTyped', UNCHANGED <<docs, connected>>, InHand, Fits(integ', connected)
  PROVE  TokensInv'
<1>1. \A c \in Calls : Fits(call'[c].doc, connected)
  BY NoDocFits DEF TokensInv, InHand
<1>2. connected' = connected /\ docs' = docs
  OBVIOUS
<1> QED
  BY <1>1, <1>2 DEF TokensInv

LEMMA EndHands ==
  ASSUME CallsTyped, NEW c \in Calls, End(c) PROVE InHand
<1>1. OthersWait(c) /\ call'[c] = NoCall
  BY EndWaits
<1> QED
  BY <1>1 DEF InHand, OthersWait, NoCall

LEMMA MoveHands ==
  ASSUME CallsTyped, NEW c \in Calls, NEW at, Move(c, at) PROVE InHand
<1>1. Proceeds(c, at, call[c].doc)
  BY MoveProceeds
<1> QED
  BY <1>1 DEF InHand, OthersWait, Proceeds

LEMMA EndLoadHands ==
  ASSUME CallsTyped, NEW c \in Calls, EndLoad(c) PROVE InHand
<1>1. \A j \in Calls : call'[j] \in {NoCall, call[j]}
  BY DEF EndLoad
<1> QED
  BY <1>1 DEF InHand, NoCall

\* A refreshed token is of the account whose refresh token was read, which the document
\* it is written into by id was connected to as well.
LEMMA RefreshFits ==
  ASSUME TokensInv, NEW c \in Calls, Refresh(c) PROVE Fits(integ', connected)
<1> DEFINE d == call[c].doc
<1>1. Fits(d, connected) /\ Fits(integ, connected)
  BY DEF TokensInv
<1>2. \/ integ' = IF SameDoc(d)
                  THEN [integ EXCEPT !.access = d.refresh, !.fresh = TRUE, !.active = TRUE]
                  ELSE integ
      \/ integ' = IF SameDoc(d) THEN [integ EXCEPT !.active = FALSE] ELSE integ
  BY DEF Refresh
<1> HIDE DEF d
<1>3. CASE ~SameDoc(d)
  BY <1>1, <1>2, <1>3
<1>4. CASE SameDoc(d)
  <2>1. integ # NoDoc /\ integ.id = d.id /\ integ.id \in DocIds /\ DOMAIN integ = DocFields
        /\ Held(integ) \subseteq connected[integ.id]
    BY <1>1, <1>4 DEF SameDoc, Fits
  <2>2. d # NoDoc
    BY <2>1, NoDocFits DEF DocIds
  <2>3. Held(d) \subseteq connected[integ.id]
    BY <1>1, <2>1, <2>2 DEF Fits
  <2>4. integ'.id = integ.id /\ DOMAIN integ' = DocFields /\ integ'.refresh = integ.refresh
        /\ integ'.access \in {integ.access, d.refresh}
    BY <1>2, <1>4, <2>1 DEF DocFields
  <2> QED
    BY <2>1, <2>3, <2>4 DEF Fits, Held
<1> QED
  BY <1>3, <1>4

LEMMA SaveFits ==
  ASSUME TokensInv, NEW c \in Calls, SaveTokens(c), CallsTyped' PROVE TokensInv'
<1>1. InHand
  BY EndHands DEF SaveTokens, TokensInv
<1>2. CASE UNCHANGED connection
  BY <1>1, <1>2, HandsFit DEF connection, TokensInv
<1>3. ASSUME NEW id, NEW renewed \in BOOLEAN, id = IF integ = NoDoc THEN docs + 1 ELSE integ.id,
             id <= MaxDocs, docs' = IF integ = NoDoc THEN docs + 1 ELSE docs,
             integ' = Saved([integ EXCEPT !.id = id], call[c].arg, renewed),
             connected' = [connected EXCEPT ![id] = @ \cup {call[c].arg}]
      PROVE  TokensInv'
  <2>1. id \in DocIds /\ docs' \in Nat
    BY <1>3 DEF TokensInv, Fits, DocIds
  <2>2. connected' = [d \in DocIds |-> connected'[d]] /\ connected'[id] = connected[id] \cup {call[c].arg}
    BY <1>3, <2>1 DEF TokensInv
  <2>3. Grows(connected, connected')
    BY <1>3, <2>1 DEF TokensInv, Grows
  <2>4. \A q \in Calls : Fits(call[q].doc, connected') /\ Fits(integ, connected')
    BY <2>3, StillFits DEF TokensInv
  <2>5. \A q \in Calls : Fits(call'[q].doc, connected')
    BY <1>1, <2>4, NoDocFits DEF InHand
  <2>6. DOMAIN integ = DocFields /\ Held(integ) \subseteq connected'[id]
    <3>1. CASE integ = NoDoc
      BY <3>1, NoDocFits DEF Held, NoDoc
    <3>2. CASE integ # NoDoc
      BY <1>3, <2>4, <3>2 DEF Fits
    <3> QED
      BY <2>4, <3>1, <3>2 DEF TokensInv, Fits
  <2>7. DOMAIN integ' = DocFields /\ integ'.id = id /\ integ'.access = call[c].arg
        /\ integ'.refresh \in {call[c].arg, integ.refresh}
    BY <1>3, <2>6 DEF Saved, DocFields
  <2>8. Fits(integ', connected')
    BY <2>1, <2>2, <2>6, <2>7 DEF Fits, Held
  <2> QED
    BY <2>1, <2>2, <2>5, <2>8 DEF TokensInv
<1> QED
  BY <1>2, <1>3 DEF SaveTokens

LEMMA TokensStep ==
  ASSUME GoogleOK, TokensInv, CallsTyped', [GoogleNext]_googleVars PROVE TokensInv'
<1> USE DEF reading, connection, journey
<1>1. ASSUME NEW c \in Calls, NEW op \in GoogleOps, NEW i \in Instances, NEW x, Begin(c, op, i, x)
      PROVE  TokensInv'
  <2>1. \A q \in Calls : call'[q].doc \in {call[q].doc, NoDoc}
    BY <1>1 DEF Begin, TokensInv, CallsTyped
  <2> QED
    BY <1>1, <2>1, HandsFit DEF Begin, InHand, TokensInv
<1>2. ASSUME NEW c \in Calls,
             Connect(c) \/ StoreState(c) \/ ConsumeAuthorization(c) \/ CheckWebsite(c)
               \/ AnswerFromCache(c) \/ JoinLoad(c) \/ StartLoad(c) \/ Query(c)
      PROVE  TokensInv'
  <2>1. UNCHANGED connection
    BY <1>2 DEF Connect, StoreState, ConsumeAuthorization, CheckWebsite, AnswerFromCache, JoinLoad,
                StartLoad, Query
  <2>2. End(c) \/ Move(c, "store") \/ Move(c, "website") \/ Move(c, "save") \/ Move(c, "joined")
        \/ Move(c, "open") \/ EndLoad(c)
    BY <1>2 DEF Connect, StoreState, ConsumeAuthorization, CheckWebsite, AnswerFromCache, JoinLoad,
                StartLoad, Query
  <2>3. InHand
    BY <2>2, EndHands, MoveHands, EndLoadHands DEF TokensInv
  <2> QED
    BY <2>1, <2>3, HandsFit DEF TokensInv
<1>3. ASSUME NEW c \in Calls, SaveTokens(c) PROVE TokensInv'
  BY <1>3, SaveFits
<1>4. ASSUME NEW c \in Calls, SelectProperty(c) PROVE TokensInv'
  <2>1. InHand
    BY <1>4, EndHands DEF SelectProperty, TokensInv
  <2>2. CASE ~integ.active
    BY <1>4, <2>1, <2>2, HandsFit DEF SelectProperty, TokensInv
  <2>3. CASE integ.active
    <3>1. integ' = [integ EXCEPT !.property = call[c].arg] /\ DOMAIN integ = DocFields
      BY <1>4, <2>3 DEF SelectProperty, TokensInv, Fits
    <3>2. integ # NoDoc
      BY <2>3 DEF NoDoc
    <3>3. DOMAIN integ' = DocFields /\ integ'.id = integ.id /\ Held(integ') = Held(integ)
      BY <3>1 DEF DocFields, Held
    <3>4. Fits(integ', connected)
      BY <3>2, <3>3 DEF TokensInv, Fits
    <3> QED
      BY <1>4, <2>1, <3>4, HandsFit DEF SelectProperty
  <2> QED
    BY <2>2, <2>3
<1>5. ASSUME NEW c \in Calls, Disconnect(c) PROVE TokensInv'
  <2>1. InHand /\ integ' \in {integ, NoDoc}
    BY <1>5, EndHands DEF Disconnect, TokensInv
  <2> QED
    BY <1>5, <2>1, NoDocFits, HandsFit DEF Disconnect, TokensInv
<1>6. ASSUME NEW c \in Calls, OpenIntegration(c) PROVE TokensInv'
  <2>1. InHand
    <3>1. CASE EndLoad(c)
      BY <3>1, EndLoadHands DEF TokensInv
    <3>2. CASE call' = [call EXCEPT ![c].doc = integ,
                                    ![c].at = IF integ.fresh THEN "query" ELSE "refresh"]
      BY <3>2 DEF InHand, TokensInv, CallsTyped, CallFields
    <3> QED
      BY <1>6, <3>1, <3>2 DEF OpenIntegration
  <2> QED
    BY <1>6, <2>1, HandsFit DEF OpenIntegration, TokensInv
<1>7. ASSUME NEW c \in Calls, Refresh(c) PROVE TokensInv'
  <2>1. EndLoad(c) \/ Move(c, "query")
    BY <1>7 DEF Refresh
  <2>2. InHand
    BY <2>1, EndLoadHands, MoveHands DEF TokensInv
  <2>3. Fits(integ', connected)
    BY <1>7, RefreshFits
  <2> QED
    BY <1>7, <2>2, <2>3, HandsFit DEF Refresh
<1>8. CASE DeleteWebsite
  BY <1>8, NoDocFits, HandsFit DEF DeleteWebsite, InHand
<1>9. CASE TokenExpires
  <2>1. integ' = [integ EXCEPT !.fresh = FALSE] /\ DOMAIN integ = DocFields /\ integ.fresh
    BY <1>9 DEF TokenExpires, TokensInv, Fits
  <2>2. integ # NoDoc
    BY <2>1 DEF NoDoc
  <2>3. DOMAIN integ' = DocFields /\ integ'.id = integ.id /\ Held(integ') = Held(integ)
    BY <2>1 DEF DocFields, Held
  <2>4. Fits(integ', connected)
    BY <2>2, <2>3 DEF TokensInv, Fits
  <2> QED
    BY <1>9, <2>4, HandsFit DEF TokenExpires, InHand
<1>10. ASSUME UNCHANGED <<integ, docs, connected, call>> PROVE TokensInv'
  BY <1>10, HandsFit DEF TokensInv, InHand
<1> QED
  BY <1>1, <1>2, <1>3, <1>4, <1>5, <1>6, <1>7, <1>8, <1>9, <1>10 DEF GoogleNext, Tick, googleVars

\* Whatever authorizations, disconnects, deletions and refreshes race: the tokens of a
\* connection are of accounts connected to it, an instance loads the intelligence report
\* once at a time, and whoever waits for a load waits for one that is under way.
THEOREM ConnectionsAreOwn ==
  ASSUME GoogleOK PROVE GoogleSpec => []IntegrationsHold
<1>1. GoogleSpec => []LoadsInv
  BY LoadsStart, LoadsStep, PTL DEF GoogleSpec
<1>2. ASSUME LoadsInv, LoadsInv', TokensInv, [GoogleNext]_googleVars PROVE TokensInv'
  BY <1>2, TokensStep DEF LoadsInv
<1>3. GoogleSpec => []TokensInv
  BY <1>1, <1>2, TokensStart, PTL DEF GoogleSpec
<1>4. TokensInv => TokensOfOwnConnections
  BY DEF TokensInv, Fits, Held, TokensOfOwnConnections
<1>5. ASSUME LoadsInv PROVE OneLoadAtATime
  <2> SUFFICES ASSUME NEW i \in Instances
               PROVE  /\ Cardinality({c \in Calls : Loading(c, i)}) <= 1
                      /\ {c \in Calls : Waiting(c, i)} # {} => {c \in Calls : Loading(c, i)} # {}
    BY DEF OneLoadAtATime, Loading, Waiting
  <2>1. \A u, v \in {c \in Calls : Loading(c, i)} : u = v
    BY <1>5 DEF LoadsInv
  <2>2. flight[i] # Absent => flight[i] \in {c \in Calls : Loading(c, i)}
    BY <1>5 DEF LoadsInv
  <2> QED
    BY <1>5, <2>1, <2>2, AtMostOne DEF LoadsInv
<1>6. TokensOfOwnConnections /\ OneLoadAtATime => IntegrationsHold
  BY DEF IntegrationsHold
<1> QED
  BY <1>1, <1>3, <1>4, <1>5, <1>6, PTL

-----------------------------------------------------------------------------
(***************************************************************************)
(* The checks of the API                                                   *)
(***************************************************************************)
SlotFields == {"at", "user", "role", "token", "kind", "step", "status", "owned"}
SlotsTyped == slot = [s \in Slots |-> slot[s]] /\ \A s \in Slots : DOMAIN slot[s] = SlotFields

\* A step of one request.
OthersStay(s) ==
  /\ slot' = [q \in Slots |-> slot'[q]] /\ DOMAIN slot'[s] = SlotFields
  /\ \A q \in Slots \ {s} : slot'[q] = slot[q]
Asks(s) == slot'[s].role = slot[s].role /\ slot'[s].kind = slot[s].kind

LEMMA GoesOn ==
  ASSUME SlotsTyped, NEW s \in Slots, NEW at, Goes(s, at)
  PROVE  /\ OthersStay(s) /\ slot'[s].at = at /\ slot'[s].step = slot[s].step
         /\ slot'[s].status = slot[s].status
BY DEF SlotsTyped, Goes, OthersStay, SlotFields

LEMMA RepliesWith ==
  ASSUME SlotsTyped, NEW s \in Slots, NEW status, Replies(s, status)
  PROVE  /\ OthersStay(s) /\ slot'[s].at = "answer" /\ slot'[s].step = slot[s].step
         /\ slot'[s].status = status /\ slot'[s].user = slot[s].user
         /\ slot'[s].role = slot[s].role /\ slot'[s].kind = slot[s].kind
         /\ slot'[s].owned = slot[s].owned
BY DEF SlotsTyped, Replies, OthersStay, SlotFields

LEMMA SlotStaysTyped ==
  ASSUME SlotsTyped, NEW s \in Slots, OthersStay(s) PROVE SlotsTyped'
BY DEF SlotsTyped, OthersStay

\* What each step of the gate is to a request.
LEMMA ReceiveStep ==
  ASSUME SlotsTyped, NEW s \in Slots, NEW role, NEW token, NEW kind, Receive(s, role, token, kind)
  PROVE  OthersStay(s) /\ slot'[s].at = "provision" /\ slot'[s].step = 1
BY DEF SlotsTyped, Receive, NoSlot, OthersStay, SlotFields

LEMMA AuthenticateStep ==
  ASSUME SlotsTyped, NEW s \in Slots, Authenticate(s)
  PROVE  OthersStay(s) /\ slot'[s].at = "check" /\ slot'[s].step = slot[s].step
         /\ slot[s].at = "session"
BY DEF SlotsTyped, Authenticate, OthersStay, SlotFields

LEMMA RespondStep ==
  ASSUME SlotsTyped, NEW s \in Slots, Respond(s)
  PROVE  OthersStay(s) /\ slot'[s].at = "free" /\ slot'[s].step = 1
BY DEF SlotsTyped, Respond, NoSlot, OthersStay, SlotFields

LEMMA BodyStep ==
  ASSUME SlotsTyped, NEW s \in Slots, ReadBody(s)
  PROVE  /\ OthersStay(s) /\ slot'[s].step = slot[s].step
         /\ \/ slot'[s].at = "limit"
            \/ slot'[s].at = "answer" /\ slot'[s].status = 413
<1>1. CASE Goes(s, "limit")
  BY <1>1, GoesOn
<1>2. CASE Replies(s, 413)
  BY <1>2, RepliesWith
<1> QED
  BY <1>1, <1>2 DEF ReadBody

LEMMA LimitStep ==
  ASSUME SlotsTyped, NEW s \in Slots, Limit(s)
  PROVE  /\ OthersStay(s) /\ slot'[s].step = slot[s].step /\ slot[s].at = "limit"
         /\ \/ slot'[s].at \in {"session", "check"}
            \/ slot'[s].at = "answer" /\ slot'[s].status = 429
<1>1. CASE Replies(s, 429)
  BY <1>1, RepliesWith DEF Limit
<1>2. CASE Goes(s, IF "cron" \in Range(route.checks) THEN "check" ELSE "session")
  <2> DEFINE at == IF "cron" \in Range(route.checks) THEN "check" ELSE "session"
  <2>1. at \in {"session", "check"} /\ Goes(s, at)
    BY <1>2
  <2> HIDE DEF at
  <2> QED
    BY <2>1, GoesOn DEF Limit
<1> QED
  BY <1>1, <1>2 DEF Limit

\* A check that passes leaves the request where it is; one that fails ends it.
Passed(s, check) ==
  slot' = [slot EXCEPT ![s].step = @ + 1,
             ![s].owned = @ \/ check \in OwnerChecks]

LEMMA PassedStep ==
  ASSUME SlotsTyped, NEW s \in Slots, NEW check, Passed(s, check)
  PROVE  /\ OthersStay(s) /\ slot'[s].at = slot[s].at /\ slot'[s].step = slot[s].step + 1
         /\ slot'[s].user = slot[s].user /\ slot'[s].role = slot[s].role
         /\ slot'[s].kind = slot[s].kind
         /\ slot'[s].owned = (slot[s].owned \/ check \in OwnerChecks)
BY DEF SlotsTyped, Passed, OthersStay, SlotFields

-----------------------------------------------------------------------------
\* Past the operator's gate, everything waits for the indexes.
AtRouter(s) == slot[s].at \in {"limit", "session", "check"}
ProvisionInv ==
  /\ SlotsTyped /\ creations \in {0, 1} /\ (indexes = "none" => creations = 0)
  /\ provision => \A s \in Slots : AtRouter(s) => indexes = "ready"

LEMMA ProvisionKept ==
  ASSUME ProvisionInv, NEW s \in Slots, OthersStay(s), UNCHANGED <<provision, indexes, creations>>,
         provision /\ AtRouter(s)' => AtRouter(s) \/ indexes = "ready"
  PROVE  ProvisionInv'
<1>1. SlotsTyped'
  BY SlotStaysTyped DEF ProvisionInv
<1>2. \A q \in Slots \ {s} : AtRouter(q)' = AtRouter(q)
  BY DEF OthersStay, AtRouter
<1> QED
  BY <1>1, <1>2 DEF ProvisionInv

LEMMA ProvisionStart == GateInit => ProvisionInv
BY DEF GateInit, ProvisionInv, SlotsTyped, NoSlot, SlotFields, AtRouter

LEMMA ProvisionStep ==
  ASSUME ProvisionInv, [GateNext]_gateVars PROVE ProvisionInv'
<1> SlotsTyped
  BY DEF ProvisionInv
<1>1. ASSUME NEW s \in Slots, NEW role, NEW token, NEW kind, Receive(s, role, token, kind)
      PROVE  ProvisionInv'
  <2>1. OthersStay(s) /\ slot'[s].at = "provision"
    BY <1>1, ReceiveStep
  <2> QED
    BY <1>1, <2>1, ProvisionKept DEF Receive, AtRouter
<1>2. ASSUME NEW s \in Slots, AwaitIndexes(s) PROVE ProvisionInv'
  <2>1. CASE ~provision /\ ReadBody(s) /\ UNCHANGED <<indexes, creations>>
    BY <1>2, <2>1, BodyStep, ProvisionKept DEF AwaitIndexes
  <2>2. CASE provision /\ indexes = "none" /\ indexes' = "audit" /\ creations' = creations + 1 /\ UNCHANGED slot
    BY <1>2, <2>2 DEF AwaitIndexes, ProvisionInv, SlotsTyped, AtRouter
  <2>3. CASE provision /\ Provisioned /\ ReadBody(s) /\ UNCHANGED <<indexes, creations>>
    BY <1>2, <2>3, BodyStep, ProvisionKept DEF AwaitIndexes, Provisioned
  <2>4. CASE provision /\ indexes = "failed" /\ Replies(s, 500) /\ UNCHANGED <<indexes, creations>>
    <3>1. OthersStay(s) /\ slot'[s].at = "answer"
      BY <2>4, RepliesWith
    <3> QED
      BY <1>2, <2>4, <3>1, ProvisionKept DEF AwaitIndexes, AtRouter
  <2> QED
    BY <1>2, <2>1, <2>2, <2>3, <2>4 DEF AwaitIndexes
<1>3. ASSUME NEW s \in Slots, Limit(s) PROVE ProvisionInv'
  BY <1>3, LimitStep, ProvisionKept DEF Limit, AtRouter
<1>4. ASSUME NEW s \in Slots, Authenticate(s) PROVE ProvisionInv'
  BY <1>4, AuthenticateStep, ProvisionKept DEF Authenticate, AtRouter
<1>5. ASSUME NEW s \in Slots, Check(s) \/ Serve(s) PROVE ProvisionInv'
  <2>1. slot[s].at = "check" /\ UNCHANGED <<provision, indexes, creations>>
    BY <1>5 DEF Check, Serve, Checking
  <2>2. (\E check : Passed(s, check)) \/ \E status : Replies(s, status)
    BY <1>5 DEF Check, Serve, Passed
  <2>3. OthersStay(s)
    BY <2>2, PassedStep, RepliesWith
  <2> QED
    BY <2>1, <2>3, ProvisionKept DEF AtRouter
<1>6. ASSUME NEW s \in Slots, Respond(s) PROVE ProvisionInv'
  BY <1>6, RespondStep, ProvisionKept DEF Respond, AtRouter
<1>7. CASE AuditDuplicates \/ CreateIndexes
  BY <1>7 DEF AuditDuplicates, CreateIndexes, ProvisionInv, SlotsTyped, AtRouter
<1>8. CASE FinishConnecting
  <2>1. CASE UNCHANGED <<indexes, slot>>
    BY <1>8, <2>1 DEF FinishConnecting, ProvisionInv, SlotsTyped, AtRouter
  <2>2. CASE /\ indexes' = IF indexes = "audit" THEN "failed" ELSE indexes
             /\ slot' = [s \in Slots |-> IF Waits(s)
                                         THEN [slot[s] EXCEPT !.at = "answer", !.status = 500]
                                         ELSE slot[s]]
    <3>1. \A s \in Slots : slot'[s] = IF Waits(s)
                                      THEN [slot[s] EXCEPT !.at = "answer", !.status = 500] ELSE slot[s]
      BY <2>2
    <3>2. ASSUME NEW s \in Slots PROVE DOMAIN slot'[s] = SlotFields /\ (AtRouter(s)' => AtRouter(s))
      <4>1. CASE Waits(s)
        <5>1. slot'[s] = [slot[s] EXCEPT !.at = "answer", !.status = 500] /\ DOMAIN slot[s] = SlotFields
          BY <3>1, <4>1 DEF SlotsTyped
        <5>2. DOMAIN slot'[s] = SlotFields /\ slot'[s].at = "answer"
          BY <5>1 DEF SlotFields
        <5> QED
          BY <5>2 DEF AtRouter
      <4>2. CASE ~Waits(s)
        BY <3>1, <4>2 DEF SlotsTyped, AtRouter
      <4> QED
        BY <4>1, <4>2
    <3>3. SlotsTyped'
      BY <2>2, <3>2 DEF SlotsTyped
    <3> QED
      BY <1>8, <2>2, <3>2, <3>3 DEF FinishConnecting, ProvisionInv
  <2> QED
    BY <1>8, <2>1, <2>2 DEF FinishConnecting
<1>9. ASSUME UNCHANGED <<provision, indexes, creations, slot>> PROVE ProvisionInv'
  BY <1>9 DEF ProvisionInv, SlotsTyped, AtRouter
<1> QED
  BY <1>1, <1>2, <1>3, <1>4, <1>5, <1>6, <1>7, <1>8, <1>9
     DEF GateNext, StartConnecting, OwnerLeaves, TimePasses, gateVars

-----------------------------------------------------------------------------

\* What a check that a request has passed says of it.
Upheld(r, check) ==
  /\ check = "user" => r.user
  /\ check \in OwnerChecks => r.role = "owner" /\ r.owned
  /\ check = "scan" => (r.kind # "anonymous" => r.role = "owner")
UpheldTo(s, n) == \A i \in 1 .. n : Upheld(slot[s], route.checks[i])
Answered(s) == slot[s].at = "answer" /\ slot[s].status = 200

Checks == {"user", "admin", "cron", "input", "site", "scan", "quota", "budget", "admission",
           "target", "human", "password", "provider", "sample", "redirect", "disabled", "nowhere",
           "search", "keptSearch", "visitors", "keptVisitors", "tokens", "record", "shared"}
Guards(r) ==
  /\ r.checks \in Seq(Checks)
  /\ r.resource = "site" => \E i \in DOMAIN r.checks : r.checks[i] \in OwnerChecks
  /\ r.resource = "scan" => \E i \in DOMAIN r.checks : r.checks[i] = "scan"
  /\ r.resource = "account" => \E i \in DOMAIN r.checks : r.checks[i] = "user"

ServedInv ==
  /\ SlotsTyped /\ route \in AllRoutes /\ route.checks \in Seq(Checks)
  /\ \A s \in Slots :
       /\ slot[s].step \in Nat \ {0} /\ (slot[s].at \notin {"check", "answer"} => slot[s].step = 1)
       /\ slot[s].at = "check" => slot[s].step <= Len(route.checks) + 1 /\ UpheldTo(s, slot[s].step - 1)
       /\ Answered(s) => UpheldTo(s, Len(route.checks))

LEMMA RefusalIsNot200 == \A check \in Checks : 200 \notin Refusals[check]
BY DEF Checks, Refusals

LEMMA GuardedBy ==
  ASSUME NEW resource, NEW c \in Seq(Checks),
         resource = "site" => \E i \in DOMAIN c : c[i] \in OwnerChecks,
         resource = "scan" => \E i \in DOMAIN c : c[i] = "scan",
         resource = "account" => \E i \in DOMAIN c : c[i] = "user"
  PROVE  Guards(Reads(resource, c))
BY DEF Guards, Reads

LEMMA GuardedByOwner ==
  ASSUME NEW c \in Seq(Checks), \E i \in DOMAIN c : c[i] \in OwnerChecks
  PROVE  Guards(Owned(c))
<1> DEFINE all == <<"user">> \o c
<1>1. all \in Seq(Checks)
  BY DEF Checks
<1>2. PICK i \in DOMAIN c : c[i] \in OwnerChecks
  OBVIOUS
<1>3. i + 1 \in DOMAIN all /\ all[i + 1] = c[i]
  OBVIOUS
<1> HIDE DEF all
<1>4. Guards(Reads("site", all))
  BY <1>1, <1>2, <1>3, GuardedBy
<1> QED
  BY <1>4 DEF Owned, all

LEMMA ShortLists ==
  /\ <<>> \in Seq(Checks)
  /\ \A a, b, c \in Checks : <<a>> \in Seq(Checks) /\ <<a, b>> \in Seq(Checks) /\ <<a, b, c>> \in Seq(Checks)
OBVIOUS
LEMMA Places ==
  /\ \A a : 1 \in DOMAIN <<a>> /\ <<a>>[1] = a
  /\ \A a, b : 1 \in DOMAIN <<a, b>> /\ 2 \in DOMAIN <<a, b>> /\ <<a, b>>[1] = a /\ <<a, b>>[2] = b
  /\ \A a, b, c : 1 \in DOMAIN <<a, b, c>> /\ 2 \in DOMAIN <<a, b, c>> /\ <<a, b, c>>[1] = a
                  /\ <<a, b, c>>[2] = b
OBVIOUS

LEMMA Shapes ==
  /\ \A resource \in {"public", "internal", "cookie"} :
       /\ Guards(Reads(resource, <<>>))
       /\ \A a, b, c \in Checks : /\ Guards(Reads(resource, <<a>>)) /\ Guards(Reads(resource, <<a, b>>))
                                 /\ Guards(Reads(resource, <<a, b, c>>))
  /\ \A b, c \in Checks : /\ Guards(Reads("account", <<"user">>)) /\ Guards(Reads("account", <<"user", b>>))
                          /\ Guards(Reads("account", <<"user", b, c>>))
                          /\ \A d \in Checks : Guards(Reads("account", <<"user", b, c, d>>))
  /\ Guards(Reads("scan", <<"scan">>))
  /\ \A a, b \in Checks : \A w \in OwnerChecks :
       /\ Guards(Owned(<<w>>)) /\ Guards(Owned(<<a, w>>)) /\ Guards(Owned(<<w, a>>))
       /\ Guards(Owned(<<a, w, b>>))
<1> OwnerChecks \cup {"user", "scan"} \subseteq Checks
  BY DEF Checks, OwnerChecks, KeptChecks
<1>1. ASSUME NEW resource \in {"public", "internal", "cookie"}, NEW a \in Checks, NEW b \in Checks,
             NEW c \in Checks
      PROVE  /\ Guards(Reads(resource, <<>>)) /\ Guards(Reads(resource, <<a>>))
             /\ Guards(Reads(resource, <<a, b>>)) /\ Guards(Reads(resource, <<a, b, c>>))
  BY ShortLists, GuardedBy
<1>2. ASSUME NEW b \in Checks, NEW c \in Checks
      PROVE  /\ Guards(Reads("account", <<"user">>)) /\ Guards(Reads("account", <<"user", b>>))
             /\ Guards(Reads("account", <<"user", b, c>>))
             /\ \A d \in Checks : Guards(Reads("account", <<"user", b, c, d>>))
  <2>1. Guards(Reads("account", <<"user">>))
    BY ShortLists, Places, GuardedBy
  <2>2. Guards(Reads("account", <<"user", b>>))
    BY ShortLists, Places, GuardedBy
  <2>3. Guards(Reads("account", <<"user", b, c>>))
    BY ShortLists, Places, GuardedBy
  <2>4. ASSUME NEW d \in Checks PROVE Guards(Reads("account", <<"user", b, c, d>>))
    <3> DEFINE all == <<"user", b, c, d>>
    <3>1. all \in Seq(Checks) /\ 1 \in DOMAIN all /\ all[1] = "user"
      OBVIOUS
    <3> HIDE DEF all
    <3>2. Guards(Reads("account", all))
      BY <3>1, GuardedBy
    <3> QED
      BY <3>2 DEF all
  <2> QED
    BY <2>1, <2>2, <2>3, <2>4
<1>3. Guards(Reads("scan", <<"scan">>))
  BY ShortLists, Places, GuardedBy
<1>4. ASSUME NEW a \in Checks, NEW b \in Checks, NEW w \in OwnerChecks
      PROVE  /\ Guards(Owned(<<w>>)) /\ Guards(Owned(<<a, w>>)) /\ Guards(Owned(<<w, a>>))
             /\ Guards(Owned(<<a, w, b>>))
  <2>1. Guards(Owned(<<w>>))
    BY ShortLists, Places, GuardedByOwner
  <2>2. Guards(Owned(<<a, w>>))
    BY ShortLists, Places, GuardedByOwner
  <2>3. Guards(Owned(<<w, a>>))
    BY ShortLists, Places, GuardedByOwner
  <2>4. Guards(Owned(<<a, w, b>>))
    BY ShortLists, Places, GuardedByOwner
  <2> QED
    BY <2>1, <2>2, <2>3, <2>4
<1> QED
  BY <1>1, <1>2, <1>3, <1>4

LEMMA RoutesGuarded == \A r \in AllRoutes : Guards(r)
<1>1. Checks = OwnerChecks \cup
        {"user", "admin", "cron", "input", "scan", "quota", "budget", "admission", "target", "human",
         "password", "provider", "sample", "redirect", "disabled", "nowhere", "shared"}
      /\ {"site", "record", "tokens", "search", "visitors", "keptSearch", "keptVisitors"}
           \subseteq OwnerChecks
  BY DEF Checks, OwnerChecks, KeptChecks
<1>2. Guards(StartSiteAudit)
  <2> DEFINE all == <<"input", "user", "site", "target", "admission">>
  <2>1. all \in Seq(Checks) /\ 3 \in DOMAIN all /\ all[3] \in OwnerChecks
    BY <1>1
  <2> HIDE DEF all
  <2>2. Guards(Reads("site", all))
    BY <2>1, GuardedBy
  <2> QED
    BY <2>2 DEF StartSiteAudit, all
<1>3. \A r \in {RunWorker, WorkerHealth, Health, Backlinks, LinkSummary, LinkRating, LinkDomains,
                LinkPages, LinkAnchors, LinkBroken, LinkGap} : Guards(r)
  BY <1>1, Shapes
     DEF RunWorker, WorkerHealth, Health, Backlinks, LinkSummary, LinkRating, LinkDomains,
         LinkPages, LinkAnchors, LinkBroken, LinkGap
<1>4. \A r \in {StartIntegration, ShowIntegration, EndIntegration, IntegrationCallback, Keywords,
                Intelligence, SearchReport, PropertyList, PropertyChoice,
                VisitorReport, FullVisitorReport} : Guards(r)
  BY <1>1, Shapes
     DEF StartIntegration, ShowIntegration, EndIntegration, IntegrationCallback, Keywords,
         Intelligence, SearchReport, PropertyList, PropertyChoice, VisitorReport,
         FullVisitorReport
<1>5. \A r \in {StartAudit, AuditStatus, Share, SharedAudit, LegacyStart, Scan, ScanPages,
                ScanIssues, StartLogin, LoginCallback, SignUp, SignIn, SignOut} : Guards(r)
  BY <1>1, Shapes
     DEF StartAudit, AuditStatus, Share, SharedAudit, LegacyStart, Scan, ScanPages,
         ScanIssues, StartLogin, LoginCallback, SignUp, SignIn, SignOut
<1>6. \A r \in {Me, DeleteMe, NewWebsite, Websites, Website, Readiness, LatestScan, RemoveWebsite,
                WebsiteScans, Collect, Analytics, AdminStats, Unknown} : Guards(r)
  BY <1>1, Shapes
     DEF Me, DeleteMe, NewWebsite, Websites, Website, Readiness, LatestScan, RemoveWebsite,
         WebsiteScans, Collect, Analytics, AdminStats, Unknown
<1> QED
  BY <1>2, <1>3, <1>4, <1>5, <1>6 DEF AllRoutes

\* A step of a request that has not answered yet with success, or that answers otherwise.
LEMMA ServedKept ==
  ASSUME ServedInv, UNCHANGED route, NEW s \in Slots, OthersStay(s),
         slot'[s].step \in Nat \ {0}, slot'[s].at \notin {"check", "answer"} => slot'[s].step = 1,
         slot'[s].at = "check" =>
           slot'[s].step <= Len(route.checks) + 1
           /\ \A i \in 1 .. (slot'[s].step - 1) : Upheld(slot'[s], route.checks[i]),
         slot'[s].at = "answer" /\ slot'[s].status = 200 =>
           \A i \in 1 .. Len(route.checks) : Upheld(slot'[s], route.checks[i])
  PROVE  ServedInv'
<1>1. SlotsTyped'
  BY SlotStaysTyped DEF ServedInv
<1>2. \A q \in Slots \ {s} : slot'[q] = slot[q]
  BY DEF OthersStay
<1>3. route' = route
  OBVIOUS
<1>4. ASSUME NEW q \in Slots
      PROVE  /\ slot'[q].step \in Nat \ {0}
             /\ slot'[q].at \notin {"check", "answer"} => slot'[q].step = 1
             /\ slot'[q].at = "check" => slot'[q].step <= Len(route.checks) + 1
                  /\ \A i \in 1 .. (slot'[q].step - 1) : Upheld(slot'[q], route.checks[i])
             /\ slot'[q].at = "answer" /\ slot'[q].status = 200 =>
                  \A i \in 1 .. Len(route.checks) : Upheld(slot'[q], route.checks[i])
  <2>1. CASE q = s
    BY <2>1
  <2>2. CASE q # s
    BY <1>2, <2>2 DEF ServedInv, UpheldTo, Answered
  <2> QED
    BY <2>1, <2>2
<1> QED
  BY <1>1, <1>3, <1>4 DEF ServedInv, UpheldTo, Answered

LEMMA ServedStart == ASSUME GateOK, GateInit PROVE ServedInv
<1>1. route \in AllRoutes /\ route.checks \in Seq(Checks)
  BY RoutesGuarded DEF GateOK, GateInit, Guards
<1>2. \A s \in Slots : slot[s] = NoSlot
  BY DEF GateInit
<1>3. SlotsTyped
  BY DEF GateInit, SlotsTyped, NoSlot, SlotFields
<1> QED
  BY <1>1, <1>2, <1>3 DEF ServedInv, NoSlot, Answered

\* A check that passes is kept, with those before.
LEMMA CheckKeeps ==
  ASSUME ServedInv, NEW s \in Slots, slot[s].at = "check", slot[s].step <= Len(route.checks),
         Passes(s, route.checks[slot[s].step]), Passed(s, route.checks[slot[s].step]), UNCHANGED route
  PROVE  ServedInv'
<1> DEFINE n == slot[s].step
           check == route.checks[n]
<1>1. n \in Nat \ {0} /\ n <= Len(route.checks) /\ UpheldTo(s, n - 1) /\ Len(route.checks) \in Nat
  BY DEF ServedInv
<1>2. /\ OthersStay(s) /\ slot'[s].at = "check" /\ slot'[s].step = n + 1
      /\ slot'[s].user = slot[s].user /\ slot'[s].role = slot[s].role
      /\ slot'[s].kind = slot[s].kind
      /\ slot'[s].owned = (slot[s].owned \/ check \in OwnerChecks)
  BY PassedStep DEF ServedInv
<1>3. Passes(s, check)
  OBVIOUS
<1> HIDE DEF n, check
<1>4. ASSUME NEW x, Upheld(slot[s], x) PROVE Upheld(slot'[s], x)
  BY <1>2, <1>4 DEF Upheld
<1>5. Upheld(slot'[s], check)
  <2>1. /\ check \in OwnerChecks => slot[s].role = "owner"
        /\ check = "user" => slot[s].user
        /\ check = "scan" => (slot[s].kind # "anonymous" => slot[s].role = "owner")
    BY <1>3 DEF Passes, OwnsSite, MayReadScan, OwnerChecks, KeptChecks
  <2> QED
    BY <1>2, <2>1 DEF Upheld
<1>6. ASSUME NEW i \in 1 .. n PROVE Upheld(slot'[s], route.checks[i])
  <2>1. CASE i = n
    BY <1>5, <2>1 DEF check
  <2>2. CASE i # n
    <3>1. i \in 1 .. (n - 1)
      BY <1>1, <2>2
    <3>2. Upheld(slot[s], route.checks[i])
      BY <1>1, <3>1 DEF UpheldTo
    <3> QED
      BY <1>4, <3>2
  <2> QED
    BY <2>1, <2>2
<1>7. slot'[s].step \in Nat \ {0} /\ slot'[s].step <= Len(route.checks) + 1 /\ slot'[s].step - 1 = n
  BY <1>1, <1>2
<1>8. \A i \in 1 .. (slot'[s].step - 1) : Upheld(slot'[s], route.checks[i])
  BY <1>6, <1>7
<1> QED
  BY <1>2, <1>7, <1>8, ServedKept

LEMMA ServedStep ==
  ASSUME ServedInv, [GateNext]_gateVars PROVE ServedInv'
<1> SlotsTyped
  BY DEF ServedInv
<1>0. \A s \in Slots : slot[s].step \in Nat \ {0} /\ (slot[s].at \notin {"check", "answer"} => slot[s].step = 1)
  BY DEF ServedInv
<1>a. Len(route.checks) \in Nat
  BY DEF ServedInv
<1>b. ASSUME NEW s \in Slots, OthersStay(s), UNCHANGED route, slot'[s].step \in Nat \ {0},
             slot'[s].at = "answer", slot'[s].status # 200
      PROVE  ServedInv'
  BY <1>b, ServedKept
<1>c. ASSUME NEW s \in Slots, OthersStay(s), UNCHANGED route, slot'[s].step = 1, slot'[s].at # "answer"
      PROVE  ServedInv'
  BY <1>a, <1>c, ServedKept
<1>1. ASSUME NEW s \in Slots, NEW role, NEW token, NEW kind, Receive(s, role, token, kind)
      PROVE  ServedInv'
  <2>1. OthersStay(s) /\ slot'[s].at = "provision" /\ slot'[s].step = 1
    BY <1>1, ReceiveStep
  <2> QED
    BY <1>1, <1>c, <2>1 DEF Receive
<1>2. ASSUME NEW s \in Slots, AwaitIndexes(s) PROVE ServedInv'
  <2>1. slot[s].step = 1 /\ UNCHANGED route
    BY <1>0, <1>2 DEF AwaitIndexes
  <2>2. CASE ReadBody(s)
    <3>1. /\ OthersStay(s) /\ slot'[s].step = 1
          /\ \/ slot'[s].at = "limit"
             \/ slot'[s].at = "answer" /\ slot'[s].status = 413
      BY <2>1, <2>2, BodyStep
    <3> QED
      BY <1>b, <1>c, <2>1, <3>1
  <2>3. CASE UNCHANGED slot
    BY <2>1, <2>3 DEF ServedInv, SlotsTyped, UpheldTo, Answered
  <2>4. CASE Replies(s, 500)
    <3>1. OthersStay(s) /\ slot'[s].at = "answer" /\ slot'[s].step = slot[s].step /\ slot'[s].status = 500
      BY <2>4, RepliesWith
    <3> QED
      BY <1>0, <1>b, <2>1, <3>1
  <2> QED
    BY <1>2, <2>2, <2>3, <2>4 DEF AwaitIndexes
<1>3. ASSUME NEW s \in Slots, Limit(s) PROVE ServedInv'
  <2>1. /\ OthersStay(s) /\ slot'[s].step = 1 /\ UNCHANGED route
        /\ \/ slot'[s].at \in {"session", "check"}
           \/ slot'[s].at = "answer" /\ slot'[s].status = 429
    BY <1>0, <1>3, LimitStep DEF Limit
  <2> QED
    BY <1>b, <1>c, <2>1
<1>4. ASSUME NEW s \in Slots, Authenticate(s) PROVE ServedInv'
  <2>1. OthersStay(s) /\ slot'[s].at = "check" /\ slot'[s].step = 1 /\ UNCHANGED route
    BY <1>0, <1>4, AuthenticateStep DEF Authenticate
  <2> QED
    BY <1>c, <2>1
<1>5. ASSUME NEW s \in Slots, Check(s) PROVE ServedInv'
  <2> DEFINE check == route.checks[slot[s].step]
  <2>1. slot[s].at = "check" /\ slot[s].step <= Len(route.checks) /\ UNCHANGED route
    BY <1>5 DEF Check, Checking
  <2>2. check \in Checks
    BY <1>0, <1>a, <2>1 DEF ServedInv
  <2>3. CASE Passes(s, check) /\ Passed(s, check)
    BY <2>1, <2>3, CheckKeeps
  <2>4. ASSUME NEW status \in Refusals[check], Replies(s, status) PROVE ServedInv'
    <3>1. OthersStay(s) /\ slot'[s].at = "answer" /\ slot'[s].step = slot[s].step
          /\ slot'[s].status = status
      BY <2>4, RepliesWith
    <3>2. slot'[s].status # 200
      BY <2>2, <2>4, <3>1, RefusalIsNot200
    <3> QED
      BY <1>0, <1>b, <2>1, <3>1, <3>2
  <2> QED
    BY <1>5, <2>3, <2>4 DEF Check, CheckOf, Passed
<1>6. ASSUME NEW s \in Slots, Serve(s) PROVE ServedInv'
  <2>1. slot[s].at = "check" /\ ~(slot[s].step <= Len(route.checks)) /\ UNCHANGED route
    BY <1>6 DEF Serve, Checking
  <2>2. UpheldTo(s, Len(route.checks))
    <3>1. slot[s].step - 1 = Len(route.checks)
      BY <1>0, <1>a, <2>1 DEF ServedInv
    <3> QED
      BY <2>1, <3>1 DEF ServedInv
  <2>3. ASSUME NEW status, Replies(s, status) PROVE ServedInv'
    <3>1. /\ OthersStay(s) /\ slot'[s].at = "answer" /\ slot'[s].step = slot[s].step
          /\ slot'[s].user = slot[s].user /\ slot'[s].role = slot[s].role
          /\ slot'[s].kind = slot[s].kind /\ slot'[s].owned = slot[s].owned
      BY <2>3, RepliesWith
    <3>2. \A i \in 1 .. Len(route.checks) : Upheld(slot'[s], route.checks[i])
      BY <2>2, <3>1 DEF UpheldTo, Upheld
    <3>3. slot'[s].step \in Nat \ {0}
      BY <1>0, <3>1
    <3> QED
      BY <2>1, <3>1, <3>2, <3>3, ServedKept
  <2> QED
    BY <1>6, <2>3 DEF Serve
<1>7. ASSUME NEW s \in Slots, Respond(s) PROVE ServedInv'
  <2>1. OthersStay(s) /\ slot'[s].at = "free" /\ slot'[s].step = 1 /\ UNCHANGED route
    BY <1>7, RespondStep DEF Respond
  <2> QED
    BY <1>c, <2>1
<1>8. CASE FinishConnecting
  <2>1. CASE UNCHANGED slot
    BY <1>8, <2>1 DEF FinishConnecting, ServedInv, SlotsTyped, UpheldTo, Answered
  <2>2. CASE slot' = [s \in Slots |-> IF Waits(s)
                                      THEN [slot[s] EXCEPT !.at = "answer", !.status = 500]
                                      ELSE slot[s]]
    <3>1. ASSUME NEW s \in Slots
          PROVE  \/ slot'[s] = slot[s]
                 \/ /\ DOMAIN slot'[s] = SlotFields /\ slot'[s].at = "answer" /\ slot'[s].status = 500
                    /\ slot'[s].step = slot[s].step
      <4>1. CASE ~Waits(s)
        BY <2>2, <4>1
      <4>2. CASE Waits(s)
        <5>1. /\ slot'[s] = [slot[s] EXCEPT !.at = "answer", !.status = 500]
              /\ DOMAIN slot[s] = SlotFields
          BY <2>2, <4>2 DEF SlotsTyped
        <5> QED
          BY <5>1 DEF SlotFields
      <4> QED
        BY <4>1, <4>2
    <3>2. SlotsTyped'
      <4>1. slot' = [s \in Slots |-> slot'[s]]
        BY <2>2
      <4>2. ASSUME NEW s \in Slots PROVE DOMAIN slot'[s] = SlotFields
        BY <3>1, SMTT(30) DEF SlotsTyped
      <4> QED
        BY <4>1, <4>2, Zenon DEF SlotsTyped
    <3>3. route' = route
      BY <1>8 DEF FinishConnecting
    <3> QED
      BY <3>1, <3>2, <3>3 DEF ServedInv, UpheldTo, Answered
  <2> QED
    BY <1>8, <2>1, <2>2 DEF FinishConnecting
<1>9. ASSUME UNCHANGED <<route, slot>> PROVE ServedInv'
  BY <1>9 DEF ServedInv, SlotsTyped, UpheldTo, Answered
<1> QED
  BY <1>1, <1>2, <1>3, <1>4, <1>5, <1>6, <1>7, <1>8, <1>9
     DEF GateNext, AuditDuplicates, CreateIndexes, StartConnecting, OwnerLeaves, TimePasses, gateVars

LEMMA ServedByOwners ==
  ASSUME GateOK, ServedInv PROVE OnlyOwnersServed
<1> SUFFICES ASSUME NEW s \in Slots, Answered(s)
             PROVE  /\ route.resource = "site" => slot[s].role = "owner" /\ slot[s].owned
                    /\ route.resource = "account" => slot[s].user
                    /\ route.resource = "scan" /\ slot[s].kind # "anonymous" => slot[s].role = "owner"
  BY DEF OnlyOwnersServed, Answered
<1>1. Guards(route)
  BY RoutesGuarded DEF GateOK, ServedInv
<1>2. \A i \in DOMAIN route.checks : Upheld(slot[s], route.checks[i])
  BY DEF ServedInv, UpheldTo
<1>3. CASE route.resource = "site"
  BY <1>1, <1>2, <1>3 DEF Guards, Upheld
<1>4. CASE route.resource = "account"
  BY <1>1, <1>2, <1>4 DEF Guards, Upheld
<1>5. CASE route.resource = "scan"
  BY <1>1, <1>2, <1>5 DEF Guards, Upheld
<1> QED
  BY <1>3, <1>4, <1>5

-----------------------------------------------------------------------------

\* The rate limit.  The requests admitted since a time, those of earlier windows since a
\* time, and those of one window's length from a time.
Since(a, t) == {j \in DOMAIN a : a[j] >= t}
Past(a, t, start) == {j \in DOMAIN a : t <= a[j] /\ a[j] < start}
Between(a, t) == {j \in DOMAIN a : a[j] \in t .. t + WindowMs}
AtMost(S, n) == IsFiniteSet(S) /\ Cardinality(S) <= n

LEMMA AtMostPart ==
  ASSUME NEW T, NEW n \in Nat, AtMost(T, n), NEW S \in SUBSET T PROVE AtMost(S, n)
<1>1. IsFiniteSet(S) /\ Cardinality(S) <= Cardinality(T) /\ Cardinality(S) \in Nat /\ Cardinality(T) \in Nat
  BY FS_Subset, FS_CardinalityType DEF AtMost
<1> QED
  BY <1>1 DEF AtMost

LEMMA AtMostBoth ==
  ASSUME NEW S, NEW T, NEW m \in Nat, NEW n \in Nat, AtMost(S, m), AtMost(T, n),
         NEW U \in SUBSET (S \cup T)
  PROVE  AtMost(U, m + n)
<1>1. /\ IsFiniteSet(S \cup T)
      /\ Cardinality(S \cup T) = Cardinality(S) + Cardinality(T) - Cardinality(S \cap T)
  BY FS_Union DEF AtMost
<1>2. IsFiniteSet(S \cap T)
  BY FS_Subset DEF AtMost
<1>3. Cardinality(S) \in Nat /\ Cardinality(T) \in Nat /\ Cardinality(S \cap T) \in Nat
  BY <1>2, FS_CardinalityType DEF AtMost
<1>4. AtMost(S \cup T, m + n)
  BY <1>1, <1>3 DEF AtMost
<1> QED
  BY <1>4, AtMostPart

LEMMA AtMostOneMore ==
  ASSUME NEW S, NEW n \in Nat, AtMost(S, n), NEW x, NEW U \in SUBSET (S \cup {x})
  PROVE  AtMost(U, n + 1)
<1>1. IsFiniteSet({x}) /\ Cardinality({x}) = 1
  BY FS_Singleton
<1>2. AtMost({x}, 1)
  BY <1>1 DEF AtMost
<1> QED
  BY <1>2, AtMostBoth

LEMMA AtMostNone == AtMost({}, 0)
BY FS_EmptySet DEF AtMost

\* The window kept in b began at a time: what was admitted since, and before.
Opened(a, b, start) ==
  /\ b.resetAt = start + WindowMs
  /\ \A j \in DOMAIN a : a[j] <= b.resetAt
  /\ AtMost(Since(a, start), b.count)
  /\ AtMost(Since(a, start + 1), b.count - 1)
  /\ \A t \in Nat : t + WindowMs >= start => AtMost(Past(a, t, start), MaxPerWindow - 1)

\* The windows: each holds at most its limit, begins with a request of its own and after the
\* one before has ended.
WindowInv ==
  /\ clock \in Nat /\ admitted \in Seq(Nat)
  /\ DOMAIN bucket = {"count", "resetAt", "set"}
  /\ bucket.count \in Nat /\ bucket.resetAt \in Nat
  /\ ~bucket.set => admitted = <<>>
  /\ bucket.set =>
       /\ bucket.count \in 1..MaxPerWindow
       /\ \E start \in Nat : start <= clock /\ Opened(admitted, bucket, start)
  /\ \A t \in Nat : AtMost(Between(admitted, t), 2 * MaxPerWindow - 1)

\* One more request is admitted, in a window that it does not overfill.
LEMMA OneMore ==
  ASSUME GateOK, NEW a \in Seq(Nat), NEW c \in Nat, NEW start \in Nat, start <= c,
         AtMost(Since(Append(a, c), start), MaxPerWindow),
         \A t \in Nat : t + WindowMs >= start => AtMost(Past(Append(a, c), t, start), MaxPerWindow - 1),
         \A t \in Nat : AtMost(Between(a, t), 2 * MaxPerWindow - 1),
         NEW t \in Nat
  PROVE  AtMost(Between(Append(a, c), t), 2 * MaxPerWindow - 1)
<1> DEFINE b == Append(a, c)
<1>1. MaxPerWindow \in Nat \ {0} /\ WindowMs \in Nat
  BY DEF GateOK
<1>2. /\ Len(a) \in Nat /\ DOMAIN b = DOMAIN a \cup {Len(a) + 1} /\ b[Len(a) + 1] = c
      /\ \A j \in DOMAIN a : b[j] = a[j] /\ b[j] \in Nat
  OBVIOUS
<1>3. CASE c \in t .. t + WindowMs
  <2>1. Between(b, t) \subseteq Past(b, t, start) \cup Since(b, start)
    BY <1>1, <1>2 DEF Between, Past, Since
  <2>2. /\ AtMost(Past(b, t, start), MaxPerWindow - 1) /\ AtMost(Since(b, start), MaxPerWindow)
        /\ MaxPerWindow - 1 \in Nat
    BY <1>1, <1>3
  <2>3. AtMost(Between(b, t), (MaxPerWindow - 1) + MaxPerWindow)
    BY <1>1, <2>1, <2>2, AtMostBoth
  <2> QED
    BY <1>1, <2>3
<1>4. CASE c \notin t .. t + WindowMs
  <2>1. Between(b, t) = Between(a, t)
    BY <1>2, <1>4 DEF Between
  <2> QED
    BY <2>1
<1> QED
  BY <1>3, <1>4

LEMMA WindowStart == ASSUME GateOK, GateInit PROVE WindowInv
<1>1. /\ clock = 0 /\ admitted = <<>> /\ bucket = [count |-> 0, resetAt |-> 0, set |-> FALSE]
      /\ MaxPerWindow \in Nat \ {0}
  BY DEF GateOK, GateInit
<1>2. \A t \in Nat : Between(admitted, t) = {}
  BY <1>1 DEF Between
<1>3. AtMost({}, 2 * MaxPerWindow - 1)
  BY <1>1, FS_EmptySet DEF AtMost
<1>4. DOMAIN bucket = {"count", "resetAt", "set"} /\ bucket.count = 0 /\ bucket.resetAt = 0 /\ ~bucket.set
  BY <1>1
<1>5. clock \in Nat /\ admitted \in Seq(Nat)
  BY <1>1
<1>6. \A t \in Nat : AtMost(Between(admitted, t), 2 * MaxPerWindow - 1)
  BY <1>2, <1>3
<1> QED
  BY <1>1, <1>4, <1>5, <1>6 DEF WindowInv

\* A request that the limit lets through.
LEMMA AdmitStep ==
  ASSUME GateOK, WindowInv, admitted' = Append(admitted, clock), UNCHANGED clock, WindowOver \/ ~Full,
         bucket' = IF WindowOver THEN [count |-> 1, resetAt |-> clock + WindowMs, set |-> TRUE]
                   ELSE [bucket EXCEPT !.count = @ + 1]
  PROVE  WindowInv'
<1> DEFINE a == admitted
           b == Append(a, clock)
<1>1. MaxPerWindow \in Nat \ {0} /\ WindowMs \in Nat
  BY DEF GateOK
<1>2. clock \in Nat /\ a \in Seq(Nat)
  BY DEF WindowInv
<1>3. /\ Len(a) \in Nat /\ b \in Seq(Nat) /\ DOMAIN b = DOMAIN a \cup {Len(a) + 1}
      /\ b[Len(a) + 1] = clock /\ Len(a) + 1 \notin DOMAIN a
      /\ \A j \in DOMAIN a : b[j] = a[j] /\ b[j] \in Nat
  BY <1>2
<1>4. CASE WindowOver
  <2>1. ASSUME NEW j \in DOMAIN a PROVE a[j] < clock
    <3>1. bucket.set /\ clock > bucket.resetAt
      BY <1>4, <2>1 DEF WindowOver, WindowInv
    <3>2. a[j] <= bucket.resetAt /\ bucket.resetAt \in Nat
      BY <2>1, <3>1 DEF WindowInv, Opened
    <3> QED
      BY <1>2, <1>3, <3>1, <3>2
  <2>2. AtMost(Since(b, clock), 1)
    <3>1. Since(b, clock) \subseteq {} \cup {Len(a) + 1}
      BY <1>2, <1>3, <2>1 DEF Since
    <3>2. AtMost(Since(b, clock), 0 + 1)
      BY <3>1, AtMostNone, AtMostOneMore
    <3> QED
      BY <3>2
  <2>12. AtMost(Since(b, clock + 1), 0)
    <3>1. Since(b, clock + 1) = {}
      BY <1>2, <1>3, <2>1 DEF Since
    <3> QED
      BY <3>1, AtMostNone
  <2>3. ASSUME NEW t \in Nat, t + WindowMs >= clock PROVE AtMost(Past(b, t, clock), MaxPerWindow - 1)
    <3>1. CASE ~bucket.set
      <4>1. Past(b, t, clock) = {}
        BY <1>2, <1>3, <3>1 DEF Past, WindowInv
      <4> QED
        BY <1>1, <4>1, FS_EmptySet DEF AtMost
    <3>2. CASE bucket.set
      <4>1. PICK start \in Nat : /\ bucket.resetAt = start + WindowMs
                                 /\ AtMost(Since(a, start + 1), bucket.count - 1)
        BY <3>2 DEF WindowInv, Opened
      <4>2. t >= start + 1
        BY <1>1, <1>2, <1>4, <2>3, <3>2, <4>1 DEF WindowOver
      <4>3. Past(b, t, clock) \subseteq Since(a, start + 1)
        BY <1>2, <1>3, <4>1, <4>2 DEF Past, Since
      <4>4. bucket.count - 1 \in Nat /\ bucket.count - 1 <= MaxPerWindow - 1
        BY <1>1, <3>2 DEF WindowInv
      <4>5. AtMost(Past(b, t, clock), bucket.count - 1)
        BY <4>1, <4>3, <4>4, AtMostPart
      <4> QED
        BY <1>1, <4>4, <4>5, FS_CardinalityType DEF AtMost
    <3> QED
      BY <3>1, <3>2
  <2>4. AtMost(Since(b, clock), MaxPerWindow)
    BY <1>1, <2>2, FS_CardinalityType DEF AtMost
  <2>5. \A t \in Nat : AtMost(Between(a, t), 2 * MaxPerWindow - 1)
    BY DEF WindowInv
  <2> HIDE DEF a, b
  <2>6. \A t \in Nat : AtMost(Between(b, t), 2 * MaxPerWindow - 1)
    BY <1>2, <2>3, <2>4, <2>5, OneMore DEF b
  <2>7. bucket' = [count |-> 1, resetAt |-> clock + WindowMs, set |-> TRUE] /\ admitted' = b /\ clock' = clock
    BY <1>4 DEF a, b
  <2>8. \A j \in DOMAIN b : b[j] <= clock + WindowMs
    BY <1>1, <1>2, <1>3, <2>1
  <2>9. bucket'.count = 1 /\ bucket'.resetAt = clock + WindowMs /\ bucket'.set
        /\ DOMAIN bucket' = {"count", "resetAt", "set"}
    BY <2>7
  <2>10. \E first \in Nat : first <= clock /\ Opened(b, bucket', first)
    BY <1>2, <2>2, <2>3, <2>8, <2>9, <2>12 DEF Opened
  <2>11. bucket'.count \in 1..MaxPerWindow /\ bucket'.resetAt \in Nat
    BY <1>1, <1>2, <2>9
  <2> QED
    BY <1>1, <1>2, <1>3, <2>6, <2>7, <2>9, <2>10, <2>11 DEF WindowInv
<1>5. CASE ~WindowOver
  <2>1. bucket.set /\ clock <= bucket.resetAt /\ bucket.count < MaxPerWindow /\ bucket.count \in Nat \ {0}
        /\ bucket.resetAt \in Nat
    BY <1>1, <1>2, <1>5 DEF WindowOver, Full, WindowInv
  <2>2. PICK start \in Nat :
            /\ bucket.resetAt = start + WindowMs /\ start <= clock
            /\ \A j \in DOMAIN a : a[j] <= bucket.resetAt
            /\ AtMost(Since(a, start), bucket.count)
            /\ AtMost(Since(a, start + 1), bucket.count - 1)
            /\ \A t \in Nat : t + WindowMs >= start => AtMost(Past(a, t, start), MaxPerWindow - 1)
    BY <2>1 DEF WindowInv, Opened
  <2>3. AtMost(Since(b, start), bucket.count + 1)
    <3>1. Since(b, start) \subseteq Since(a, start) \cup {Len(a) + 1}
      BY <1>3 DEF Since
    <3> QED
      BY <2>1, <2>2, <3>1, AtMostOneMore
  <2>15. AtMost(Since(b, start + 1), bucket.count)
    <3>1. Since(b, start + 1) \subseteq Since(a, start + 1) \cup {Len(a) + 1}
      BY <1>3 DEF Since
    <3>2. bucket.count - 1 \in Nat /\ bucket.count - 1 + 1 = bucket.count
      BY <2>1
    <3>3. AtMost(Since(b, start + 1), bucket.count - 1 + 1)
      BY <2>2, <3>1, <3>2, AtMostOneMore
    <3> QED
      BY <3>2, <3>3
  <2>4. \A t \in Nat : Past(b, t, start) = Past(a, t, start)
    BY <1>2, <1>3, <2>2 DEF Past
  <2>5. AtMost(Since(b, start), MaxPerWindow)
    BY <1>1, <2>1, <2>3, FS_CardinalityType DEF AtMost
  <2>6. \A t \in Nat : AtMost(Between(a, t), 2 * MaxPerWindow - 1)
    BY DEF WindowInv
  <2>7. bucket' = [bucket EXCEPT !.count = @ + 1] /\ admitted' = b /\ clock' = clock
    BY <1>5
  <2>8. DOMAIN bucket = {"count", "resetAt", "set"}
    BY DEF WindowInv
  <2> HIDE DEF a, b
  <2>9. \A t \in Nat : t + WindowMs >= start => AtMost(Past(b, t, start), MaxPerWindow - 1)
    BY <2>2, <2>4
  <2>10. \A t \in Nat : AtMost(Between(b, t), 2 * MaxPerWindow - 1)
    BY <1>2, <2>2, <2>5, <2>6, <2>9, OneMore DEF b
  <2>11. \A j \in DOMAIN b : b[j] <= bucket.resetAt
    BY <1>3, <2>1, <2>2
  <2>12. bucket'.count = bucket.count + 1 /\ bucket'.resetAt = bucket.resetAt /\ bucket'.set
         /\ DOMAIN bucket' = {"count", "resetAt", "set"}
    BY <2>1, <2>7, <2>8
  <2>13. \E first \in Nat : first <= clock /\ Opened(b, bucket', first)
    <3>1. bucket'.count - 1 = bucket.count
      BY <2>1, <2>12
    <3> QED
      BY <2>2, <2>3, <2>9, <2>11, <2>12, <2>15, <3>1 DEF Opened
  <2>14. bucket'.count \in 1..MaxPerWindow
    BY <1>1, <2>1, <2>12
  <2> QED
    BY <1>1, <1>2, <1>3, <2>1, <2>7, <2>8, <2>10, <2>12, <2>13, <2>14 DEF WindowInv
<1> QED
  BY <1>4, <1>5

LEMMA WindowStep ==
  ASSUME GateOK, WindowInv, [GateNext]_gateVars PROVE WindowInv'
<1>1. ASSUME NEW s \in Slots, Limit(s) PROVE WindowInv'
  <2>1. CASE UNCHANGED <<bucket, admitted>>
    BY <1>1, <2>1 DEF Limit, WindowInv
  <2>2. CASE ~(~WindowOver /\ Full)
    BY <1>1, <2>2, AdmitStep DEF Limit
  <2> QED
    BY <1>1, <2>1, <2>2 DEF Limit
<1>2. CASE TimePasses
  <2>1. clock' = clock + 1 /\ bucket' = bucket /\ admitted' = admitted /\ clock \in Nat
    BY <1>2 DEF TimePasses, WindowInv
  <2>2. ASSUME bucket.set
        PROVE  \E start \in Nat : start <= clock' /\ Opened(admitted, bucket, start)
    BY <2>1, <2>2 DEF WindowInv
  <2> QED
    BY <2>1, <2>2 DEF WindowInv
<1>3. ASSUME UNCHANGED <<clock, bucket, admitted>> PROVE WindowInv'
  BY <1>3 DEF WindowInv
<1> QED
  BY <1>1, <1>2, <1>3
     DEF GateNext, Receive, AwaitIndexes, Authenticate, Check, Serve, Respond, AuditDuplicates,
         CreateIndexes, StartConnecting, FinishConnecting, OwnerLeaves, gateVars

\* Whatever requests race with the provisioning, with failures and with the deletion of the
\* owner: none passes the gate before the indexes are there, which are provisioned once, every
\* time as long as a window sees fewer than twice the limit, and data of a website, an
\* account or an owned audit go to whom they belong.
THEOREM GateIsKept ==
  ASSUME GateOK PROVE GateSpec => []GateHolds
<1>1. GateSpec => []ProvisionInv
  BY ProvisionStart, ProvisionStep, PTL DEF GateSpec
<1>2. GateSpec => []WindowInv
  BY WindowStart, WindowStep, PTL DEF GateSpec
<1>3. GateSpec => []ServedInv
  BY ServedStart, ServedStep, PTL DEF GateSpec
<1>4. ProvisionInv => ReadyBeforeServed
  BY DEF ProvisionInv, ReadyBeforeServed, AtRouter
<1>5. ASSUME WindowInv PROVE BurstBounded
  <2> SUFFICES ASSUME NEW k \in DOMAIN admitted
               PROVE  Cardinality(Between(admitted, admitted[k])) < 2 * MaxPerWindow
    BY DEF BurstBounded, Between
  <2>1. admitted[k] \in Nat
    BY <1>5 DEF WindowInv
  <2> QED
    <3>1. AtMost(Between(admitted, admitted[k]), 2 * MaxPerWindow - 1)
      BY <1>5, <2>1 DEF WindowInv
    <3>2. Cardinality(Between(admitted, admitted[k])) \in Nat /\ MaxPerWindow \in Nat
      BY <3>1, FS_CardinalityType DEF AtMost, GateOK
    <3> QED
      BY <3>1, <3>2 DEF AtMost
<1>6. ServedInv => OnlyOwnersServed
  BY ServedByOwners
<1>7. ReadyBeforeServed /\ BurstBounded /\ OnlyOwnersServed => GateHolds
  BY DEF GateHolds
<1> QED
  BY <1>1, <1>2, <1>3, <1>4, <1>5, <1>6, <1>7, PTL
=============================================================================

------------------------ MODULE AuthSessions_proofs ------------------------
(* Proofs about AuthSessions, for any number of requests at once, names,    *)
(* passwords and secrets, and whatever the configuration names.             *)
EXTENDS AuthSessions, FiniteSetTheorems, TLAPS

-----------------------------------------------------------------------------
(* Requests                                                                 *)

CallerReq ==
  [at : {"comparing", "writing"}, id : 1..MaxId, name : Name, born : 1..MaxId,
   old : Password, pw : Password]
RotateReq == [at : {"storing", "swapping"}, new : Secret, signed : SUBSET Secret]

\* A request has the fields of the step it is at.
LEMMA ReqShape ==
  ASSUME NEW r \in Req
  PROVE  /\ r.at = "creating" => r.name \in Name
         /\ r.at = "login" => r.name \in Name /\ r.pw \in Password
         /\ r.at = "sign" => r.name \in Name
         /\ r.at = "deleting" => r.id \in 1..MaxId
         /\ r.at \in {"comparing", "writing"} => r \in CallerReq
         /\ r.at \in {"storing", "swapping"} => r \in RotateReq
BY DEF Req, Idle, CallerReq, RotateReq

LEMMA ReqMembers ==
  /\ Idle \in Req
  /\ \A n \in Name : [at |-> "creating", name |-> n] \in Req /\ [at |-> "sign", name |-> n] \in Req
  /\ \A n \in Name, p \in Password : [at |-> "login", name |-> n, pw |-> p] \in Req
  /\ \A i \in 1..MaxId : [at |-> "deleting", id |-> i] \in Req
  /\ CallerReq \subseteq Req
  /\ RotateReq \subseteq Req
BY DEF Req, CallerReq, RotateReq

\* A handler that starts or continues with a request.
LEMMA ReqTypes ==
  ASSUME req \in [Handler -> Req], NEW h \in Handler, NEW r \in Req, req' = [req EXCEPT ![h] = r]
  PROVE  /\ req' \in [Handler -> Req]
         /\ req'[h] = r
         /\ \A g \in Handler : g # h => req'[g] = req[g]
OBVIOUS

-----------------------------------------------------------------------------
(* Accounts                                                                 *)

\* Names and ids are unique, ids are never used again, an account counts by its id,
\* and the first account stays.
AccountsInv ==
  /\ users \subseteq User
  /\ lastId \in 0..MaxId
  /\ \A u, v \in users : u.name = v.name \/ u.id = v.id => u = v
  /\ \A u \in users : u.id <= lastId /\ u.born = u.id
  /\ lastId > 0 => \E u \in users : u.id = 1

\* What a handler has checked of the account it is about to change.
Checked ==
  \A h \in Handler :
    /\ req[h].at = "deleting" => req[h].id # 1
    /\ req[h].at \in {"comparing", "writing"} => req[h].born = req[h].id

Inv == TypeOK /\ AccountsInv /\ Checked

\* store.CreateUser keeps what holds of the accounts.
LEMMA InsertKeeps ==
  ASSUME AccountsInv, NEW n \in Name, Insert(n)
  PROVE  AccountsInv'
<1> USE DEF AccountsInv
<1>1. CASE Exists(n)
  BY <1>1 DEF Insert
<1>2. CASE ~Exists(n)
  <2> DEFINE new == [id |-> lastId + 1, name |-> n, pw |-> First, born |-> lastId + 1]
  <2>1. lastId + 1 \in 1..MaxId /\ lastId < lastId + 1
    BY <1>2, ConstantsAssumption DEF Insert
  <2>2. First \in Password
    BY ConstantsAssumption DEF First
  <2>3. users' = users \union {new} /\ lastId' = lastId + 1
    BY <1>2 DEF Insert, NextId
  <2>4. new \in User
    BY <2>1, <2>2 DEF User
  <2>5. \A u \in users : u.name # n /\ u.id # lastId + 1
    BY <1>2 DEF Exists
  <2>6. new.id = lastId + 1 /\ new.name = n /\ new.born = lastId + 1
    OBVIOUS
  <2>7. \A u \in users : u.id \in Nat
    BY DEF User
  <2>8. \E u \in users' : u.id = 1
    <3>0. new \in users' /\ users \subseteq users' /\ lastId \in Nat
      BY <2>3, ConstantsAssumption
    <3>1. CASE lastId = 0
      BY <2>6, <3>0, <3>1
    <3>2. CASE lastId > 0
      BY <3>0, <3>2
    <3> QED BY <3>0, <3>1, <3>2
  <2> HIDE DEF new
  <2> QED BY <2>1, <2>3, <2>4, <2>5, <2>6, <2>7, <2>8
<1> QED BY <1>1, <1>2

\* store.DeleteUser of another account than the first keeps it.
LEMMA DeleteKeeps ==
  ASSUME AccountsInv, NEW i, i # 1, users' = {u \in users : u.id # i}, UNCHANGED lastId
  PROVE  AccountsInv'
BY DEF AccountsInv

\* store.UpdatePassword changes passwords only.
LEMMA WriteKeeps ==
  ASSUME AccountsInv, NEW i, NEW p \in Password, UNCHANGED lastId,
         users' = {IF u.id = i THEN [u EXCEPT !.pw = p] ELSE u : u \in users}
  PROVE  /\ AccountsInv'
         /\ \A v \in users' : \E u \in users :
              /\ v.id = u.id /\ v.name = u.name /\ v.born = u.born
              /\ u.id # i => v = u
<1> DEFINE w(u) == IF u.id = i THEN [u EXCEPT !.pw = p] ELSE u
<1>1. \A u \in users : /\ w(u) \in User
                       /\ w(u).id = u.id /\ w(u).name = u.name /\ w(u).born = u.born
                       /\ u.id # i => w(u) = u
  BY DEF AccountsInv, User
<1>2. users' = {w(u) : u \in users}
  OBVIOUS
<1> HIDE DEF w
<1> QED BY <1>1, <1>2 DEF AccountsInv

LEMMA InvInit == Init => Inv
<1> SUFFICES ASSUME Init PROVE Inv
  OBVIOUS
<1> USE ConstantsAssumption
<1>1. AccountsInv
  <2>1. CASE WithAdmin
    <3> DEFINE a == [id |-> 1, name |-> Admin, pw |-> First, born |-> 1]
    <3>1. users = {a} /\ a \in User /\ a.id = 1 /\ a.born = 1
      BY <2>1 DEF Init, User, First
    <3>2. lastId = 1
      BY <3>1, FS_Singleton DEF Init
    <3> HIDE DEF a
    <3> QED BY <3>1, <3>2 DEF AccountsInv
  <2>2. CASE ~WithAdmin
    BY <2>2, FS_EmptySet DEF Init, AccountsInv
  <2> QED BY <2>1, <2>2
<1>2. Idle.at = "idle" /\ Idle \in Req
  BY ReqMembers DEF Idle
<1>3. Checked
  BY <1>2 DEF Init, Checked
<1> QED BY <1>1, <1>2, <1>3 DEF Init, Inv, TypeOK, AccountsInv, Secret

\* A handler starts or goes on with a request that says what it has checked.
LEMMA ReqKeeps ==
  ASSUME Inv, NEW h \in Handler, NEW r \in Req, req' = [req EXCEPT ![h] = r],
         r.at = "deleting" => r.id # 1,
         r.at \in {"comparing", "writing"} => r.born = r.id
  PROVE  req' \in [Handler -> Req] /\ Checked'
<1>1. /\ req' \in [Handler -> Req]
      /\ req'[h] = r
      /\ \A g \in Handler : g # h => req'[g] = req[g]
  BY ReqTypes DEF Inv, TypeOK
<1> QED BY <1>1 DEF Inv, Checked

LEMMA InvNext == Inv /\ [Next]_vars => Inv'
<1> SUFFICES ASSUME Inv, [Next]_vars PROVE Inv'
  OBVIOUS
<1> USE ConstantsAssumption DEF Inv
<1>0. Idle.at = "idle" /\ Idle \in Req
  BY ReqMembers DEF Idle
<1>a. \A h \in Handler : req[h] \in Req
  BY DEF TypeOK
<1>b. ASSUME UNCHANGED <<users, lastId>> PROVE AccountsInv'
  BY <1>b DEF AccountsInv
<1>c. AccountsInv' => /\ users' \subseteq User /\ lastId' \in 0..MaxId
                      /\ \A u, v \in users' : u.name = v.name \/ u.id = v.id => u = v
  BY DEF AccountsInv
<1>1. ASSUME NEW h \in Handler, NEW n \in Name, Setup(h, n) PROVE Inv'
  <2>1. req' \in [Handler -> Req] /\ Checked'
    BY <1>1, ReqKeeps, ReqMembers DEF Setup, Start
  <2> QED BY <1>1, <1>b, <1>c, <2>1 DEF Setup, dbVars, limiterVars, TypeOK
<1>2. ASSUME NEW h \in Handler, NEW n \in Name, NEW p \in Password, Login(h, n, p) PROVE Inv'
  <2>1. req' \in [Handler -> Req] /\ Checked'
    BY <1>2, ReqKeeps, ReqMembers DEF Login, Start
  <2> QED BY <1>2, <1>b, <1>c, <2>1 DEF Login, dbVars, limiterVars, TypeOK
<1>3. ASSUME NEW h \in Handler, LoginFails(h) PROVE Inv'
  <2>1. req' \in [Handler -> Req] /\ Checked'
    BY <1>3, <1>0, ReqKeeps DEF LoginFails, Continue
  <2> QED BY <1>3, <1>b, <1>c, <2>1 DEF LoginFails, dbVars, TypeOK
<1>4. ASSUME NEW h \in Handler, LoginSucceeds(h) PROVE Inv'
  <2>1. req[h].name \in Name
    BY <1>4, <1>a, ReqShape DEF LoginSucceeds
  <2>2. req' \in [Handler -> Req] /\ Checked'
    BY <1>4, <2>1, ReqKeeps, ReqMembers DEF LoginSucceeds, Continue
  <2> QED BY <1>4, <1>b, <1>c, <2>2 DEF LoginSucceeds, dbVars, TypeOK
<1>5. ASSUME NEW h \in Handler, Sign(h) PROVE Inv'
  <2>1. req[h].name \in Name
    BY <1>5, <1>a, ReqShape DEF Sign, Continue
  <2>2. req' \in [Handler -> Req] /\ Checked'
    BY <1>5, <1>0, ReqKeeps DEF Sign, Continue
  <2>3. cookies' \subseteq Cookie
    BY <1>5, <2>1 DEF Sign, TypeOK, Cookie
  <2> QED BY <1>5, <1>b, <1>c, <2>2, <2>3 DEF Sign, dbVars, limiterVars, TypeOK
<1>6. ASSUME NEW h \in Handler, Request(h) PROVE Inv'
  <2>0. PICK c \in cookies : Authenticated(h, c)
    BY <1>6 DEF Request
  <2>1. req' \in [Handler -> Req] /\ Checked' /\ lastSecret' \in Secret
    <3>1. ASSUME NEW u \in users, NEW old \in Password, NEW new \in Password,
                 Start(h, [at |-> "comparing", id |-> u.id, name |-> u.name, born |-> u.born,
                           old |-> old, pw |-> new])
          PROVE  req' \in [Handler -> Req] /\ Checked'
      <4> DEFINE r == [at |-> "comparing", id |-> u.id, name |-> u.name, born |-> u.born,
                       old |-> old, pw |-> new]
      <4>1. u \in User /\ u.born = u.id
        BY DEF AccountsInv
      <4>2. r \in Req
        <5>1. r \in CallerReq
          BY <4>1 DEF User, CallerReq
        <5> QED BY <5>1, ReqMembers
      <4>3. r.at = "comparing" /\ r.born = r.id /\ req' = [req EXCEPT ![h] = r]
        BY <3>1, <4>1 DEF Start
      <4> HIDE DEF r
      <4> QED BY <4>2, <4>3, ReqKeeps
    <3>2. ASSUME NEW n \in Name, Start(h, [at |-> "creating", name |-> n])
          PROVE  req' \in [Handler -> Req] /\ Checked'
      BY <3>2, ReqKeeps, ReqMembers DEF Start
    <3>3. ASSUME NEW i \in 1..MaxId, Deletable(i), Start(h, [at |-> "deleting", id |-> i])
          PROVE  req' \in [Handler -> Req] /\ Checked'
      BY <3>3, ReqKeeps, ReqMembers DEF Start, Deletable
    <3>4. ASSUME lastSecret < MaxSecret,
                 Start(h, [at |-> "storing", new |-> lastSecret + 1,
                           signed |-> {d.secret : d \in cookies}])
          PROVE  /\ req' \in [Handler -> Req] /\ Checked'
                 /\ lastSecret + 1 \in Secret
      <4> DEFINE r == [at |-> "storing", new |-> lastSecret + 1,
                       signed |-> {d.secret : d \in cookies}]
      <4>1. lastSecret + 1 \in Secret
        BY <3>4 DEF TypeOK, Secret
      <4>2. {d.secret : d \in cookies} \subseteq Secret
        BY DEF TypeOK, Cookie
      <4>3. r \in Req
        <5>1. r \in RotateReq
          BY <4>1, <4>2 DEF RotateReq
        <5> QED BY <5>1, ReqMembers
      <4>4. r.at = "storing" /\ req' = [req EXCEPT ![h] = r]
        BY <3>4 DEF Start
      <4> HIDE DEF r
      <4> QED BY <4>1, <4>3, <4>4, ReqKeeps
    <3>5. lastSecret \in Secret
      BY DEF TypeOK
    <3> QED BY <2>0, <3>1, <3>2, <3>3, <3>4, <3>5 DEF Authenticated
  <2> QED BY <1>6, <1>b, <1>c, <2>1 DEF Request, dbVars, limiterVars, TypeOK
<1>7. ASSUME NEW h \in Handler, CreateUser(h) PROVE Inv'
  <2>1. req[h].name \in Name
    BY <1>7, <1>a, ReqShape DEF CreateUser, Continue
  <2>2. req' \in [Handler -> Req] /\ Checked'
    BY <1>7, <1>0, ReqKeeps DEF CreateUser, Continue
  <2>3. AccountsInv'
    BY <1>7, <2>1, InsertKeeps DEF CreateUser
  <2> QED BY <1>7, <1>c, <2>2, <2>3 DEF CreateUser, limiterVars, TypeOK
<1>8. ASSUME NEW h \in Handler, DeleteUser(h) PROVE Inv'
  <2>1. req[h].id # 1
    BY <1>8 DEF DeleteUser, Continue, Checked
  <2>2. req' \in [Handler -> Req] /\ Checked'
    BY <1>8, <1>0, ReqKeeps DEF DeleteUser, Continue
  <2>3. AccountsInv'
    BY <1>8, <2>1, DeleteKeeps DEF DeleteUser
  <2> QED BY <1>8, <1>c, <2>2, <2>3 DEF DeleteUser, limiterVars, TypeOK
<1>9. ASSUME NEW h \in Handler, ComparePassword(h) PROVE Inv'
  <2>1. req[h] \in CallerReq /\ req[h].born = req[h].id
    BY <1>9, <1>a, ReqShape DEF ComparePassword, Checked
  <2> DEFINE r == [req[h] EXCEPT !.at = "writing"]
  <2>2. r \in CallerReq /\ r.at = "writing" /\ r.born = r.id
    BY <2>1 DEF CallerReq
  <2>3. req' = [req EXCEPT ![h] = r] \/ req' = [req EXCEPT ![h] = Idle]
    BY <1>9 DEF ComparePassword, Continue
  <2>4. req' \in [Handler -> Req] /\ Checked'
    <3> HIDE DEF r
    <3>1. r \in Req
      BY <2>2, ReqMembers
    <3> QED BY <1>0, <2>2, <2>3, <3>1, ReqKeeps
  <2> QED BY <1>9, <1>b, <1>c, <2>4 DEF ComparePassword, dbVars, limiterVars, TypeOK
<1>10. ASSUME NEW h \in Handler, WritePassword(h) PROVE Inv'
  <2>1. req[h] \in CallerReq
    BY <1>10, <1>a, ReqShape DEF WritePassword
  <2>2. req[h].pw \in Password
    BY <2>1 DEF CallerReq
  <2>3. req' \in [Handler -> Req] /\ Checked'
    BY <1>10, <1>0, ReqKeeps DEF WritePassword, Continue
  <2>4. AccountsInv'
    BY <1>10, <2>2, WriteKeeps DEF WritePassword
  <2> QED BY <1>10, <1>c, <2>3, <2>4 DEF WritePassword, limiterVars, TypeOK
<1>11. ASSUME NEW h \in Handler, StoreSecret(h) PROVE Inv'
  <2>1. req[h] \in RotateReq
    BY <1>11, <1>a, ReqShape DEF StoreSecret
  <2> DEFINE r == [req[h] EXCEPT !.at = "swapping"]
  <2>2. r \in RotateReq /\ r.at = "swapping" /\ req[h].new \in Secret
    BY <2>1 DEF RotateReq
  <2>3. req' = [req EXCEPT ![h] = r]
    BY <1>11 DEF StoreSecret, Continue
  <2>4. req' \in [Handler -> Req] /\ Checked'
    <3> HIDE DEF r
    <3>1. r \in Req
      BY <2>2, ReqMembers
    <3> QED BY <2>2, <2>3, <3>1, ReqKeeps
  <2> QED BY <1>11, <1>b, <1>c, <2>2, <2>4 DEF StoreSecret, limiterVars, TypeOK
<1>12. ASSUME NEW h \in Handler, SwapSecret(h) PROVE Inv'
  <2>1. req[h] \in RotateReq
    BY <1>12, <1>a, ReqShape DEF SwapSecret
  <2>2. req[h].new \in Secret /\ req[h].signed \subseteq Secret
    BY <2>1 DEF RotateReq
  <2>3. req' \in [Handler -> Req] /\ Checked'
    BY <1>12, <1>0, ReqKeeps DEF SwapSecret, Continue
  <2> QED BY <1>12, <1>b, <1>c, <2>2, <2>3 DEF SwapSecret, dbVars, limiterVars, TypeOK
<1>13. ASSUME NEW h \in Handler, Abort(h) PROVE Inv'
  <2>1. req' \in [Handler -> Req] /\ Checked'
    BY <1>13, <1>0, ReqKeeps DEF Abort
  <2> QED BY <1>13, <1>b, <1>c, <2>1 DEF Abort, dbVars, limiterVars, TypeOK
<1>14. ASSUME Window \/ Expire PROVE Inv'
  <2>1. UNCHANGED <<users, lastId, stored, secret, lastSecret, req, retired>>
    BY <1>14 DEF Window, Expire, dbVars
  <2>2. cookies' \subseteq Cookie /\ failures' \in Nat /\ guesses' \in Nat
    BY <1>14 DEF Window, Expire, limiterVars, TypeOK
  <2> QED BY <1>b, <1>c, <2>1, <2>2 DEF Checked, TypeOK
<1>15. CASE Restart
  <2>1. AccountsInv'
    BY <1>15, <1>b, InsertKeeps DEF Restart
  <2>2. secret' \in Secret
    BY <1>15 DEF Restart, TypeOK, Secret
  <2>3. req' \in [Handler -> Req] /\ Checked'
    BY <1>15, <1>0 DEF Restart, Checked
  <2> QED BY <1>15, <1>c, <2>1, <2>2, <2>3 DEF Restart, TypeOK
<1>16. CASE UNCHANGED vars
  BY <1>16, <1>b, <1>c DEF vars, dbVars, limiterVars, Checked, TypeOK
<1> QED
  BY <1>1, <1>2, <1>3, <1>4, <1>5, <1>6, <1>7, <1>8, <1>9, <1>10, <1>11, <1>12, <1>13,
     <1>14, <1>15, <1>16 DEF Next

LEMMA Invariant == Spec => []Inv
BY InvInit, InvNext, PTL DEF Spec

-----------------------------------------------------------------------------
(* The limiter                                                              *)

Logins == {h \in Handler : req[h].at = "login"}

\* The logins that have passed the limiter and not compared their password yet
\* count as wrong passwords already.
LoginInv ==
  /\ failures = guesses
  /\ guesses + Cardinality(Logins) < Limit + Cardinality(Handler)

LEMMA LoginsType ==
  /\ Cardinality(Handler) \in Nat
  /\ IsFiniteSet(Logins) /\ Cardinality(Logins) \in Nat
  /\ Cardinality(Logins) <= Cardinality(Handler)
<1>1. Logins \subseteq Handler
  BY DEF Logins
<1> QED BY <1>1, ConstantsAssumption, FS_Subset, FS_CardinalityType

\* A step after which the handler is not at its login.
LEMMA LoginsDrop ==
  ASSUME req \in [Handler -> Req], NEW h \in Handler, NEW r \in Req, r.at # "login",
         req' = [req EXCEPT ![h] = r]
  PROVE  /\ Cardinality(Logins)' \in Nat
         /\ Cardinality(Logins)' <= Cardinality(Logins)
         /\ req[h].at = "login" => Cardinality(Logins)' = Cardinality(Logins) - 1
<1>1. Logins' = Logins \ {h}
  BY DEF Logins
<1>2. h \in Logins <=> req[h].at = "login"
  BY DEF Logins
<1>3. CASE h \in Logins
  <2>1. IsFiniteSet(Logins \ {h}) /\ Cardinality(Logins \ {h}) = Cardinality(Logins) - 1
    BY <1>3, LoginsType, FS_RemoveElement
  <2>2. Cardinality(Logins \ {h}) \in Nat
    BY <2>1, FS_CardinalityType
  <2> QED BY <1>1, <2>1, <2>2, LoginsType
<1>4. CASE h \notin Logins
  <2>1. Logins' = Logins
    BY <1>1, <1>4
  <2> QED BY <1>2, <1>4, <2>1, LoginsType
<1> QED BY <1>3, <1>4

LEMMA LoginsAdd ==
  ASSUME req \in [Handler -> Req], NEW h \in Handler, NEW r \in Req, r.at = "login",
         req[h].at # "login", req' = [req EXCEPT ![h] = r]
  PROVE  /\ Cardinality(Logins)' \in Nat
         /\ Cardinality(Logins) + 1 <= Cardinality(Handler)
         /\ Cardinality(Logins)' = Cardinality(Logins) + 1
<1>1. Logins' = Logins \union {h} /\ h \notin Logins
  BY DEF Logins
<1>2. Logins' \subseteq Handler
  BY DEF Logins
<1>3. Cardinality(Logins)' = Cardinality(Logins) + 1
  BY <1>1, LoginsType, FS_AddElement
<1>4. Cardinality(Logins') <= Cardinality(Handler)
  BY <1>2, ConstantsAssumption, FS_Subset
<1> QED BY <1>3, <1>4, LoginsType

LEMMA LoginInvInit == Init => LoginInv
<1> SUFFICES ASSUME Init PROVE LoginInv
  OBVIOUS
<1>1. Logins = {}
  BY DEF Init, Logins, Idle
<1>2. Cardinality(Logins) = 0
  BY <1>1, FS_EmptySet
<1> QED BY <1>2, LoginsType, ConstantsAssumption DEF Init, LoginInv

\* A request with a cookie begins one of four handlers.
LEMMA Requested ==
  ASSUME req \in [Handler -> Req], NEW h \in Handler, Request(h)
  PROVE  /\ req' = [req EXCEPT ![h] = req'[h]]
         /\ req'[h].at \in {"comparing", "creating", "deleting", "storing"}
         /\ \/ req'[h].at # "storing" /\ UNCHANGED lastSecret
            \/ /\ lastSecret' = lastSecret + 1
               /\ Start(h, [at |-> "storing", new |-> lastSecret + 1,
                            signed |-> {d.secret : d \in cookies}])
<1>0. PICK c \in cookies : Authenticated(h, c)
  BY DEF Request
<1>a. ASSUME NEW r, Start(h, r)
      PROVE  req' = [req EXCEPT ![h] = req'[h]] /\ req'[h] = r
  BY <1>a DEF Start
<1>1. ASSUME NEW u \in users, NEW old \in Password, NEW new \in Password,
             Start(h, [at |-> "comparing", id |-> u.id, name |-> u.name, born |-> u.born,
                       old |-> old, pw |-> new])
      PROVE  req' = [req EXCEPT ![h] = req'[h]] /\ req'[h].at = "comparing"
  BY <1>1, <1>a
<1>2. ASSUME NEW n, Start(h, [at |-> "creating", name |-> n])
      PROVE  req' = [req EXCEPT ![h] = req'[h]] /\ req'[h].at = "creating"
  BY <1>2, <1>a
<1>3. ASSUME NEW i, Start(h, [at |-> "deleting", id |-> i])
      PROVE  req' = [req EXCEPT ![h] = req'[h]] /\ req'[h].at = "deleting"
  BY <1>3, <1>a
<1>4. ASSUME Start(h, [at |-> "storing", new |-> lastSecret + 1,
                       signed |-> {d.secret : d \in cookies}])
      PROVE  req' = [req EXCEPT ![h] = req'[h]] /\ req'[h].at = "storing"
  BY <1>4, <1>a
<1> QED BY <1>0, <1>1, <1>2, <1>3, <1>4 DEF Authenticated

\* The password was compared, or the new secret was stored.
LEMMA Resumed ==
  ASSUME req \in [Handler -> Req], NEW h \in Handler
  PROVE  /\ ComparePassword(h) =>
              /\ req' = [req EXCEPT ![h] = req'[h]]
              /\ \/ req'[h] = Idle /\ req'[h].at = "idle"
                 \/ /\ req'[h].at = "writing"
                    /\ req[h] \in CallerReq /\ req'[h] \in CallerReq
                    /\ req'[h].id = req[h].id /\ req'[h].born = req[h].born
         /\ StoreSecret(h) =>
              /\ req' = [req EXCEPT ![h] = req'[h]]
              /\ req'[h].at = "swapping"
              /\ req[h] \in RotateReq /\ req'[h] \in RotateReq
              /\ req'[h].new = req[h].new /\ req'[h].signed = req[h].signed
<1>0. req[h] \in Req /\ Idle.at = "idle"
  BY DEF Idle
<1>a. ASSUME NEW from, NEW r, Continue(h, from, r)
      PROVE  req' = [req EXCEPT ![h] = req'[h]] /\ req'[h] = r
  BY <1>a DEF Continue
<1>1. ASSUME ComparePassword(h)
      PROVE  /\ req' = [req EXCEPT ![h] = req'[h]]
             /\ \/ req'[h] = Idle
                \/ req'[h] = [req[h] EXCEPT !.at = "writing"]
             /\ req[h] \in CallerReq
  BY <1>0, <1>1, <1>a, ReqShape DEF ComparePassword
<1>2. ASSUME req[h] \in CallerReq, req'[h] = [req[h] EXCEPT !.at = "writing"]
      PROVE  /\ req'[h].at = "writing" /\ req'[h] \in CallerReq
             /\ req'[h].id = req[h].id /\ req'[h].born = req[h].born
  BY <1>2 DEF CallerReq
<1>3. ASSUME StoreSecret(h)
      PROVE  /\ req' = [req EXCEPT ![h] = req'[h]]
             /\ req'[h] = [req[h] EXCEPT !.at = "swapping"]
             /\ req[h] \in RotateReq
  BY <1>0, <1>3, <1>a, ReqShape DEF StoreSecret
<1>4. ASSUME req[h] \in RotateReq, req'[h] = [req[h] EXCEPT !.at = "swapping"]
      PROVE  /\ req'[h].at = "swapping" /\ req'[h] \in RotateReq
             /\ req'[h].new = req[h].new /\ req'[h].signed = req[h].signed
  BY <1>4 DEF RotateReq
<1> QED BY <1>0, <1>1, <1>2, <1>3, <1>4

LEMMA LoginInvNext == Inv /\ LoginInv /\ [Next]_vars => LoginInv'
<1> SUFFICES ASSUME Inv, LoginInv, [Next]_vars PROVE LoginInv'
  OBVIOUS
<1> USE ConstantsAssumption
<1>0. /\ req \in [Handler -> Req] /\ failures \in Nat /\ guesses \in Nat
      /\ Cardinality(Handler) \in Nat /\ Cardinality(Logins) \in Nat
      /\ Cardinality(Logins) <= Cardinality(Handler)
  BY LoginsType DEF Inv, TypeOK
<1>a. Idle.at = "idle" /\ Idle \in Req
  BY ReqMembers DEF Idle
<1>b. ASSUME NEW h \in Handler, NEW r \in Req, r.at # "login", req' = [req EXCEPT ![h] = r],
             UNCHANGED limiterVars
      PROVE  LoginInv'
  <2>1. Cardinality(Logins)' \in Nat /\ Cardinality(Logins)' <= Cardinality(Logins)
    BY <1>0, <1>b, LoginsDrop
  <2> QED BY <1>0, <1>b, <2>1 DEF LoginInv, limiterVars
<1>c. ASSUME failures' = 0, guesses' = 0, Logins' \subseteq Logins
      PROVE  LoginInv'
  <2>1. Cardinality(Logins)' \in Nat /\ Cardinality(Logins)' <= Cardinality(Logins)
    BY <1>c, LoginsType, FS_Subset, FS_CardinalityType
  <2> QED BY <1>0, <1>c, <2>1 DEF LoginInv
<1>1. ASSUME NEW h \in Handler, NEW n \in Name, Setup(h, n) PROVE LoginInv'
  BY <1>1, <1>b, ReqMembers DEF Setup, Start
<1>2. ASSUME NEW h \in Handler, NEW n \in Name, NEW p \in Password, Login(h, n, p)
      PROVE  LoginInv'
  <2>1. /\ Cardinality(Logins)' \in Nat
        /\ Cardinality(Logins) + 1 <= Cardinality(Handler)
        /\ Cardinality(Logins)' = Cardinality(Logins) + 1
    BY <1>0, <1>2, <1>a, LoginsAdd, ReqMembers DEF Login, Start
  <2>2. guesses < Limit /\ failures' = failures /\ guesses' = guesses
    BY <1>0, <1>2 DEF Login, blocked, limiterVars, LoginInv
  <2> QED BY <1>0, <2>1, <2>2 DEF LoginInv
<1>3. ASSUME NEW h \in Handler, LoginFails(h) PROVE LoginInv'
  <2>1. /\ Cardinality(Logins)' \in Nat
        /\ Cardinality(Logins)' = Cardinality(Logins) - 1
    BY <1>0, <1>3, <1>a, LoginsDrop DEF LoginFails, Continue
  <2>2. failures' = failures + 1 /\ guesses' = guesses + 1
    BY <1>3 DEF LoginFails
  <2> QED BY <1>0, <2>1, <2>2 DEF LoginInv
<1>4. ASSUME NEW h \in Handler, LoginSucceeds(h) PROVE LoginInv'
  <2>1. \A g \in Handler : req'[g].at = "login" => req[g].at = "login"
    BY <1>0, <1>4 DEF LoginSucceeds, Continue
  <2>2. Logins' \subseteq Logins
    BY <2>1 DEF Logins
  <2> QED BY <1>4, <1>c, <2>2 DEF LoginSucceeds
<1>5. ASSUME NEW h \in Handler, Sign(h) \/ CreateUser(h) \/ DeleteUser(h) \/ WritePassword(h)
                                 \/ SwapSecret(h) \/ Abort(h)
      PROVE  LoginInv'
  <2>1. req' = [req EXCEPT ![h] = Idle] /\ UNCHANGED limiterVars
    BY <1>5 DEF Sign, CreateUser, DeleteUser, WritePassword, SwapSecret, Abort, Continue
  <2> QED BY <1>a, <1>b, <2>1
<1>6. ASSUME NEW h \in Handler, Request(h) PROVE LoginInv'
  <2>1. req' \in [Handler -> Req]
    BY <1>6, InvNext DEF Inv, TypeOK, Next
  <2>2. UNCHANGED limiterVars
    BY <1>6 DEF Request
  <2> QED BY <1>0, <1>6, <1>b, <2>1, <2>2, Requested
<1>7. ASSUME NEW h \in Handler, ComparePassword(h) \/ StoreSecret(h) PROVE LoginInv'
  <2>1. req' \in [Handler -> Req] /\ UNCHANGED limiterVars
    BY <1>7, InvNext DEF Inv, TypeOK, Next, ComparePassword, StoreSecret
  <2>2. /\ req' = [req EXCEPT ![h] = req'[h]]
        /\ req'[h].at \in {"idle", "writing", "swapping"}
    BY <1>0, <1>7, Resumed
  <2> QED BY <1>b, <2>1, <2>2
<1>8. CASE Window \/ Expire
  <2>1. Logins' = Logins
    BY <1>8 DEF Window, Expire, Logins
  <2> QED BY <1>8, <1>c, <2>1 DEF Window, Expire, limiterVars, LoginInv
<1>9. CASE Restart
  <2>1. Logins' = {}
    BY <1>9, <1>a DEF Restart, Logins
  <2> QED BY <1>9, <1>c, <2>1 DEF Restart
<1>10. CASE UNCHANGED vars
  BY <1>10 DEF vars, limiterVars, Logins, LoginInv
<1> QED
  BY <1>1, <1>2, <1>3, <1>4, <1>5, <1>6, <1>7, <1>8, <1>9, <1>10 DEF Next

-----------------------------------------------------------------------------
(* The signing secret                                                       *)

Rotating(h) == req[h].at \in {"storing", "swapping"}
SecretsSigned == {c.secret : c \in cookies}

\* Every secret is made once: that of a rotation at work is nobody else's yet. The
\* stored secret and, unless it is pinned, the one in use sign no retired token.
MadeInv ==
  /\ stored <= lastSecret
  /\ secret <= lastSecret
  /\ \A s \in SecretsSigned \union retired : s <= lastSecret
  /\ \A h \in Handler : Rotating(h) =>
       req[h].new <= lastSecret /\ \A s \in req[h].signed : s <= lastSecret

FreshInv ==
  \A h \in Handler : Rotating(h) =>
    /\ req[h].new # secret
    /\ req[h].new \notin SecretsSigned \union retired
    /\ \A g \in Handler : Rotating(g) =>
         req[h].new \notin req[g].signed /\ (req[h].new = req[g].new => g = h)
    /\ req[h].at = "storing" => req[h].new # stored
    /\ req[h].at = "swapping" => stored \notin req[h].signed

RetiredInv == stored \notin retired /\ (~Pinned => secret \notin retired)

SecretInv == MadeInv /\ FreshInv /\ RetiredInv

LEMMA SecretInvInit == Init => SecretInv
<1> SUFFICES ASSUME Init PROVE SecretInv
  OBVIOUS
<1>1. \A h \in Handler : ~Rotating(h)
  BY DEF Init, Rotating, Idle
<1>2. SecretsSigned = {} /\ retired = {}
  BY DEF Init, SecretsSigned
<1> QED BY <1>1, <1>2 DEF Init, SecretInv, MadeInv, FreshInv, RetiredInv

\* A step of a handler that rotates nothing, and signs with nothing but the secret
\* in use.
LEMMA QuietKeeps ==
  ASSUME SecretInv, req \in [Handler -> Req], NEW h \in Handler,
         req' = [req EXCEPT ![h] = req'[h]], req'[h].at \notin {"storing", "swapping"},
         UNCHANGED <<stored, secret, lastSecret, retired>>,
         SecretsSigned' \subseteq SecretsSigned \union {secret}
  PROVE  SecretInv'
<1>1. \A g \in Handler : Rotating(g)' => Rotating(g) /\ req'[g] = req[g]
  BY DEF Rotating
<1>2. MadeInv'
  BY <1>1 DEF SecretInv, MadeInv
<1>3. FreshInv'
  BY <1>1 DEF SecretInv, FreshInv
<1> QED BY <1>2, <1>3 DEF SecretInv, RetiredInv

LEMMA RotateKeeps ==
  ASSUME Inv, SecretInv, NEW h \in Handler, lastSecret' = lastSecret + 1,
         Start(h, [at |-> "storing", new |-> lastSecret + 1, signed |-> SecretsSigned]),
         UNCHANGED <<stored, secret, retired, cookies>>
  PROVE  SecretInv'
<1>1. /\ req'[h].at = "storing" /\ req'[h].new = lastSecret + 1 /\ req'[h].signed = SecretsSigned
      /\ \A g \in Handler : g # h => req'[g] = req[g]
      /\ Rotating(h)'
      /\ \A g \in Handler : g # h => Rotating(g)' = Rotating(g)
  BY DEF Start, Inv, TypeOK, Rotating
<1>2. SecretsSigned' = SecretsSigned
  BY DEF SecretsSigned
<1>3. /\ lastSecret \in Nat /\ stored \in Nat /\ secret \in Nat /\ retired \subseteq Nat
      /\ SecretsSigned \subseteq Nat
      /\ \A g \in Handler : Rotating(g) => req[g].new \in Nat /\ req[g].signed \subseteq Nat
  <2>1. \A g \in Handler : Rotating(g) => req[g] \in RotateReq
    BY ReqShape DEF Rotating, Inv, TypeOK
  <2>2. Secret \subseteq Nat
    BY DEF Secret
  <2> QED BY <2>1, <2>2 DEF RotateReq, Inv, TypeOK, SecretsSigned, Cookie
<1>4. \A n \in Nat : n <= lastSecret => n <= lastSecret + 1 /\ n # lastSecret + 1
  BY <1>3
<1>5. MadeInv'
  <2>1. stored' <= lastSecret' /\ secret' <= lastSecret'
    BY <1>3, <1>4 DEF SecretInv, MadeInv
  <2>2. \A s \in (SecretsSigned \union retired)' : s <= lastSecret'
    BY <1>2, <1>3, <1>4 DEF SecretInv, MadeInv
  <2>3. ASSUME NEW g \in Handler, Rotating(g)'
        PROVE  req'[g].new <= lastSecret' /\ \A s \in req'[g].signed : s <= lastSecret'
    <3>1. CASE g = h
      <4>1. \A s \in SecretsSigned : s <= lastSecret + 1
        BY <1>3, <1>4 DEF SecretInv, MadeInv
      <4>2. lastSecret + 1 <= lastSecret + 1
        BY <1>3
      <4> QED BY <1>1, <3>1, <4>1, <4>2
    <3>2. CASE g # h
      BY <1>1, <1>3, <1>4, <2>3, <3>2 DEF SecretInv, MadeInv
    <3> QED BY <3>1, <3>2
  <2> QED BY <2>1, <2>2, <2>3 DEF MadeInv
<1>6. FreshInv'
  <2>1. /\ stored # lastSecret + 1 /\ secret # lastSecret + 1
        /\ lastSecret + 1 \notin SecretsSigned \union retired
        /\ \A g \in Handler : Rotating(g) =>
             req[g].new # lastSecret + 1 /\ lastSecret + 1 \notin req[g].signed
    BY <1>3, <1>4 DEF SecretInv, MadeInv
  <2> QED BY <1>1, <1>2, <2>1 DEF SecretInv, FreshInv
<1> QED BY <1>5, <1>6 DEF SecretInv, RetiredInv

LEMMA StoreKeeps ==
  ASSUME Inv, SecretInv, NEW h \in Handler, StoreSecret(h)
  PROVE  SecretInv'
<1>1. /\ req[h].at = "storing" /\ req'[h].at = "swapping"
      /\ req'[h].new = req[h].new /\ req'[h].signed = req[h].signed
      /\ \A g \in Handler : g # h => req'[g] = req[g]
  BY Resumed DEF StoreSecret, Inv, TypeOK
<1>2. /\ stored' = req[h].new /\ SecretsSigned' = SecretsSigned
      /\ UNCHANGED <<secret, lastSecret, retired>>
  BY DEF StoreSecret, SecretsSigned
<1>3. \A g \in Handler : /\ Rotating(g)' = Rotating(g)
                         /\ req'[g].new = req[g].new /\ req'[g].signed = req[g].signed
  BY <1>1 DEF Rotating
<1>4. Rotating(h)
  BY <1>1 DEF Rotating
<1>5. MadeInv'
  BY <1>2, <1>3, <1>4 DEF SecretInv, MadeInv
<1>6. FreshInv'
  <2>1. \A g \in Handler : Rotating(g) =>
          /\ req[h].new \notin req[g].signed
          /\ g # h => req[h].new # req[g].new
    BY <1>4 DEF SecretInv, FreshInv
  <2>2. \A g \in Handler : req'[g].at = "storing" => req[g].at = "storing" /\ g # h
    BY <1>1
  <2> QED BY <1>2, <1>3, <2>1, <2>2 DEF SecretInv, FreshInv
<1> QED BY <1>2, <1>4, <1>5, <1>6 DEF SecretInv, FreshInv, RetiredInv

LEMMA SwapKeeps ==
  ASSUME Inv, SecretInv, NEW h \in Handler, SwapSecret(h)
  PROVE  SecretInv'
<1>1. /\ req[h].at = "swapping" /\ Rotating(h) /\ ~Rotating(h)'
      /\ \A g \in Handler : g # h => req'[g] = req[g] /\ Rotating(g)' = Rotating(g)
  BY DEF SwapSecret, Continue, Rotating, Idle, Inv, TypeOK
<1>2. /\ secret' = req[h].new /\ retired' = retired \union req[h].signed
      /\ SecretsSigned' = SecretsSigned
      /\ UNCHANGED <<stored, lastSecret>>
  BY DEF SwapSecret, SecretsSigned, dbVars
<1>3. MadeInv'
  BY <1>1, <1>2 DEF SecretInv, MadeInv
<1>4. FreshInv'
  BY <1>1, <1>2 DEF SecretInv, FreshInv
<1> QED BY <1>1, <1>2, <1>3, <1>4 DEF SecretInv, FreshInv, RetiredInv

LEMMA SecretInvNext == Inv /\ SecretInv /\ [Next]_vars => SecretInv'
<1> SUFFICES ASSUME Inv, SecretInv, [Next]_vars PROVE SecretInv'
  OBVIOUS
<1>0. req \in [Handler -> Req] /\ Idle.at = "idle"
  BY DEF Inv, TypeOK, Idle
<1>a. ASSUME UNCHANGED cookies PROVE SecretsSigned' = SecretsSigned
  BY <1>a DEF SecretsSigned
<1>1. ASSUME NEW h \in Handler, NEW n \in Name, Setup(h, n) PROVE SecretInv'
  <2>1. req' = [req EXCEPT ![h] = req'[h]] /\ req'[h].at = "creating"
    BY <1>0, <1>1 DEF Setup, Start
  <2> QED BY <1>0, <1>1, <1>a, <2>1, QuietKeeps DEF Setup, dbVars
<1>2. ASSUME NEW h \in Handler, NEW n \in Name, NEW p \in Password, Login(h, n, p)
      PROVE  SecretInv'
  <2>1. req' = [req EXCEPT ![h] = req'[h]] /\ req'[h].at = "login"
    BY <1>0, <1>2 DEF Login, Start
  <2> QED BY <1>0, <1>2, <1>a, <2>1, QuietKeeps DEF Login, dbVars
<1>3. ASSUME NEW h \in Handler,
             LoginFails(h) \/ CreateUser(h) \/ DeleteUser(h) \/ WritePassword(h) \/ Abort(h)
      PROVE  SecretInv'
  <2>1. req' = [req EXCEPT ![h] = req'[h]] /\ req'[h].at = "idle"
    BY <1>0, <1>3 DEF LoginFails, CreateUser, DeleteUser, WritePassword, Abort, Continue
  <2>2. UNCHANGED <<stored, secret, lastSecret, cookies, retired>>
    BY <1>3 DEF LoginFails, CreateUser, DeleteUser, WritePassword, Abort, dbVars
  <2> QED BY <1>0, <1>a, <2>1, <2>2, QuietKeeps
<1>4. ASSUME NEW h \in Handler, LoginSucceeds(h) PROVE SecretInv'
  <2>1. req' = [req EXCEPT ![h] = req'[h]] /\ req'[h].at = "sign"
    BY <1>0, <1>4 DEF LoginSucceeds, Continue
  <2> QED BY <1>0, <1>4, <1>a, <2>1, QuietKeeps DEF LoginSucceeds, dbVars
<1>5. ASSUME NEW h \in Handler, Sign(h) PROVE SecretInv'
  <2>1. req' = [req EXCEPT ![h] = req'[h]] /\ req'[h].at = "idle"
    BY <1>0, <1>5 DEF Sign, Continue
  <2>2. SecretsSigned' \subseteq SecretsSigned \union {secret}
    BY <1>5 DEF Sign, SecretsSigned
  <2> QED BY <1>0, <1>5, <2>1, <2>2, QuietKeeps DEF Sign, dbVars
<1>6. ASSUME NEW h \in Handler, Request(h) PROVE SecretInv'
  <2>1. /\ req' = [req EXCEPT ![h] = req'[h]]
        /\ UNCHANGED <<stored, secret, cookies, retired>>
    BY <1>0, <1>6, Requested DEF Request, dbVars
  <2>2. \/ req'[h].at \notin {"storing", "swapping"} /\ UNCHANGED lastSecret
        \/ /\ lastSecret' = lastSecret + 1
           /\ Start(h, [at |-> "storing", new |-> lastSecret + 1, signed |-> SecretsSigned])
    BY <1>0, <1>6, Requested DEF SecretsSigned
  <2> QED BY <1>0, <1>a, <2>1, <2>2, QuietKeeps, RotateKeeps
<1>7. ASSUME NEW h \in Handler, ComparePassword(h) PROVE SecretInv'
  <2>1. req' = [req EXCEPT ![h] = req'[h]] /\ req'[h].at \in {"idle", "writing"}
    BY <1>0, <1>7, Resumed
  <2> QED BY <1>0, <1>7, <1>a, <2>1, QuietKeeps DEF ComparePassword, dbVars
<1>8. ASSUME NEW h \in Handler, StoreSecret(h) \/ SwapSecret(h) PROVE SecretInv'
  BY <1>8, StoreKeeps, SwapKeeps
<1>9. CASE Window \/ Expire
  <2>1. UNCHANGED <<stored, secret, lastSecret, req, retired>>
    BY <1>9 DEF Window, Expire, dbVars
  <2>2. SecretsSigned' \subseteq SecretsSigned
    BY <1>9 DEF Window, Expire, SecretsSigned
  <2>3. \A g \in Handler : Rotating(g)' = Rotating(g)
    BY <2>1 DEF Rotating
  <2> QED BY <2>1, <2>2, <2>3 DEF SecretInv, MadeInv, FreshInv, RetiredInv
<1>10. CASE Restart
  <2>1. \A g \in Handler : ~Rotating(g)'
    BY <1>0, <1>10 DEF Restart, Rotating
  <2>2. /\ UNCHANGED <<stored, lastSecret, cookies, retired>>
        /\ secret' = IF Pinned THEN 1 ELSE stored
    BY <1>10 DEF Restart
  <2>3. lastSecret \in 1..MaxSecret
    BY DEF Inv, TypeOK, Secret
  <2> QED BY <1>a, <2>1, <2>2, <2>3 DEF SecretInv, MadeInv, FreshInv, RetiredInv
<1>11. CASE UNCHANGED vars
  <2>1. UNCHANGED <<stored, secret, lastSecret, cookies, req, retired>>
    BY <1>11 DEF vars, dbVars
  <2>2. \A g \in Handler : Rotating(g)' = Rotating(g)
    BY <2>1 DEF Rotating
  <2> QED BY <1>a, <2>1, <2>2 DEF SecretInv, MadeInv, FreshInv, RetiredInv
<1> QED
  BY <1>1, <1>2, <1>3, <1>4, <1>5, <1>6, <1>7, <1>8, <1>9, <1>10, <1>11 DEF Next

-----------------------------------------------------------------------------
(* Results                                                                  *)

\* Every state of the server's accounts and sessions is well-formed; two accounts
\* share neither a name nor an id (store.CreateUser, UNIQUE on username).
THEOREM TypeCorrect == Spec => []TypeOK
BY Invariant, PTL DEF Inv

\* The administrator stays, however many requests set up, create and delete at
\* once (Setup, CreateUser, DeleteUser, bootstrap).
THEOREM AdministratorStaysAlways == Spec => []AdministratorStays
<1>1. Inv => AdministratorStays
  <2> SUFFICES ASSUME Inv, NEW u \in users PROVE \E v \in users : v.id = 1
    BY DEF AdministratorStays
  <2>1. u.id \in 1..MaxId /\ u.id <= lastId /\ lastId \in 0..MaxId
    BY DEF Inv, AccountsInv, User
  <2>2. lastId > 0
    BY <2>1, ConstantsAssumption
  <2> QED BY <2>2 DEF Inv, AccountsInv
<1> QED BY <1>1, Invariant, PTL

\* The limiter lets no more wrong passwords through than its limit and one for
\* each login at once (Login, loginLimiter).
THEOREM GuessesAreBoundedAlways == Spec => []GuessesAreBounded
<1>1. Inv /\ LoginInv => GuessesAreBounded
  BY LoginsType, ConstantsAssumption DEF Inv, TypeOK, LoginInv, GuessesAreBounded
<1> QED BY <1>1, Invariant, LoginInvInit, LoginInvNext, PTL DEF Spec

\* A token signed before a completed rotation is refused, also after a restart,
\* unless the configuration pins the secret (RotateJWT, bootstrap).
THEOREM RotatedTokensAreRefusedAlways == Spec => []RotatedTokensAreRefused
<1>1. SecretInv => RotatedTokensAreRefused
  BY DEF SecretInv, RetiredInv, RotatedTokensAreRefused
<1> QED BY <1>1, Invariant, SecretInvInit, SecretInvNext, PTL DEF Spec

\* Nobody's password changes but that of the account whose request was verified
\* (ChangePassword, store.UpdatePassword).
THEOREM PasswordOfCallerOnlyAlways == Spec => PasswordOfCallerOnly
<1> DEFINE Changed(u) == \E h \in Handler : req[h].at = "writing" /\ req[h].born = u.born
           Same == \A u \in users, v \in users' : u.born = v.born /\ u.pw # v.pw => Changed(u)
<1>1. Inv /\ [Next]_vars => Same
  <2> SUFFICES ASSUME Inv, [Next]_vars, NEW u \in users, NEW v \in users',
                      u.born = v.born, u.pw # v.pw
               PROVE  Changed(u)
    OBVIOUS
  <2>0. /\ \A a, b \in users : a.born = b.born => a = b
        /\ \A a \in users : a.born = a.id /\ a.id \in Nat /\ a.id <= lastId
        /\ lastId \in Nat
    BY ConstantsAssumption DEF Inv, AccountsInv, User
  <2>a. ASSUME NEW n, Insert(n) PROVE v \in users
    <3> DEFINE new == [id |-> NextId, name |-> n, pw |-> First, born |-> lastId + 1]
    <3>1. users' = users \/ users' = users \union {new}
      BY <2>a DEF Insert
    <3>2. new.born = lastId + 1
      OBVIOUS
    <3> HIDE DEF new
    <3>3. u.born # lastId + 1
      BY <2>0
    <3> QED BY <3>1, <3>2, <3>3
  <2>1. CASE \E h \in Handler : WritePassword(h)
    <3> PICK h \in Handler : WritePassword(h)
      BY <2>1
    <3>1. req[h].at = "writing" /\ req[h].born = req[h].id /\ req[h].pw \in Password
      BY ReqShape DEF WritePassword, Inv, TypeOK, Checked, CallerReq
    <3>2. \E w \in users : /\ v.id = w.id /\ v.name = w.name /\ v.born = w.born
                           /\ w.id # req[h].id => v = w
      BY <3>1, WriteKeeps DEF WritePassword, Inv
    <3>3. u.id = req[h].id
      BY <2>0, <3>2
    <3> QED BY <2>0, <3>1, <3>3
  <2>2. CASE users' \subseteq users
    BY <2>0, <2>2
  <2>3. ASSUME NEW h \in Handler, CreateUser(h) PROVE FALSE
    BY <2>0, <2>a, <2>3 DEF CreateUser
  <2>4. ASSUME Restart PROVE FALSE
    BY <2>0, <2>2, <2>a, <2>4 DEF Restart
  <2>5. ASSUME NEW h \in Handler, DeleteUser(h) PROVE users' \subseteq users
    BY <2>5 DEF DeleteUser
  <2>6. ASSUME NEW h \in Handler,
               \/ \E n \in Name : Setup(h, n) \/ \E p \in Password : Login(h, n, p)
               \/ LoginFails(h) \/ LoginSucceeds(h) \/ Sign(h) \/ Request(h)
               \/ ComparePassword(h) \/ StoreSecret(h) \/ SwapSecret(h) \/ Abort(h)
        PROVE  users' = users
    BY <2>6 DEF Setup, Login, LoginFails, LoginSucceeds, Sign, Request, ComparePassword,
                StoreSecret, SwapSecret, Abort, dbVars
  <2>7. CASE Window \/ Expire \/ UNCHANGED vars
    BY <2>2, <2>7 DEF Window, Expire, vars, dbVars
  <2> QED BY <2>1, <2>2, <2>3, <2>4, <2>5, <2>6, <2>7 DEF Next
<1>2. Same <=> \A u \in users, v \in users' :
                 u.born = v.born /\ u.pw # v.pw =>
                   \E h \in Handler : req[h].at = "writing" /\ req[h].born = u.born
  OBVIOUS
<1> HIDE DEF Same
<1>3. Inv /\ [Next]_vars =>
        [\A u \in users, v \in users' :
           u.born = v.born /\ u.pw # v.pw =>
             \E h \in Handler : req[h].at = "writing" /\ req[h].born = u.born]_vars
  BY <1>1, <1>2
<1> QED BY <1>3, Invariant, PTL DEF Spec, PasswordOfCallerOnly

=============================================================================

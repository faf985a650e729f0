---------------------------- MODULE AuthSessions ----------------------------
(***************************************************************************)
(* Accounts, sessions and the signing secret of the server: the handlers   *)
(* Setup, Login, CreateUser, DeleteUser, ChangePassword and RotateJWT      *)
(* (package api), each a sequence of reads and writes that others may come *)
(* between, on the users and settings tables of package store, and the     *)
(* bootstrap of a start. Requests of one client address; addresses only    *)
(* share the limiter's window.                                             *)
(***************************************************************************)
EXTENDS Naturals, FiniteSets

CONSTANTS
  Pinned,    \* the configuration names a jwt_secret
  WithAdmin, \* the configuration names an admin account
  Handler,   \* requests that may run at once
  Name,      \* user names
  Admin,     \* admin_username of the configuration
  Password,
  Limit,     \* failures the limiter allows (10 in the code)
  MaxId,     \* bound on the user ids
  MaxSecret, \* bound on the signing secrets
  MaxCookies \* bound on the tokens that have not expired

ASSUME ConstantsAssumption ==
  /\ Pinned \in BOOLEAN
  /\ WithAdmin \in BOOLEAN
  /\ IsFiniteSet(Handler)
  /\ Admin \in Name
  /\ Password # {}
  /\ Limit \in Nat \ {0}
  /\ MaxId \in Nat \ {0}
  /\ MaxSecret \in Nat \ {0}
  /\ MaxCookies \in Nat

VARIABLES
  users,    \* rows of the users table
  lastId,   \* sqlite_sequence of that table
  stored,   \* the setting jwt_secret
  secret,   \* Auth.secret
  lastSecret, \* secrets made so far; the first is that of the configuration
  cookies,  \* signed tokens that have not expired; a logout takes none back
  failures, \* loginLimiter.failures of the address
  guesses,  \* wrong passwords compared since failures was last cleared
  req,      \* the handlers
  retired   \* secrets of tokens that were signed before a completed rotation

dbVars == <<users, lastId, stored>>
limiterVars == <<failures, guesses>>
vars == <<dbVars, secret, lastSecret, cookies, limiterVars, req, retired>>

\* "born" counts the accounts made so far; it only tells apart two accounts that
\* would get the same id.
User == [id : 1..MaxId, name : Name, pw : Password, born : 1..MaxId]
Secret == 1..MaxSecret
Cookie == [name : Name, secret : Secret]  \* nobody reads Claims.UserID

Idle == [at |-> "idle"]
Req ==
  {Idle}
  \union [at : {"creating"}, name : Name]
  \union [at : {"login"}, name : Name, pw : Password]
  \union [at : {"sign"}, name : Name]
  \union [at : {"deleting"}, id : 1..MaxId]
  \union [at : {"comparing", "writing"}, id : 1..MaxId, name : Name, born : 1..MaxId,
           old : Password, pw : Password]
  \union [at : {"storing", "swapping"}, new : Secret, signed : SUBSET Secret]

TypeOK ==
  /\ users \subseteq User
  /\ lastId \in 0..MaxId
  /\ stored \in Secret
  /\ secret \in Secret
  /\ lastSecret \in Secret
  /\ cookies \subseteq Cookie
  /\ failures \in Nat
  /\ guesses \in Nat
  /\ req \in [Handler -> Req]
  /\ retired \subseteq Secret
  /\ \A u, v \in users : u.name = v.name \/ u.id = v.id => u = v

First == CHOOSE p \in Password : TRUE

\* AUTOINCREMENT
NextIdReused ==  \* mutant: INTEGER PRIMARY KEY, the largest id in use and one
  CHOOSE i \in 1..MaxId + 1 :
    /\ \A u \in users : u.id < i
    /\ i = 1 \/ \E u \in users : u.id = i - 1
NextId == lastId + 1

ExistsNever(n) == FALSE  \* mutant: no UNIQUE on username
Exists(n) == \E u \in users : u.name = n
Row(n) == CHOOSE u \in users : u.name = n

\* store.CreateUser: a duplicate name changes nothing. Every account is
\* created with the same password; changes and guesses tell them apart.
Insert(n) ==
  IF Exists(n) THEN UNCHANGED <<users, lastId>>
  ELSE /\ lastId < MaxId
       /\ users' = users \union {[id |-> NextId, name |-> n, pw |-> First, born |-> lastId + 1]}
       /\ lastId' = lastId + 1

\* bootstrap: with neither secret nor users in the database.
Init ==
  /\ users = IF WithAdmin THEN {[id |-> 1, name |-> Admin, pw |-> First, born |-> 1]} ELSE {}
  /\ lastId = Cardinality(users)
  /\ stored = 1
  /\ secret = 1
  /\ lastSecret = 1
  /\ cookies = {}
  /\ failures = 0
  /\ guesses = 0
  /\ req = [h \in Handler |-> Idle]
  /\ retired = {}

Start(h, r) == req[h] = Idle /\ req' = [req EXCEPT ![h] = r]
Continue(h, from, r) == req[h].at = from /\ req' = [req EXCEPT ![h] = r]

-----------------------------------------------------------------------------
(* First run and login                                                      *)

\* Setup counts the users before it hashes the password and creates one.
Setup(h, n) ==
  /\ users = {}
  /\ Start(h, [at |-> "creating", name |-> n])
  /\ UNCHANGED <<dbVars, secret, lastSecret, cookies, limiterVars, retired>>

blockedLate == failures > Limit  \* mutant: off by one
blocked == failures >= Limit

Login(h, n, p) ==
  /\ ~blocked
  /\ Start(h, [at |-> "login", name |-> n, pw |-> p])
  /\ UNCHANGED <<dbVars, secret, lastSecret, cookies, limiterVars, retired>>

RightPassword(n, p) == Exists(n) /\ Row(n).pw = p

\* loginLimiter.fail
LoginFails(h) ==
  /\ Continue(h, "login", Idle)
  /\ ~RightPassword(req[h].name, req[h].pw)
  /\ failures' = failures + 1
  /\ guesses' = guesses + 1
  /\ UNCHANGED <<dbVars, secret, lastSecret, cookies, retired>>

\* loginLimiter.reset
LoginSucceeds(h) ==
  /\ req[h].at = "login"
  /\ RightPassword(req[h].name, req[h].pw)
  /\ Continue(h, "login", [at |-> "sign", name |-> req[h].name])
  /\ failures' = 0
  /\ guesses' = 0
  /\ UNCHANGED <<dbVars, secret, lastSecret, cookies, retired>>

\* Auth.Sign, with the row that was read before the password was compared.
Sign(h) ==
  /\ Continue(h, "sign", Idle)
  /\ Cardinality(cookies) < MaxCookies
  /\ cookies' = cookies \union
       {[name |-> req[h].name, secret |-> secret]}
  /\ UNCHANGED <<dbVars, secret, lastSecret, limiterVars, retired>>

\* The window of the limiter is over.
Window ==
  /\ failures > 0
  /\ failures' = 0
  /\ guesses' = 0
  /\ UNCHANGED <<dbVars, secret, lastSecret, cookies, req, retired>>

Expire ==
  /\ \E c \in cookies : cookies' = cookies \ {c}
  /\ UNCHANGED <<dbVars, secret, lastSecret, limiterVars, req, retired>>

-----------------------------------------------------------------------------
(* Requests with a cookie                                                   *)

\* Auth.verify: the row the cookie's name has now, whatever id it was signed for.
verify(c, u) ==
  /\ c \in cookies
  /\ c.secret = secret
  /\ u \in users
  /\ u.name = c.name

\* AdminOnly
Administers(c) == \E u \in users : verify(c, u) /\ u.id = 1

DeletableAny(i) == TRUE  \* mutant: the check of id 1 is missing
\* "cannot delete bootstrap admin"
Deletable(i) == i # 1

Authenticated(h, c) ==
  \/ \E u \in users, old, new \in Password :
       /\ verify(c, u)
       /\ old # new
       /\ Start(h, [at |-> "comparing", id |-> u.id, name |-> u.name, born |-> u.born,
                   old |-> old, pw |-> new])
       /\ UNCHANGED lastSecret
  \/ \E n \in Name :
       /\ Administers(c)
       /\ Start(h, [at |-> "creating", name |-> n])
       /\ UNCHANGED lastSecret
  \/ \E i \in 1..MaxId :
       /\ Administers(c)
       /\ Deletable(i)
       /\ Start(h, [at |-> "deleting", id |-> i])
       /\ UNCHANGED lastSecret
  \/ /\ Administers(c)
     /\ lastSecret < MaxSecret
     /\ lastSecret' = lastSecret + 1
     /\ Start(h, [at |-> "storing", new |-> lastSecret + 1, signed |-> {d.secret : d \in cookies}])

Request(h) ==
  /\ \E c \in cookies : Authenticated(h, c)
  /\ UNCHANGED <<dbVars, secret, cookies, limiterVars, retired>>

\* The second half of Setup and of CreateUser.
CreateUser(h) ==
  /\ Continue(h, "creating", Idle)
  /\ Insert(req[h].name)
  /\ UNCHANGED <<stored, secret, lastSecret, cookies, limiterVars, retired>>

DeleteUser(h) ==
  /\ Continue(h, "deleting", Idle)
  /\ users' = {u \in users : u.id # req[h].id}
  /\ UNCHANGED <<lastId, stored, secret, lastSecret, cookies, limiterVars, retired>>

\* ChangePassword looks the caller up by name and compares the old password ...
ComparePassword(h) ==
  /\ req[h].at = "comparing"
  /\ Continue(h, "comparing", IF RightPassword(req[h].name, req[h].old)
                              THEN [req[h] EXCEPT !.at = "writing"] ELSE Idle)
  /\ UNCHANGED <<dbVars, secret, lastSecret, cookies, limiterVars, retired>>

\* ... and updates the row with the id the cookie was verified for.
WritePassword(h) ==
  /\ req[h].at = "writing"
  /\ Continue(h, "writing", Idle)
  /\ users' = {IF u.id = req[h].id THEN [u EXCEPT !.pw = req[h].pw] ELSE u : u \in users}
  /\ UNCHANGED <<lastId, stored, secret, lastSecret, cookies, limiterVars, retired>>

StoreSecretSkipped(h) ==  \* mutant: the new secret is not persisted
  /\ req[h].at = "storing"
  /\ Continue(h, "storing", [req[h] EXCEPT !.at = "swapping"])
  /\ UNCHANGED <<dbVars, secret, lastSecret, cookies, limiterVars, retired>>

\* RotateJWT: the setting first, then the secret in use.
StoreSecret(h) ==
  /\ req[h].at = "storing"
  /\ Continue(h, "storing", [req[h] EXCEPT !.at = "swapping"])
  /\ stored' = req[h].new
  /\ UNCHANGED <<users, lastId, secret, lastSecret, cookies, limiterVars, retired>>

SwapSecret(h) ==
  /\ req[h].at = "swapping"
  /\ Continue(h, "swapping", Idle)
  /\ secret' = req[h].new
  /\ retired' = retired \union req[h].signed
  /\ UNCHANGED <<dbVars, lastSecret, cookies, limiterVars>>

\* A handler whose database call fails. Nothing can fail once a new secret is stored.
Abort(h) ==
  /\ req[h].at \notin {"idle", "swapping"}
  /\ req' = [req EXCEPT ![h] = Idle]
  /\ UNCHANGED <<dbVars, secret, lastSecret, cookies, limiterVars, retired>>

\* The process ends and starts again: bootstrap and a new limiter.
Restart ==
  /\ secret' = IF Pinned THEN 1 ELSE stored
  /\ IF WithAdmin /\ users = {} THEN Insert(Admin)
     ELSE UNCHANGED <<users, lastId>>
  /\ failures' = 0
  /\ guesses' = 0
  /\ req' = [h \in Handler |-> Idle]
  /\ UNCHANGED <<stored, lastSecret, cookies, retired>>

Next ==
  \/ \E h \in Handler :
       \/ \E n \in Name : Setup(h, n) \/ \E p \in Password : Login(h, n, p)
       \/ LoginFails(h) \/ LoginSucceeds(h) \/ Sign(h)
       \/ Request(h) \/ CreateUser(h) \/ DeleteUser(h)
       \/ ComparePassword(h) \/ WritePassword(h)
       \/ StoreSecret(h) \/ SwapSecret(h) \/ Abort(h)
  \/ Window \/ Expire \/ Restart

Spec == Init /\ [][Next]_vars

-----------------------------------------------------------------------------
(* Properties                                                               *)

\* Once there is a user there is an administrator: whatever is set up, created
\* and deleted at once, the row with id 1 stays (DeleteUser, AdminOnly).
AdministratorStays == users # {} => \E u \in users : u.id = 1

\* However many logins run at once, the limiter lets through no more wrong
\* passwords than its limit and one for each login that had passed it.
GuessesAreBounded == guesses < Limit + Cardinality(Handler)

\* A token that was signed before a rotation is refused once the rotation has
\* returned, also after a restart and with rotations at once, unless the
\* configuration pins the secret (RotateJWT, bootstrap).
RotatedTokensAreRefused ==
  ~Pinned => \A c \in cookies : c.secret \in retired => c.secret # secret

\* ChangePassword compares by name and writes by id: between the two the account
\* may have been deleted and its name given away, and still nobody's password
\* changes but that of the account the request was verified for.
PasswordOfCallerOnly ==
  [][\A u \in users, v \in users' :
       u.born = v.born /\ u.pw # v.pw =>
         \E h \in Handler : req[h].at = "writing" /\ req[h].born = u.born]_vars
=============================================================================

--------------------------- MODULE AccountsProofs ---------------------------
(* Proofs about Accounts: whose account a token opens, and whose settings  *)
(* are stored, for any number of requests, accounts and restarts.          *)
EXTENDS Accounts, TLAPS

\* A table with a row more keeps the type of its rows.
LEMMA WithType ==
  ASSUME NEW S, NEW f, f \in [DOMAIN f -> S], NEW k, NEW v \in S
  PROVE  With(f, k, v) \in [DOMAIN f \cup {k} -> S]
BY DEF With

\* A changed row is a row.
LEMMA OverrideType ==
  ASSUME NEW c \in Change, NEW row \in [Field -> Value \cup {"default"}]
  PROVE  Override(c, row) \in [Field -> Value \cup {"default"}]
<1>1. PICK S \in SUBSET Field : c \in [S -> Value]
  BY DEF Change
<1>2. QED BY <1>1 DEF Override

LEMMA EmptyTable == DOMAIN Empty = {} /\ Empty \in [{} -> Value]
BY DEF Empty

\* A new account gets the next id, which nothing refers to yet.
LEMMA InsertStep ==
  ASSUME IInv, NEW n \in Name, NEW p \in Password, NEW role \in Role,
         InsertUser(n, p, role), UNCHANGED <<settings, tokens, kept>>
  PROVE  /\ DOMAIN users' \subseteq Id /\ users' \in [DOMAIN users' -> User]
         /\ nextId' \in 1 .. MaxId + 1 /\ nextId' = nextId + 1
         /\ nextId \in Id /\ DOMAIN users' = DOMAIN users \cup {nextId}
         /\ IdInv' /\ KeptInv' /\ TokenDenotesOne' /\ SettingsHaveOwner' /\ PutIsKept'
<1> USE AccountsAssumption
<1>0. TypeOK /\ IdInv /\ KeptInv /\ TokenDenotesOne /\ SettingsHaveOwner /\ PutIsKept
  BY DEF IInv
<1> DEFINE row == [name |-> n, role |-> role, pw |-> p]
<1>1. row \in User
  BY DEF User
<1>2. nextId \in Id /\ users' = With(users, nextId, row) /\ nextId' = nextId + 1
  BY DEF InsertUser, NewId
<1> HIDE DEF row
<1>3. /\ DOMAIN users' = DOMAIN users \cup {nextId}
      /\ users'[nextId] = row
      /\ \A x \in DOMAIN users : x # nextId => users'[x] = users[x]
  BY <1>2 DEF With
<1>4. users' \in [DOMAIN users' -> User]
  BY <1>0, <1>1, <1>2, <1>3, WithType DEF TypeOK
<1>5. nextId' \in 1 .. MaxId + 1
  BY <1>2 DEF Id
<1>6. \A i \in DOMAIN users : i < nextId /\ i \in Nat /\ i # nextId
  BY <1>0, <1>2 DEF IdInv, TypeOK, Id
<1>7. nextId \notin DOMAIN users /\ nextId \notin DOMAIN settings
  BY <1>0, <1>6 DEF SettingsHaveOwner
<1>8. \A t \in tokens : t.id < nextId /\ t.id \in Nat /\ t.id # nextId
  BY <1>0, <1>2 DEF IdInv, TypeOK, Id, Token
<1>9. nextId \in Nat
  BY <1>2 DEF Id
<1>10. IdInv'
  <2>1. \A i \in DOMAIN users' : i < nextId'
    BY <1>2, <1>3, <1>6, <1>9
  <2>2. \A t \in tokens' : t.id < nextId'
    BY <1>2, <1>8, <1>9
  <2>3. QED BY <2>1, <2>2 DEF IdInv
<1>11. KeptInv'
  BY <1>0, <1>3 DEF KeptInv
<1>12. TokenDenotesOne'
  BY <1>0, <1>3, <1>8 DEF TokenDenotesOne
<1>13. SettingsHaveOwner'
  BY <1>0, <1>3 DEF SettingsHaveOwner
<1>14. PutIsKept'
  <2> SUFFICES ASSUME NEW i \in DOMAIN users', NEW f \in Field
               PROVE  (IF i \in DOMAIN settings THEN settings[i][f] ELSE "default") = kept[i][f]
    BY DEF PutIsKept
  <2>1. CASE i \in DOMAIN users
    BY <1>0, <2>1 DEF PutIsKept
  <2>2. CASE i = nextId
    <3>1. kept[nextId] = Fresh
      BY <1>0, <1>2, <1>7 DEF KeptInv
    <3>2. QED BY <1>7, <2>2, <3>1 DEF Fresh
  <2>3. QED BY <1>3, <2>1, <2>2
<1>15. QED
  BY <1>2, <1>3, <1>4, <1>5, <1>10, <1>11, <1>12, <1>13, <1>14, <1>0 DEF TypeOK

\* The fields of a request that is about to execute each statement.
LEMMA RequestFields ==
  ASSUME NEW q \in RequestState
  PROVE  /\ q.step \in {"initInsert", "initLogin"} => q.name \in Name /\ q.pw \in Password
         /\ q.step = "password" => q.id \in Id /\ q.pw \in Password
         /\ q.step \in {"select", "create", "update"} =>
              q \in [step : {"select", "create", "update"}, op : {"me", "get", "put"}, id : Id, change : Change]
BY DEF RequestState

\* The request that takes a step moves on, the others keep what they know.
LEMMA RequestsStep ==
  ASSUME IInv, NEW r \in Request, NEW q \in RequestState, Goto(r, q),
         nextId' \in Nat, nextId <= nextId',
         \A i \in Id : i < nextId /\ i \in DOMAIN users' => i \in DOMAIN users,
         \A i \in DOMAIN settings : i \in DOMAIN users' => i \in DOMAIN settings',
         q.step \in {"select", "create", "update"} => q.id < nextId',
         q.step = "update" /\ q.id \in DOMAIN users' => q.id \in DOMAIN settings'
  PROVE  req' \in [Request -> RequestState] /\ \A x \in Request : RequestInv(x)'
<1>1. req \in [Request -> RequestState] /\ nextId \in Nat
  BY AccountsAssumption DEF IInv, TypeOK
<1>2. req' = [req EXCEPT ![r] = q]
  BY DEF Goto
<1>3. req' \in [Request -> RequestState]
  BY <1>1, <1>2
<1>4. ASSUME NEW x \in Request PROVE RequestInv(x)'
  <2>1. CASE x = r
    <3>1. req'[x] = q
      BY <1>1, <1>2, <2>1
    <3>2. QED BY <3>1 DEF RequestInv
  <2>2. CASE x # r
    <3>1. req'[x] = req[x] /\ req[x] \in RequestState
      BY <1>1, <1>2, <2>2
    <3>2. RequestInv(x)
      BY DEF IInv
    <3>3. req[x].step \in {"select", "create", "update"} => req[x].id \in Id /\ req[x].id \in Nat
      BY <3>1, RequestFields DEF Id
    <3>4. req[x].step \in {"select", "create", "update"} => req[x].id < nextId'
      BY <1>1, <3>2, <3>3 DEF RequestInv
    <3>5. req[x].step = "update" /\ req[x].id \in DOMAIN users' => req[x].id \in DOMAIN settings'
      BY <3>2, <3>3 DEF RequestInv
    <3>6. QED BY <3>1, <3>4, <3>5 DEF RequestInv
  <2>3. QED BY <2>1, <2>2
<1>5. QED BY <1>3, <1>4

\* A reply asks nothing of the tables.
LEMMA ReplyStep ==
  ASSUME IInv, NEW r \in Request, NEW status \in {"ok", "refused", "error"}, Reply(r, status),
         nextId' \in Nat, nextId <= nextId',
         \A i \in Id : i < nextId /\ i \in DOMAIN users' => i \in DOMAIN users,
         \A i \in DOMAIN settings : i \in DOMAIN users' => i \in DOMAIN settings'
  PROVE  req' \in [Request -> RequestState] /\ \A x \in Request : RequestInv(x)'
<1> DEFINE q == [step |-> status]
<1>1. q \in RequestState /\ q.step = status
  BY DEF RequestState
<1>2. Goto(r, q)
  BY DEF Reply
<1> HIDE DEF q
<1>3. QED BY <1>1, <1>2, RequestsStep

\* A statement that only reads keeps everything but the request that executes it.
LEMMA ReadStep ==
  ASSUME IInv, NEW r \in Request, NEW q \in RequestState, Goto(r, q), UNCHANGED <<tables, tokens>>,
         q.step \in {"select", "create", "update"} => q.id < nextId,
         q.step = "update" /\ q.id \in DOMAIN users => q.id \in DOMAIN settings
  PROVE  IInv'
<1>1. nextId \in Nat /\ nextId <= nextId
  BY AccountsAssumption DEF IInv, TypeOK
<1>2. req' \in [Request -> RequestState] /\ \A x \in Request : RequestInv(x)'
  BY <1>1, RequestsStep DEF tables
<1>3. QED
  BY <1>2 DEF IInv, TypeOK, IdInv, KeptInv, TokenDenotesOne, SettingsHaveOwner, PutIsKept, tables

LEMMA ReadReplyStep ==
  ASSUME IInv, NEW r \in Request, NEW status \in {"ok", "refused", "error"}, Reply(r, status),
         UNCHANGED <<tables, tokens>>
  PROVE  IInv'
<1>1. nextId \in Nat /\ nextId <= nextId
  BY AccountsAssumption DEF IInv, TypeOK
<1>2. req' \in [Request -> RequestState] /\ \A x \in Request : RequestInv(x)'
  BY <1>1, ReplyStep DEF tables
<1>3. QED
  BY <1>2 DEF IInv, TypeOK, IdInv, KeptInv, TokenDenotesOne, SettingsHaveOwner, PutIsKept, tables

\* A login reads one row and issues a token for it.
LEMMA LoginStep ==
  ASSUME IInv, NEW r \in Request, NEW n \in Name, NEW p \in Password,
         NEW failure \in {"refused", "error"}, LoginAs(r, n, p, failure)
  PROVE  IInv'
<1>1. CASE Reply(r, failure) /\ UNCHANGED tokens
  BY <1>1, ReadReplyStep DEF LoginAs
<1>2. ASSUME NEW i \in Named(n), Issue(i), Reply(r, "ok") PROVE IInv'
  <2>0. TypeOK /\ IdInv /\ TokenDenotesOne
    BY DEF IInv
  <2>1. i \in DOMAIN users /\ users[i] \in User /\ i \in Id /\ i < nextId
    BY <2>0 DEF Named, TypeOK, IdInv
  <2> DEFINE t == [id |-> i, name |-> users[i].name, role |-> users[i].role]
  <2>2. t \in Token /\ t.id = i /\ t.name = users[i].name
    BY <2>1 DEF Token, User
  <2>3. tokens' = tokens \cup {t}
    BY <1>2 DEF Issue
  <2> HIDE DEF t
  <2>4. UNCHANGED tables
    BY DEF LoginAs
  <2>5. nextId' \in Nat /\ nextId <= nextId'
    BY <2>0, <2>4, AccountsAssumption DEF TypeOK, tables
  <2>6. req' \in [Request -> RequestState] /\ \A x \in Request : RequestInv(x)'
    BY <1>2, <2>4, <2>5, ReplyStep DEF tables
  <2>7. IdInv' /\ TokenDenotesOne'
    BY <2>0, <2>1, <2>2, <2>3, <2>4 DEF IdInv, TokenDenotesOne, tables
  <2>8. TypeOK'
    BY <2>0, <2>2, <2>3, <2>4, <2>6 DEF TypeOK, tables
  <2>9. QED
    BY <2>4, <2>6, <2>7, <2>8 DEF IInv, KeptInv, SettingsHaveOwner, PutIsKept, tables
<1>3. QED BY <1>1, <1>2 DEF LoginAs

\* POST /auth/init and POST /auth/register insert an account.
LEMMA InitInsertStep ==
  ASSUME IInv, NEW r \in Request, InitInsert(r)
  PROVE  IInv'
<1> DEFINE q == [req[r] EXCEPT !.step = "initLogin"]
<1>1. req[r] \in [step : {"initInsert", "initLogin"}, name : Name, pw : Password]
  BY DEF IInv, TypeOK, RequestState, InitInsert, Step
<1>2. q \in RequestState /\ q.step = "initLogin"
  BY <1>1 DEF RequestState
<1>3. Goto(r, q) /\ InsertUser(req[r].name, req[r].pw, "admin") /\ UNCHANGED <<settings, tokens, kept>>
  BY DEF InitInsert
<1> HIDE DEF q
<1>4. /\ DOMAIN users' \subseteq Id /\ users' \in [DOMAIN users' -> User]
      /\ nextId' \in 1 .. MaxId + 1 /\ nextId' = nextId + 1
      /\ nextId \in Id /\ DOMAIN users' = DOMAIN users \cup {nextId}
      /\ IdInv' /\ KeptInv' /\ TokenDenotesOne' /\ SettingsHaveOwner' /\ PutIsKept'
  BY <1>1, <1>3, InsertStep DEF Role
<1>5. nextId' \in Nat /\ nextId <= nextId' /\ \A i \in Id : i < nextId => i # nextId
  BY <1>4 DEF Id
<1>6. req' \in [Request -> RequestState] /\ \A x \in Request : RequestInv(x)'
  BY <1>2, <1>3, <1>4, <1>5, RequestsStep
<1>7. QED BY <1>3, <1>4, <1>6 DEF IInv, TypeOK

LEMMA RegisterStep ==
  ASSUME IInv, NEW r \in Request, NEW n \in Name, NEW p \in Password, NEW role \in Role,
         Register(r, n, p, role)
  PROVE  IInv'
<1>1. CASE Reply(r, "error") /\ UNCHANGED <<users, nextId>>
  <2>1. UNCHANGED <<tables, tokens>>
    BY <1>1 DEF Register, tables
  <2>2. QED BY <1>1, <2>1, ReadReplyStep
<1>2. CASE InsertUser(n, p, role) /\ Reply(r, "ok")
  <2>1. UNCHANGED <<settings, tokens, kept>>
    BY DEF Register
  <2>2. /\ DOMAIN users' \subseteq Id /\ users' \in [DOMAIN users' -> User]
        /\ nextId' \in 1 .. MaxId + 1 /\ nextId' = nextId + 1
        /\ nextId \in Id /\ DOMAIN users' = DOMAIN users \cup {nextId}
        /\ IdInv' /\ KeptInv' /\ TokenDenotesOne' /\ SettingsHaveOwner' /\ PutIsKept'
    BY <1>2, <2>1, InsertStep
  <2>3. nextId' \in Nat /\ nextId <= nextId' /\ \A i \in Id : i < nextId => i # nextId
    BY <2>2 DEF Id
  <2>4. req' \in [Request -> RequestState] /\ \A x \in Request : RequestInv(x)'
    BY <1>2, <2>1, <2>2, <2>3, ReplyStep
  <2>5. QED BY <2>1, <2>2, <2>4 DEF IInv, TypeOK
<1>3. QED BY <1>1, <1>2 DEF Register

\* A deletion takes the settings with it.
LEMMA DeleteUserStep ==
  ASSUME IInv, NEW r \in Request, NEW i \in Id, DeleteUser(r, i)
  PROVE  IInv'
<1>0. TypeOK /\ IdInv /\ KeptInv /\ TokenDenotesOne /\ SettingsHaveOwner /\ PutIsKept
  BY DEF IInv
<1>1. /\ DOMAIN users' = DOMAIN users \ {i} /\ users' \in [DOMAIN users' -> User]
      /\ \A x \in DOMAIN users' : users'[x] = users[x]
  BY <1>0 DEF DeleteUser, TypeOK, Restrict
<1>2. /\ DOMAIN settings' = DOMAIN settings \ {i}
      /\ settings' \in [DOMAIN settings' -> [Field -> Value \cup {"default"}]]
      /\ \A x \in DOMAIN settings' : settings'[x] = settings[x]
  BY <1>0 DEF DeleteUser, TypeOK, Restrict
<1>3. kept' = [kept EXCEPT ![i] = Fresh] /\ UNCHANGED <<nextId, tokens>> /\ Reply(r, "ok")
  BY DEF DeleteUser
<1>4. kept' \in [Id -> [Field -> Value \cup {"default"}]] /\ kept'[i] = Fresh
      /\ \A x \in Id : x # i => kept'[x] = kept[x]
  BY <1>0, <1>3 DEF TypeOK, Fresh
<1>5. nextId' \in Nat /\ nextId <= nextId'
  BY <1>0, <1>3, AccountsAssumption DEF TypeOK
<1>6. req' \in [Request -> RequestState] /\ \A x \in Request : RequestInv(x)'
  BY <1>1, <1>2, <1>3, <1>5, ReplyStep
<1>7. TypeOK'
  BY <1>0, <1>1, <1>2, <1>3, <1>4, <1>6 DEF TypeOK
<1>8. IdInv' /\ TokenDenotesOne' /\ SettingsHaveOwner'
  BY <1>0, <1>1, <1>2, <1>3 DEF IdInv, TokenDenotesOne, SettingsHaveOwner
<1>9. KeptInv'
  BY <1>0, <1>1, <1>4 DEF KeptInv
<1>10. PutIsKept'
  <2> SUFFICES ASSUME NEW x \in DOMAIN users', NEW f \in Field
               PROVE  (IF x \in DOMAIN settings' THEN settings'[x][f] ELSE "default") = kept'[x][f]
    BY DEF PutIsKept
  <2>1. x \in DOMAIN users /\ x \in Id /\ x # i
    BY <1>0, <1>1 DEF TypeOK
  <2>2. (IF x \in DOMAIN settings THEN settings[x][f] ELSE "default") = kept[x][f]
    BY <1>0, <2>1 DEF PutIsKept
  <2>3. QED BY <1>2, <1>4, <2>1, <2>2
<1>11. QED BY <1>6, <1>7, <1>8, <1>9, <1>10 DEF IInv

\* Changing columns of an existing account, name excepted.
LEMMA UpdateRowStep ==
  ASSUME IInv, DOMAIN users' = DOMAIN users, users' \in [DOMAIN users -> User],
         \A x \in DOMAIN users : users'[x].name = users[x].name,
         UNCHANGED <<settings, nextId, tokens, kept>>,
         req' \in [Request -> RequestState], \A x \in Request : RequestInv(x)'
  PROVE  IInv'
<1>0. TypeOK /\ IdInv /\ KeptInv /\ TokenDenotesOne /\ SettingsHaveOwner /\ PutIsKept
  BY DEF IInv
<1>1. TypeOK'
  BY <1>0 DEF TypeOK
<1>2. IdInv' /\ KeptInv' /\ TokenDenotesOne' /\ SettingsHaveOwner'
  BY <1>0 DEF IdInv, KeptInv, TokenDenotesOne, SettingsHaveOwner
<1>3. PutIsKept'
  BY <1>0 DEF PutIsKept
<1>4. QED BY <1>1, <1>2, <1>3 DEF IInv

LEMMA UpdateUserStep ==
  ASSUME IInv, NEW r \in Request, NEW i \in Id, NEW role \in Role \cup {"none"},
         NEW p \in Password \cup {"none"}, UpdateUser(r, i, role, p)
  PROVE  IInv'
<1>0. users \in [DOMAIN users -> User] /\ nextId \in Nat /\ nextId <= nextId
  BY AccountsAssumption DEF IInv, TypeOK
<1>1. /\ users' = IF role \in Role /\ i \in DOMAIN users THEN [users EXCEPT ![i].role = role] ELSE users
      /\ UNCHANGED <<settings, nextId, tokens, kept>>
  BY DEF UpdateUser
<1>2. /\ DOMAIN users' = DOMAIN users /\ users' \in [DOMAIN users -> User]
      /\ \A x \in DOMAIN users : users'[x].name = users[x].name
  <2>1. CASE role \in Role /\ i \in DOMAIN users
    <3>1. [users[i] EXCEPT !.role = role] \in User /\ [users[i] EXCEPT !.role = role].name = users[i].name
      BY <1>0, <2>1 DEF User
    <3>2. users' = [users EXCEPT ![i] = [users[i] EXCEPT !.role = role]]
      BY <1>1, <2>1
    <3>3. QED BY <1>0, <2>1, <3>1, <3>2
  <2>2. CASE ~(role \in Role /\ i \in DOMAIN users)
    BY <1>0, <1>1, <2>2
  <2>3. QED BY <2>1, <2>2
<1>3. req' \in [Request -> RequestState] /\ \A x \in Request : RequestInv(x)'
  <2>1. CASE p \in Password
    <3> DEFINE q == [step |-> "password", id |-> i, pw |-> p]
    <3>1. q \in RequestState /\ q.step = "password"
      BY <2>1 DEF RequestState
    <3>2. Goto(r, q)
      BY <2>1 DEF UpdateUser
    <3> HIDE DEF q
    <3>3. QED BY <1>0, <1>1, <1>2, <3>1, <3>2, RequestsStep
  <2>2. CASE p \notin Password
    <3>1. Reply(r, "ok")
      BY <2>2 DEF UpdateUser
    <3>2. QED BY <1>0, <1>1, <1>2, <3>1, ReplyStep
  <2>3. QED BY <2>1, <2>2
<1>4. QED BY <1>1, <1>2, <1>3, UpdateRowStep

LEMMA UpdatePasswordStep ==
  ASSUME IInv, NEW r \in Request, UpdatePassword(r)
  PROVE  IInv'
<1>0. /\ users \in [DOMAIN users -> User] /\ nextId \in Nat /\ nextId <= nextId
      /\ req[r] \in RequestState /\ req[r].step = "password"
  BY AccountsAssumption DEF IInv, TypeOK, UpdatePassword, Step
<1>1. req[r].pw \in Password
  BY <1>0, RequestFields
<1>2. /\ users' = IF req[r].id \in DOMAIN users THEN [users EXCEPT ![req[r].id].pw = req[r].pw] ELSE users
      /\ UNCHANGED <<settings, nextId, tokens, kept>> /\ Reply(r, "ok")
  BY DEF UpdatePassword
<1>3. /\ DOMAIN users' = DOMAIN users /\ users' \in [DOMAIN users -> User]
      /\ \A x \in DOMAIN users : users'[x].name = users[x].name
  <2>1. ASSUME NEW i \in DOMAIN users, i = req[r].id
        PROVE  /\ DOMAIN users' = DOMAIN users /\ users' \in [DOMAIN users -> User]
               /\ \A x \in DOMAIN users : users'[x].name = users[x].name
    <3>1. [users[i] EXCEPT !.pw = req[r].pw] \in User /\ [users[i] EXCEPT !.pw = req[r].pw].name = users[i].name
      BY <1>0, <1>1 DEF User
    <3>2. users' = [users EXCEPT ![i] = [users[i] EXCEPT !.pw = req[r].pw]]
      BY <1>2, <2>1
    <3>3. QED BY <1>0, <3>1, <3>2
  <2>2. CASE req[r].id \notin DOMAIN users
    BY <1>0, <1>2, <2>2
  <2>3. QED BY <2>1, <2>2
<1>4. req' \in [Request -> RequestState] /\ \A x \in Request : RequestInv(x)'
  BY <1>0, <1>2, <1>3, ReplyStep
<1>5. QED BY <1>2, <1>3, <1>4, UpdateRowStep

\* Where GetByUserID leads once the account has a row (req[r].id in the new settings).
LEMMA HaveSettingsStep ==
  ASSUME IInv, NEW r \in Request, req[r].step \in {"select", "create"}, HaveSettings(r),
         UNCHANGED <<users, nextId>>, DOMAIN settings \subseteq DOMAIN settings',
         req[r].id \in DOMAIN settings'
  PROVE  req' \in [Request -> RequestState] /\ \A x \in Request : RequestInv(x)'
<1>1. /\ req[r] \in RequestState /\ nextId \in Nat /\ nextId <= nextId
      /\ req[r].id < nextId
  BY AccountsAssumption DEF IInv, TypeOK, RequestInv
<1>2. CASE req[r].op = "put"
  <2> DEFINE q == [req[r] EXCEPT !.step = "update"]
  <2>1. req[r] \in [step : {"select", "create", "update"}, op : {"me", "get", "put"}, id : Id, change : Change]
    BY <1>1, RequestFields
  <2>2. q \in RequestState /\ q.step = "update" /\ q.id = req[r].id
    BY <2>1 DEF RequestState
  <2>3. Goto(r, q)
    BY <1>2 DEF HaveSettings
  <2> HIDE DEF q
  <2>4. QED BY <1>1, <2>2, <2>3, RequestsStep
<1>3. CASE req[r].op # "put"
  <2>1. Reply(r, "ok")
    BY <1>3 DEF HaveSettings
  <2>2. QED BY <1>1, <2>1, ReplyStep
<1>4. QED BY <1>2, <1>3

\* The SELECT of GetByUserID.
LEMMA SelectSettingsStep ==
  ASSUME IInv, NEW r \in Request, SelectSettings(r)
  PROVE  IInv'
<1>1. req[r].step = "select" /\ req[r] \in RequestState /\ UNCHANGED <<tables, tokens>>
  BY DEF SelectSettings, Step, IInv, TypeOK
<1>2. CASE req[r].id \in DOMAIN settings
  <2>1. HaveSettings(r)
    BY <1>2 DEF SelectSettings
  <2>2. req' \in [Request -> RequestState] /\ \A x \in Request : RequestInv(x)'
    BY <1>1, <1>2, <2>1, HaveSettingsStep DEF tables
  <2>3. QED
    BY <1>1, <2>2 DEF IInv, TypeOK, IdInv, KeptInv, TokenDenotesOne, SettingsHaveOwner, PutIsKept, tables
<1>3. CASE req[r].id \notin DOMAIN settings
  <2> DEFINE q == [req[r] EXCEPT !.step = "create"]
  <2>1. req[r] \in [step : {"select", "create", "update"}, op : {"me", "get", "put"}, id : Id, change : Change]
    BY <1>1, RequestFields
  <2>2. q \in RequestState /\ q.step = "create" /\ q.id = req[r].id
    BY <2>1 DEF RequestState
  <2>3. Goto(r, q)
    BY <1>3 DEF SelectSettings
  <2>4. req[r].id < nextId
    BY <1>1 DEF IInv, RequestInv
  <2> HIDE DEF q
  <2>5. QED BY <1>1, <2>2, <2>3, <2>4, ReadStep
<1>4. QED BY <1>2, <1>3

\* The INSERT of GetByUserID.
LEMMA CreateSettingsStep ==
  ASSUME IInv, NEW r \in Request, CreateSettings(r)
  PROVE  IInv'
<1>0. TypeOK /\ IdInv /\ KeptInv /\ TokenDenotesOne /\ SettingsHaveOwner /\ PutIsKept
  BY DEF IInv
<1> DEFINE i == req[r].id
<1>1. /\ req[r].step = "create" /\ i \in DOMAIN users /\ i \notin DOMAIN settings
      /\ settings' = With(settings, i, Fresh) /\ HaveSettings(r)
      /\ UNCHANGED <<users, nextId, tokens, kept>>
  BY DEF CreateSettings, Step, MayOwnSettings
<1>2. Fresh \in [Field -> Value \cup {"default"}]
  BY DEF Fresh
<1>3. /\ DOMAIN settings' = DOMAIN settings \cup {i}
      /\ settings'[i] = Fresh
      /\ \A x \in DOMAIN settings : settings'[x] = settings[x]
  BY <1>1 DEF With
<1>4. settings' \in [DOMAIN settings' -> [Field -> Value \cup {"default"}]]
  <2> DEFINE Row == [Field -> Value \cup {"default"}]
  <2>1. settings \in [DOMAIN settings -> Row]
    BY <1>0 DEF TypeOK
  <2>2. Fresh \in Row
    BY <1>2
  <2> HIDE DEF Row
  <2>3. With(settings, i, Fresh) \in [DOMAIN settings \cup {i} -> Row]
    BY <2>1, <2>2, WithType
  <2>4. settings' \in [DOMAIN settings' -> Row]
    BY <1>1, <1>3, <2>3
  <2>5. QED BY <2>4 DEF Row
<1>5. req' \in [Request -> RequestState] /\ \A x \in Request : RequestInv(x)'
  BY <1>1, <1>3, HaveSettingsStep
<1>6. TypeOK'
  BY <1>0, <1>1, <1>3, <1>4, <1>5 DEF TypeOK
<1>7. IdInv' /\ KeptInv' /\ TokenDenotesOne' /\ SettingsHaveOwner'
  BY <1>0, <1>1, <1>3 DEF IdInv, KeptInv, TokenDenotesOne, SettingsHaveOwner
<1>8. PutIsKept'
  BY <1>0, <1>1, <1>3 DEF PutIsKept, Fresh
<1>9. QED BY <1>5, <1>6, <1>7, <1>8 DEF IInv

\* The UPDATE writes the given fields to the row, which exists while the account does.
LEMMA UpdateSettingsStep ==
  ASSUME IInv, NEW r \in Request, UpdateSettings(r)
  PROVE  IInv'
<1>0. TypeOK /\ IdInv /\ KeptInv /\ TokenDenotesOne /\ SettingsHaveOwner /\ PutIsKept
  BY DEF IInv
<1> DEFINE i == req[r].id
           c == req[r].change
<1>1. /\ req[r].step = "update" /\ Reply(r, "ok") /\ UNCHANGED <<users, nextId, tokens>>
      /\ settings' = IF i \in DOMAIN settings THEN [settings EXCEPT ![i] = Override(c, settings[i])]
                     ELSE settings
      /\ kept' = IF i \in DOMAIN users THEN [kept EXCEPT ![i] = Override(c, kept[i])] ELSE kept
  BY DEF UpdateSettings, Step
<1>2. i \in Id /\ c \in Change
  <2>1. req[r] \in RequestState
    BY <1>0 DEF TypeOK
  <2>2. req[r] \in [step : {"select", "create", "update"}, op : {"me", "get", "put"}, id : Id, change : Change]
    BY <1>1, <2>1, RequestFields
  <2>3. QED BY <2>2
<1>3. i \in DOMAIN users => i \in DOMAIN settings
  BY <1>1 DEF IInv, RequestInv
<1> HIDE DEF i, c
<1>4. /\ DOMAIN settings' = DOMAIN settings
      /\ settings' \in [DOMAIN settings -> [Field -> Value \cup {"default"}]]
      /\ i \in DOMAIN settings => settings'[i] = Override(c, settings[i])
      /\ \A x \in DOMAIN settings : x # i => settings'[x] = settings[x]
  BY <1>0, <1>1, <1>2, OverrideType DEF TypeOK
<1>5. /\ kept' \in [Id -> [Field -> Value \cup {"default"}]]
      /\ i \in DOMAIN users => kept'[i] = Override(c, kept[i])
      /\ \A x \in Id : x # i \/ i \notin DOMAIN users => kept'[x] = kept[x]
  BY <1>0, <1>1, <1>2, OverrideType DEF TypeOK
<1>6. nextId' \in Nat /\ nextId <= nextId'
  BY <1>0, <1>1, AccountsAssumption DEF TypeOK
<1>7. req' \in [Request -> RequestState] /\ \A x \in Request : RequestInv(x)'
  BY <1>1, <1>4, <1>6, ReplyStep
<1>8. TypeOK'
  BY <1>0, <1>1, <1>4, <1>5, <1>7 DEF TypeOK
<1>9. IdInv' /\ KeptInv' /\ TokenDenotesOne' /\ SettingsHaveOwner'
  BY <1>0, <1>1, <1>4, <1>5 DEF IdInv, KeptInv, TokenDenotesOne, SettingsHaveOwner
<1>10. PutIsKept'
  <2> SUFFICES ASSUME NEW x \in DOMAIN users, NEW f \in Field
               PROVE  (IF x \in DOMAIN settings THEN settings'[x][f] ELSE "default") = kept'[x][f]
    BY <1>1, <1>4 DEF PutIsKept
  <2>1. (IF x \in DOMAIN settings THEN settings[x][f] ELSE "default") = kept[x][f] /\ x \in Id
    BY <1>0 DEF PutIsKept, TypeOK
  <2>2. CASE x # i
    BY <1>4, <1>5, <2>1, <2>2
  <2>3. CASE x = i
    <3>1. settings[i] \in [Field -> Value \cup {"default"}] /\ kept[i] \in [Field -> Value \cup {"default"}]
      BY <1>0, <1>2, <1>3, <2>3 DEF TypeOK
    <3>2. Override(c, settings[i])[f] = Override(c, kept[i])[f]
      BY <1>3, <2>1, <2>3, <3>1 DEF Override
    <3>3. QED BY <1>3, <1>4, <1>5, <2>3, <3>2
  <2>4. QED BY <2>2, <2>3
<1>11. QED BY <1>7, <1>8, <1>9, <1>10 DEF IInv

\* A request for one's own account starts with the id of a token.
LEMMA OwnRequestStep ==
  ASSUME IInv, NEW r \in Request, NEW t \in tokens, NEW op \in {"me", "get", "put"},
         NEW change \in Change, Goto(r, OwnRequest(op, t.id, change)), UNCHANGED <<tables, tokens>>
  PROVE  IInv'
<1> DEFINE q == OwnRequest(op, t.id, change)
<1>1. t.id \in Id /\ t.id < nextId
  BY DEF IInv, TypeOK, Token, IdInv
<1>2. q \in RequestState /\ q.step = "select" /\ q.id = t.id
  BY <1>1 DEF OwnRequest, RequestState
<1>3. Goto(r, q)
  OBVIOUS
<1> HIDE DEF q
<1>4. QED BY <1>1, <1>2, <1>3, ReadStep

LEMMA NoChange == Empty \in Change
BY EmptyTable DEF Change

\* A restart forgets the requests.
LEMMA RestartStep == ASSUME IInv, Restart PROVE IInv'
<1>1. req' \in [Request -> RequestState] /\ \A x \in Request : req'[x].step = "idle"
  BY DEF Restart, RequestState
<1>2. \A x \in Request : RequestInv(x)'
  BY <1>1 DEF RequestInv
<1>3. QED
  BY <1>1, <1>2 DEF Restart, IInv, TypeOK, IdInv, KeptInv, TokenDenotesOne, SettingsHaveOwner, PutIsKept, tables

LEMMA InitInv == Init => IInv
<1> SUFFICES ASSUME Init PROVE IInv
  OBVIOUS
<1>1. users = Empty /\ settings = Empty /\ tokens = {} /\ nextId \in 1 .. MaxId + 1
  BY AccountsAssumption DEF Init
<1>2. DOMAIN users = {} /\ users \in [DOMAIN users -> User]
  BY <1>1 DEF Empty
<1>3. DOMAIN settings = {} /\ settings \in [DOMAIN settings -> [Field -> Value \cup {"default"}]]
  BY <1>1 DEF Empty
<1>4. req \in [Request -> RequestState] /\ \A x \in Request : req[x].step = "idle"
  BY DEF Init, RequestState
<1>5. kept \in [Id -> [Field -> Value \cup {"default"}]] /\ \A i \in Id : kept[i] = Fresh
  BY DEF Init, Fresh
<1>6. TypeOK
  BY <1>1, <1>2, <1>3, <1>4, <1>5 DEF TypeOK
<1>7. IdInv /\ KeptInv /\ (\A x \in Request : RequestInv(x)) /\ TokenDenotesOne /\ SettingsHaveOwner /\ PutIsKept
  BY <1>1, <1>2, <1>3, <1>4, <1>5 DEF IdInv, KeptInv, RequestInv, TokenDenotesOne, SettingsHaveOwner, PutIsKept
<1>8. QED BY <1>6, <1>7 DEF IInv

\* Every step keeps the invariant.
LEMMA StepInv == IInv /\ [Next]_vars => IInv'
<1> SUFFICES ASSUME IInv, [Next]_vars PROVE IInv'
  OBVIOUS
<1>1. CASE UNCHANGED vars
  BY <1>1 DEF vars, IInv, TypeOK, IdInv, KeptInv, RequestInv, TokenDenotesOne, SettingsHaveOwner, PutIsKept
<1>2. CASE Restart
  BY <1>2, RestartStep
<1>3. ASSUME NEW r \in Request, AuthRequest(r) PROVE IInv'
  <2>0. req[r] \in RequestState
    BY DEF IInv, TypeOK
  <2>1. CASE InitInsert(r)
    BY <2>1, InitInsertStep
  <2>2. CASE InitInsertErr(r)
    BY <2>2, ReadReplyStep DEF InitInsertErr
  <2>3. CASE InitLogin(r)
    <3>1. req[r].name \in Name /\ req[r].pw \in Password
      BY <2>0, <2>3, RequestFields DEF InitLogin, Step
    <3>2. QED BY <2>3, <3>1, LoginStep DEF InitLogin
  <2>4. CASE UpdatePassword(r)
    BY <2>4, UpdatePasswordStep
  <2>5. ASSUME NEW n \in Name, NEW p \in Password, InitCheck(r, n, p) PROVE IInv'
    <3>1. CASE HasAdmin
      BY <2>5, <3>1, ReadReplyStep DEF InitCheck
    <3>2. CASE ~HasAdmin
      <4> DEFINE q == [step |-> "initInsert", name |-> n, pw |-> p]
      <4>1. q \in RequestState /\ q.step = "initInsert"
        BY DEF RequestState
      <4>2. Goto(r, q) /\ UNCHANGED <<tables, tokens>>
        BY <2>5, <3>2 DEF InitCheck
      <4> HIDE DEF q
      <4>3. QED BY <4>1, <4>2, ReadStep
    <3>3. QED BY <3>1, <3>2
  <2>6. ASSUME NEW n \in Name, NEW p \in Password, Login(r, n, p) PROVE IInv'
    BY <2>6, LoginStep DEF Login
  <2>7. ASSUME NEW n \in Name, NEW p \in Password, NEW role \in Role, Register(r, n, p, role) PROVE IInv'
    BY <2>7, RegisterStep
  <2>8. ASSUME NEW i \in Id, DeleteUser(r, i) PROVE IInv'
    BY <2>8, DeleteUserStep
  <2>9. ASSUME NEW i \in Id, NEW role \in Role \cup {"none"}, NEW p \in Password \cup {"none"},
               UpdateUser(r, i, role, p)
        PROVE  IInv'
    BY <2>9, UpdateUserStep
  <2>10. QED BY <1>3, <2>1, <2>2, <2>3, <2>4, <2>5, <2>6, <2>7, <2>8, <2>9 DEF AuthRequest
<1>4. ASSUME NEW r \in Request, SettingsRequest(r) PROVE IInv'
  <2>1. ASSUME NEW t \in tokens, Me(r, t) PROVE IInv'
    <3>1. CASE t.id \in DOMAIN users
      BY <2>1, <3>1, NoChange, OwnRequestStep DEF Me
    <3>2. CASE t.id \notin DOMAIN users
      BY <2>1, <3>2, ReadReplyStep DEF Me
    <3>3. QED BY <3>1, <3>2
  <2>2. ASSUME NEW t \in tokens, GetSettings(r, t) PROVE IInv'
    BY <2>2, NoChange, OwnRequestStep DEF GetSettings
  <2>3. ASSUME NEW t \in tokens, NEW c \in Change, PutSettings(r, t, c) PROVE IInv'
    BY <2>3, OwnRequestStep DEF PutSettings
  <2>4. CASE SelectSettings(r)
    BY <2>4, SelectSettingsStep
  <2>5. CASE CreateSettings(r)
    BY <2>5, CreateSettingsStep
  <2>6. CASE CreateSettingsErr(r)
    BY <2>6, ReadReplyStep DEF CreateSettingsErr
  <2>7. CASE RejectSettings(r)
    BY <2>7, ReadReplyStep DEF RejectSettings
  <2>8. CASE UpdateSettings(r)
    BY <2>8, UpdateSettingsStep
  <2>9. QED BY <1>4, <2>1, <2>2, <2>3, <2>4, <2>5, <2>6, <2>7, <2>8 DEF SettingsRequest
<1>5. QED BY <1>1, <1>2, <1>3, <1>4 DEF Next

\* The inductive invariant holds in every reachable state.
THEOREM Invariance == Spec => []IInv
BY InitInv, StepInv, PTL DEF Spec

\* Rows, tokens and requests keep their types: no statement brings back a deleted
\* account (UserStore, SettingsStore).
THEOREM TypeCorrect == Spec => []TypeOK
<1>1. IInv => TypeOK
  BY DEF IInv
<1>2. QED BY Invariance, <1>1, PTL

\* However many accounts are deleted and registered while tokens are in use, a token
\* opens the account it was issued for or none.
THEOREM TokensStayTrue == Spec => []TokenDenotesOne
<1>1. IInv => TokenDenotesOne
  BY DEF IInv
<1>2. QED BY Invariance, <1>1, PTL

\* Whatever interleaves with GetByUserID, settings have an owner.
THEOREM NoOrphanSettings == Spec => []SettingsHaveOwner
<1>1. IInv => SettingsHaveOwner
  BY DEF IInv
<1>2. QED BY Invariance, <1>1, PTL

\* For any number of concurrent requests and fields, what PUT /settings acknowledged
\* is what the row has.
THEOREM NoLostUpdate == Spec => []PutIsKept
<1>1. IInv => PutIsKept
  BY DEF IInv
<1>2. QED BY Invariance, <1>1, PTL
=============================================================================

------------------------------- MODULE Accounts -------------------------------
(***************************************************************************)
(* Accounts, tokens and per-user settings: internal/handler/auth_handler.go*)
(* and settings_handler.go over internal/auth and internal/store.          *)
(*                                                                         *)
(* The database has one connection (SetMaxOpenConns(1)) and no handler     *)
(* uses a transaction, so a single SQL statement is atomic and a handler is*)
(* a sequence of statements that others' statements interleave with.  A    *)
(* request is one HTTP request in progress, `step' the statement it is     *)
(* about to execute; a password is its bcrypt hash, and a token its claims.*)
(***************************************************************************)
EXTENDS Naturals, Functions

CONSTANTS
  Name,       \* usernames
  Password,
  Field,      \* columns of user_settings
  Value,      \* values a user gives them
  Request,    \* requests that can be in progress at once
  MaxId       \* bound on the accounts ever created

ASSUME AccountsAssumption ==
  /\ MaxId \in Nat
  /\ "default" \notin Value
  /\ "none" \notin Password

VARIABLES
  users,     \* table users, by id
  settings,  \* table user_settings, by user_id
  nextId,    \* sqlite_sequence: ids are AUTOINCREMENT
  tokens,    \* claims of the tokens issued so far
  req,       \* the requests
  kept       \* history: the values last acknowledged to each account

vars == <<users, settings, nextId, tokens, req, kept>>

\* Tables as functions: the empty one, one with a row more, and a row with some of
\* its columns changed.
Empty == [x \in {} |-> x]
With(f, k, v) == [x \in DOMAIN f \cup {k} |-> IF x = k THEN v ELSE f[x]]
Override(c, row) == [x \in DOMAIN row |-> IF x \in DOMAIN c THEN c[x] ELSE row[x]]

Id == 1 .. MaxId
Role == {"admin", "user"}
User == [name : Name, role : Role, pw : Password]
Token == [id : Id, name : Name, role : Role]
Change == UNION {[S -> Value] : S \in SUBSET Field}
Fresh == [f \in Field |-> "default"]

RequestState ==
       [step : {"idle", "ok", "refused", "error"}]
  \cup [step : {"initInsert", "initLogin"}, name : Name, pw : Password]
  \cup [step : {"password"}, id : Id, pw : Password]
  \cup [step : {"select", "create", "update"}, op : {"me", "get", "put"}, id : Id, change : Change]

TypeOK ==
  /\ DOMAIN users \subseteq Id /\ users \in [DOMAIN users -> User]
  /\ DOMAIN settings \subseteq Id
  /\ settings \in [DOMAIN settings -> [Field -> Value \cup {"default"}]]
  /\ nextId \in 1 .. MaxId + 1
  /\ tokens \subseteq Token
  /\ req \in [Request -> RequestState]
  /\ kept \in [Id -> [Field -> Value \cup {"default"}]]

Init ==
  /\ users = Empty
  /\ settings = Empty
  /\ nextId = 1
  /\ tokens = {}
  /\ req = [r \in Request |-> [step |-> "idle"]]
  /\ kept = [i \in Id |-> Fresh]

-----------------------------------------------------------------------------
(* The statements of internal/store *)

HasAdmin == \E i \in DOMAIN users : users[i].role = "admin"

Named(n) == {i \in DOMAIN users : users[i].name = n}

\* Mutant: a key without AUTOINCREMENT is one more than the largest one in use.
NewId_Reused ==
  CHOOSE i \in 1 .. MaxId + 1 :
    (\A j \in DOMAIN users : j < i) /\ (i = 1 \/ i - 1 \in DOMAIN users)

NewId == nextId

\* UserStore.Create, when the username is free (UNIQUE)
InsertUser(n, p, role) ==
  /\ Named(n) = {}
  /\ NewId \in Id
  /\ users' = With(users, NewId, [name |-> n, role |-> role, pw |-> p])
  /\ nextId' = NewId + 1

\* The foreign key of user_settings, and a mutant: foreign_keys is off.
MayOwnSettings_Any(i) == i \notin DOMAIN settings
MayOwnSettings(i) == i \in DOMAIN users /\ i \notin DOMAIN settings

\* auth.CreateToken for the row that Login has read
Issue(i) == tokens' = tokens \cup {[id |-> i, name |-> users[i].name, role |-> users[i].role]}

-----------------------------------------------------------------------------
Step(r, s) == req[r].step = s
Free(r) == req[r].step \in {"idle", "ok", "refused", "error"}
Goto(r, state) == req' = [req EXCEPT ![r] = state]
Reply(r, status) == Goto(r, [step |-> status])

tables == <<users, settings, nextId, kept>>

(* POST /auth/init: no token needed *)

InitCheck(r, n, p) ==
  /\ Free(r)
  /\ IF HasAdmin THEN Reply(r, "refused")
     ELSE Goto(r, [step |-> "initInsert", name |-> n, pw |-> p])
  /\ UNCHANGED <<tables, tokens>>

\* bcrypt takes its time, then the row is inserted.
InitInsert(r) ==
  /\ Step(r, "initInsert")
  /\ InsertUser(req[r].name, req[r].pw, "admin")
  /\ Goto(r, [req[r] EXCEPT !.step = "initLogin"])
  /\ UNCHANGED <<settings, tokens, kept>>

InitInsertErr(r) ==
  /\ Step(r, "initInsert")
  /\ Named(req[r].name) # {}
  /\ Reply(r, "error")
  /\ UNCHANGED <<tables, tokens>>

\* Service.Login: one SELECT, the comparison of the hash, the token.
LoginAs(r, n, p, failure) ==
  /\ \/ \E i \in Named(n) : users[i].pw = p /\ Issue(i) /\ Reply(r, "ok")
     \/ (\A i \in Named(n) : users[i].pw # p) /\ Reply(r, failure) /\ UNCHANGED tokens
  /\ UNCHANGED tables

InitLogin(r) == Step(r, "initLogin") /\ LoginAs(r, req[r].name, req[r].pw, "error")

(* POST /auth/login *)

Login(r, n, p) == Free(r) /\ LoginAs(r, n, p, "refused")

-----------------------------------------------------------------------------
(* Requests of an administrator: the role is the token's, not the table's *)

AsAdmin(r) == Free(r) /\ \E t \in tokens : t.role = "admin"

Register(r, n, p, role) ==
  /\ AsAdmin(r)
  /\ \/ InsertUser(n, p, role) /\ Reply(r, "ok")
     \/ Named(n) # {} /\ Reply(r, "error") /\ UNCHANGED <<users, nextId>>
  /\ UNCHANGED <<settings, tokens, kept>>

\* The settings go with the account (ON DELETE CASCADE).
DeleteUser(r, i) ==
  /\ AsAdmin(r)
  /\ users' = Restrict(users, DOMAIN users \ {i})
  /\ settings' = Restrict(settings, DOMAIN settings \ {i})
  /\ kept' = [kept EXCEPT ![i] = Fresh]
  /\ Reply(r, "ok")
  /\ UNCHANGED <<nextId, tokens>>

\* The role is updated at once; a new password only after bcrypt.
UpdateUser(r, i, role, p) ==
  /\ AsAdmin(r)
  /\ users' = IF role \in Role /\ i \in DOMAIN users THEN [users EXCEPT ![i].role = role]
              ELSE users
  /\ IF p \in Password THEN Goto(r, [step |-> "password", id |-> i, pw |-> p])
     ELSE Reply(r, "ok")
  /\ UNCHANGED <<settings, nextId, tokens, kept>>

\* Mutant: an upsert brings a deleted account back, without name and role.
UpdatePassword_Upsert(r) ==
  /\ Step(r, "password")
  /\ users' = IF req[r].id \in DOMAIN users THEN [users EXCEPT ![req[r].id].pw = req[r].pw]
              ELSE With(users, req[r].id, [pw |-> req[r].pw])
  /\ Reply(r, "ok")
  /\ UNCHANGED <<settings, nextId, tokens, kept>>

UpdatePassword(r) ==
  /\ Step(r, "password")
  /\ users' = IF req[r].id \in DOMAIN users THEN [users EXCEPT ![req[r].id].pw = req[r].pw]
              ELSE users
  /\ Reply(r, "ok")
  /\ UNCHANGED <<settings, nextId, tokens, kept>>

-----------------------------------------------------------------------------
(* Requests for one's own account and settings *)

OwnRequest(op, i, change) == [step |-> "select", op |-> op, id |-> i, change |-> change]

\* GET /auth/me: GetByID, then the settings, whose error is ignored
Me(r, t) ==
  /\ Free(r)
  /\ IF t.id \in DOMAIN users THEN Goto(r, OwnRequest("me", t.id, Empty))
     ELSE Reply(r, "refused")
  /\ UNCHANGED <<tables, tokens>>

\* GET /settings
GetSettings(r, t) ==
  /\ Free(r)
  /\ Goto(r, OwnRequest("get", t.id, Empty))
  /\ UNCHANGED <<tables, tokens>>

\* PUT /settings: `change' has the fields of the body that Update accepts (known, of
\* the right type); the others are skipped.
PutSettings(r, t, change) ==
  /\ Free(r)
  /\ Goto(r, OwnRequest("put", t.id, change))
  /\ UNCHANGED <<tables, tokens>>

\* What follows GetByUserID in the three handlers
HaveSettings(r) ==
  IF req[r].op = "put" THEN Goto(r, [req[r] EXCEPT !.step = "update"]) ELSE Reply(r, "ok")

SelectSettings(r) ==
  /\ Step(r, "select")
  /\ IF req[r].id \in DOMAIN settings THEN HaveSettings(r)
     ELSE Goto(r, [req[r] EXCEPT !.step = "create"])
  /\ UNCHANGED <<tables, tokens>>

\* INSERT INTO user_settings: the primary key and the foreign key must agree.
CreateSettings(r) ==
  /\ Step(r, "create")
  /\ MayOwnSettings(req[r].id)
  /\ settings' = With(settings, req[r].id, Fresh)
  /\ HaveSettings(r)
  /\ UNCHANGED <<users, nextId, tokens, kept>>

CreateSettingsErr(r) ==
  /\ Step(r, "create")
  /\ ~MayOwnSettings(req[r].id)
  /\ Reply(r, IF req[r].op = "me" THEN "ok" ELSE "error")
  /\ UNCHANGED <<tables, tokens>>

\* The body is malformed or quadlet_dir is not an acceptable directory.
RejectSettings(r) ==
  /\ Step(r, "update")
  /\ Reply(r, "refused")
  /\ UNCHANGED <<tables, tokens>>

\* Mutant: fields that the body leaves out go back to their defaults.
UpdateSettings_Whole(r) ==
  /\ Step(r, "update")
  /\ LET i == req[r].id
         c == req[r].change
     IN /\ settings' = IF i \in DOMAIN settings THEN [settings EXCEPT ![i] = Override(c, Fresh)]
                       ELSE settings
        /\ kept' = IF i \in DOMAIN users THEN [kept EXCEPT ![i] = Override(c, @)] ELSE kept
  /\ Reply(r, "ok")
  /\ UNCHANGED <<users, nextId, tokens>>

\* UPDATE user_settings SET ...: only the given fields, and no row is no error.
UpdateSettings(r) ==
  /\ Step(r, "update")
  /\ LET i == req[r].id
         c == req[r].change
     IN /\ settings' = IF i \in DOMAIN settings THEN [settings EXCEPT ![i] = Override(c, @)]
                       ELSE settings
        /\ kept' = IF i \in DOMAIN users THEN [kept EXCEPT ![i] = Override(c, @)] ELSE kept
  /\ Reply(r, "ok")
  /\ UNCHANGED <<users, nextId, tokens>>

-----------------------------------------------------------------------------
\* The process stops and starts again: the requests are gone, what their
\* statements did is not, and the tokens are good because main.go keeps the secret
\* in table config.
Restart ==
  /\ req' = [r \in Request |-> [step |-> "idle"]]
  /\ UNCHANGED <<tables, tokens>>

AuthRequest(r) ==
  \/ InitInsert(r) \/ InitInsertErr(r) \/ InitLogin(r) \/ UpdatePassword(r)
  \/ \E n \in Name, p \in Password :
       \/ InitCheck(r, n, p)
       \/ Login(r, n, p)
       \/ \E role \in Role : Register(r, n, p, role)
  \/ \E i \in Id : DeleteUser(r, i)
  \/ \E i \in Id, role \in Role \cup {"none"}, p \in Password \cup {"none"} :
       UpdateUser(r, i, role, p)

SettingsRequest(r) ==
  \/ \E t \in tokens : Me(r, t) \/ GetSettings(r, t)
  \/ \E t \in tokens, c \in Change : PutSettings(r, t, c)
  \/ SelectSettings(r) \/ CreateSettings(r) \/ CreateSettingsErr(r)
  \/ RejectSettings(r) \/ UpdateSettings(r)

Next ==
  \/ \E r \in Request : AuthRequest(r) \/ SettingsRequest(r)
  \/ Restart

Spec == Init /\ [][Next]_vars

-----------------------------------------------------------------------------
(* Properties *)

\* A token names an account by its id and lives for a day: whatever was deleted and
\* registered since, it never opens the account of somebody else.
TokenDenotesOne ==
  \A t \in tokens : t.id \in DOMAIN users => users[t.id].name = t.name

\* No settings without an account: a deletion between the SELECT and the INSERT of
\* GetByUserID leaves no row behind that nobody owns.
SettingsHaveOwner == DOMAIN settings \subseteq DOMAIN users

\* What PUT /settings acknowledged stays in the row until it is overwritten, field by
\* field: concurrent requests for different fields do not undo each other, and an
\* acknowledged change was not dropped for want of a row.
PutIsKept ==
  \A i \in DOMAIN users : \A f \in Field :
    LET stored == IF i \in DOMAIN settings THEN settings[i][f] ELSE "default"
    IN  stored = kept[i][f]

\* POST /auth/init creates the first administrator only (docs/API.md:31; a second
\* one expects 409 in internal/handler/auth_handler_test.go:145).
OnlyFirstAdminByInit ==
  [][\A r \in Request : InitInsert(r) => ~HasAdmin]_vars

-----------------------------------------------------------------------------
(* The inductive invariant behind the safety properties *)

\* Ids are given out in order and never again.
IdInv ==
  /\ \A i \in DOMAIN users : i < nextId
  /\ \A t \in tokens : t.id < nextId

\* A request knows the id of an account that existed, and one that is about to update
\* the settings of an account that still exists has a row for it.
RequestInv(r) ==
  /\ req[r].step \in {"select", "create", "update"} => req[r].id < nextId
  /\ req[r].step = "update" /\ req[r].id \in DOMAIN users => req[r].id \in DOMAIN settings

\* An account starts with the defaults.
KeptInv == \A i \in Id \ DOMAIN users : kept[i] = Fresh

IInv ==
  /\ TypeOK
  /\ IdInv
  /\ KeptInv
  /\ \A r \in Request : RequestInv(r)
  /\ TokenDenotesOne
  /\ SettingsHaveOwner
  /\ PutIsKept
=============================================================================

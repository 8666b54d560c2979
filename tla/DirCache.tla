------------------------------- MODULE DirCache -------------------------------
(***************************************************************************)
(* Which directory a request works in: resolveFS of file_service.go and of *)
(* unit_service.go, each with a cache of its own, over the setting         *)
(* quadlet_dir in the database.  A request looks into the cache, asks the  *)
(* database and puts the answer into the cache, with the user changing the *)
(* setting and other requests of the same user in between; nobody removes  *)
(* an entry when the setting changes.                                      *)
(***************************************************************************)
EXTENDS Naturals

CONSTANTS
  User,
  Service,  \* the services with a dirCache: FileService, UnitService
  Dir,      \* directories a user may choose
  Default,  \* stands for the empty setting, and for the default directory
  Request,  \* requests that can be in progress at once
  TTL,      \* life of an entry (10 s in the code), in ticks
  Delay,    \* bound on the time between the answer of the database and Store
  MaxTime   \* bound on the clock

ASSUME DirCacheAssumption ==
  /\ Default \notin Dir
  /\ TTL \in Nat /\ Delay \in Nat /\ MaxTime \in Nat

VARIABLES
  now,     \* the clock, which starts at 1
  setting, \* quadlet_dir of each user
  cache,   \* dirCache of each service; an entry without a life never was stored
  req,     \* the requests
  seenAt   \* history: when a directory was last a user's setting (0: never)

vars == <<now, setting, cache, req, seenAt>>

Setting == Dir \cup {Default}
Time    == 0 .. MaxTime

RequestState ==
  [step : {"idle", "read", "store", "done"}, user : User, service : Service,
   dir : Setting, readAt : Time, failed : BOOLEAN]

TypeOK ==
  /\ now \in Time \ {0}
  /\ setting \in [User -> Setting]
  /\ cache \in [Service \X User -> [dir : Setting, expiresAt : Nat]]
  /\ req \in [Request -> RequestState]
  /\ seenAt \in [User -> [Setting -> Time]]

Init ==
  /\ now = 1 /\ now \in Time
  /\ setting \in [User -> Setting]
  /\ cache = [k \in Service \X User |-> [dir |-> Default, expiresAt |-> 0]]
  /\ req \in [Request -> {[step |-> "idle", user |-> u, service |-> s, dir |-> Default,
                           readAt |-> 0, failed |-> FALSE] : u \in User, s \in Service}]
  /\ seenAt = [u \in User |-> [d \in Setting |-> IF d = setting[u] THEN 1 ELSE 0]]

-----------------------------------------------------------------------------
Step(r, s) == req[r].step = s
Free(r)    == req[r].step \in {"idle", "done"}

\* Mutant: one entry per service.
Slot_Shared(s, u) == <<s, CHOOSE v \in User : TRUE>>

\* The key of the sync.Map
Slot(s, u) == <<s, u>>

\* Mutant: entries do not expire.
Cached_Forever(e) == e.dir # Default

Cached(e) == now < e.expiresAt /\ e.dir # Default

Resolve(r, d, failed) ==
  req' = [req EXCEPT ![r].step = "done", ![r].dir = d, ![r].failed = failed]

\* resolveFS is called for a user: the cache has an answer ...
Hit(r, s, u) ==
  /\ Free(r)
  /\ Cached(cache[Slot(s, u)])
  /\ req' = [req EXCEPT ![r] = [step |-> "done", user |-> u, service |-> s,
               dir |-> cache[Slot(s, u)].dir, readAt |-> 0, failed |-> FALSE]]
  /\ UNCHANGED <<now, setting, cache, seenAt>>

\* ... or it has not.
Miss(r, s, u) ==
  /\ Free(r)
  /\ ~Cached(cache[Slot(s, u)])
  /\ req' = [req EXCEPT ![r] = [step |-> "read", user |-> u, service |-> s,
               dir |-> Default, readAt |-> 0, failed |-> FALSE]]
  /\ UNCHANGED <<now, setting, cache, seenAt>>

\* GetByUserID; an empty setting is not put into the cache.
Read(r) ==
  /\ Step(r, "read")
  /\ LET d == setting[req[r].user]
     IN  IF d = Default THEN Resolve(r, Default, FALSE)
         ELSE req' = [req EXCEPT ![r].step = "store", ![r].dir = d, ![r].readAt = now]
  /\ UNCHANGED <<now, setting, cache, seenAt>>

\* An error of the database is not reported: the request works in the default directory.
ReadErr(r) ==
  /\ Step(r, "read")
  /\ Resolve(r, Default, TRUE)
  /\ UNCHANGED <<now, setting, cache, seenAt>>

Store(r) ==
  /\ Step(r, "store")
  /\ cache' = [cache EXCEPT ![Slot(req[r].service, req[r].user)] =
                              [dir |-> req[r].dir, expiresAt |-> now + TTL]]
  /\ Resolve(r, req[r].dir, FALSE)
  /\ UNCHANGED <<now, setting, seenAt>>

\* PUT /settings with another quadlet_dir
Change(u, d) ==
  /\ setting' = [setting EXCEPT ![u] = d]
  /\ seenAt' = [seenAt EXCEPT ![u][d] = now]
  /\ UNCHANGED <<now, cache, req>>

\* What a request resolved is of no interest later.
Tick ==
  /\ now < MaxTime
  /\ \A r \in Request : Step(r, "store") => now < req[r].readAt + Delay
  /\ now' = now + 1
  /\ seenAt' = [u \in User |-> [seenAt[u] EXCEPT ![setting[u]] = now']]
  /\ req' = [r \in Request |-> IF Step(r, "done") THEN [req[r] EXCEPT !.step = "idle"] ELSE req[r]]
  /\ UNCHANGED <<setting, cache>>

Next ==
  \/ \E r \in Request, s \in Service, u \in User : Hit(r, s, u) \/ Miss(r, s, u)
  \/ \E r \in Request : Read(r) \/ ReadErr(r) \/ Store(r)
  \/ \E u \in User, d \in Setting : Change(u, d)
  \/ Tick

Spec == Init /\ [][Next]_vars

-----------------------------------------------------------------------------
(* Properties *)

\* The directory that resolveFS gives a request was the setting of that very user not
\* longer than a cache entry and one slow request ago, though an older answer of the
\* database may be stored over a newer one (file_service.go:44-45) and a change of the
\* setting invalidates nothing.
FreshEnough ==
  \A r \in Request : Step(r, "done") /\ ~req[r].failed =>
    LET seen == seenAt[req[r].user][req[r].dir]
    IN  seen > 0 /\ now <= seen + TTL + Delay

-----------------------------------------------------------------------------
(* The inductive invariant behind it *)

\* What is in the cache runs out before it is too old.
CacheInv ==
  \A s \in Service, u \in User :
    LET e == cache[<<s, u>>]
    IN  e.dir # Default => seenAt[u][e.dir] > 0 /\ e.expiresAt <= seenAt[u][e.dir] + TTL + Delay

\* What is about to be stored was the setting when it was read, not long ago.
StoreInv ==
  \A r \in Request : Step(r, "store") =>
    /\ req[r].dir # Default
    /\ 0 < req[r].readAt
    /\ req[r].readAt <= seenAt[req[r].user][req[r].dir]
    /\ now <= req[r].readAt + Delay

\* A setting is in force now, and nothing was later than now.
SettingInv ==
  \A u \in User : seenAt[u][setting[u]] = now /\ \A d \in Setting : seenAt[u][d] <= now

IInv == TypeOK /\ CacheInv /\ StoreInv /\ SettingInv /\ FreshEnough

=============================================================================

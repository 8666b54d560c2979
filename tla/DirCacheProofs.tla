--------------------------- MODULE DirCacheProofs ---------------------------
(***************************************************************************)
(* Proofs about DirCache: the staleness bound, for any users, services,    *)
(* directories and requests and any life of an entry.                      *)
(***************************************************************************)
EXTENDS DirCache, TLAPS

\* The fields of a request.
LEMMA RequestFields ==
  ASSUME TypeOK, NEW r \in Request
  PROVE  /\ req[r].step \in {"idle", "read", "store", "done"}
         /\ req[r].user \in User /\ req[r].service \in Service
         /\ req[r].dir \in Setting /\ req[r].readAt \in Time
         /\ req[r].failed \in BOOLEAN
  BY DEF TypeOK, RequestState

\* Instants and lives are natural numbers.
LEMMA TimeFacts ==
  ASSUME TypeOK, DirCacheAssumption
  PROVE  /\ now \in Nat /\ now > 0
         /\ \A u \in User, d \in Setting : seenAt[u][d] \in Nat
         /\ \A u \in User : setting[u] \in Setting
         /\ \A s \in Service, u \in User : /\ cache[<<s, u>>].dir \in Setting
                                           /\ cache[<<s, u>>].expiresAt \in Nat
  BY DEF TypeOK, Time, DirCacheAssumption

\* The initial states satisfy the inductive invariant.
LEMMA InitIInv == ASSUME DirCacheAssumption PROVE Init => IInv
<1> SUFFICES ASSUME Init PROVE IInv
  OBVIOUS
<1> USE DirCacheAssumption DEF Init
<1>1. TypeOK
  <2>1. req \in [Request -> RequestState]
    <3>1. ASSUME NEW u \in User, NEW s \in Service
          PROVE  [step |-> "idle", user |-> u, service |-> s, dir |-> Default,
                  readAt |-> 0, failed |-> FALSE] \in RequestState
      BY DEF RequestState, Setting, Time
    <3> QED
      BY <3>1
  <2>2. cache \in [Service \X User -> [dir : Setting, expiresAt : Nat]]
    BY DEF Setting
  <2>3. seenAt \in [User -> [Setting -> Time]] /\ now \in Time \ {0}
    BY DEF Time
  <2> QED
    BY <2>1, <2>2, <2>3 DEF TypeOK
<1>2. CacheInv
  BY DEF CacheInv
<1>3. StoreInv /\ FreshEnough
  <2>1. \A r \in Request : req[r].step = "idle"
    OBVIOUS
  <2> QED
    BY <2>1 DEF StoreInv, FreshEnough, Step
<1>4. SettingInv
  <2> SUFFICES ASSUME NEW u \in User
               PROVE  seenAt[u][setting[u]] = now /\ \A d \in Setting : seenAt[u][d] <= now
    BY DEF SettingInv
  <2>1. setting[u] \in Setting /\ now = 1
    OBVIOUS
  <2>2. \A d \in Setting : seenAt[u][d] = IF d = setting[u] THEN 1 ELSE 0
    OBVIOUS
  <2>3. seenAt[u][setting[u]] = 1 /\ \A d \in Setting : seenAt[u][d] \in 0 .. 1
    BY <2>1, <2>2
  <2> QED
    BY <2>1, <2>3
<1> QED
  BY <1>1, <1>2, <1>3, <1>4 DEF IInv

\* A step that changes one request only keeps the invariant, if the request is neither
\* about to store nor done with a directory that is too old.
LEMMA OneRequest ==
  ASSUME IInv, NEW r \in Request, NEW q \in RequestState, req' = [req EXCEPT ![r] = q],
         UNCHANGED <<now, setting, cache, seenAt>>,
         q.step = "store" => /\ q.dir # Default
                             /\ 0 < q.readAt
                             /\ q.readAt <= seenAt[q.user][q.dir]
                             /\ now <= q.readAt + Delay,
         q.step = "done" /\ ~q.failed => /\ seenAt[q.user][q.dir] > 0
                                         /\ now <= seenAt[q.user][q.dir] + TTL + Delay
  PROVE  IInv'
<1>1. /\ req' \in [Request -> RequestState]
      /\ req'[r] = q
      /\ \A p \in Request \ {r} : req'[p] = req[p]
  BY DEF IInv, TypeOK
<1>2. TypeOK'
  BY <1>1 DEF IInv, TypeOK
<1>3. CacheInv' /\ SettingInv'
  BY DEF IInv, CacheInv, SettingInv
<1>4. StoreInv'
  BY <1>1 DEF IInv, StoreInv, Step
<1>5. FreshEnough'
  BY <1>1 DEF IInv, FreshEnough, Step
<1> QED
  BY <1>2, <1>3, <1>4, <1>5 DEF IInv

\* An answer that is good by the rule for entries is good by the rule for requests.
LEMMA EntryIsFresh ==
  ASSUME NEW n \in Nat, NEW e \in Nat, NEW s \in Nat, NEW t \in Nat, NEW d \in Nat,
         n < e, e <= s + t + d
  PROVE  n <= s + t + d
  OBVIOUS

\* The invariant survives this step: the cache answers.
LEMMA HitKeeps ==
  ASSUME IInv, DirCacheAssumption, NEW r \in Request, NEW s \in Service, NEW u \in User, Hit(r, s, u)
  PROVE  IInv'
<1> DEFINE e == cache[<<s, u>>]
           q == [step |-> "done", user |-> u, service |-> s, dir |-> e.dir, readAt |-> 0, failed |-> FALSE]
<1>1. TypeOK /\ now < e.expiresAt /\ e.dir # Default
  BY DEF IInv, Hit, Cached, Slot
<1>2. now \in Nat /\ e.expiresAt \in Nat /\ e.dir \in Setting /\ seenAt[u][e.dir] \in Nat
      /\ TTL \in Nat /\ Delay \in Nat
  BY <1>1, TimeFacts DEF DirCacheAssumption
<1>3. seenAt[u][e.dir] > 0 /\ e.expiresAt <= seenAt[u][e.dir] + TTL + Delay
  BY <1>1 DEF IInv, CacheInv
<1>4. now <= seenAt[u][e.dir] + TTL + Delay
  <2> HIDE DEF e
  <2> QED
    BY <1>1, <1>2, <1>3, EntryIsFresh
<1>5. q \in RequestState
  BY <1>2 DEF RequestState, Time, DirCacheAssumption
<1>6. req' = [req EXCEPT ![r] = q] /\ UNCHANGED <<now, setting, cache, seenAt>>
  BY DEF Hit, Slot
<1>7. q.step = "done" /\ q.user = u /\ q.dir = e.dir
  OBVIOUS
<1> HIDE DEF q, e
<1> QED
  BY <1>3, <1>4, <1>5, <1>6, <1>7, OneRequest

\* The invariant survives this step: the cache has no answer.
LEMMA MissKeeps ==
  ASSUME IInv, DirCacheAssumption, NEW r \in Request, NEW s \in Service, NEW u \in User, Miss(r, s, u)
  PROVE  IInv'
<1> DEFINE q == [step |-> "read", user |-> u, service |-> s, dir |-> Default, readAt |-> 0, failed |-> FALSE]
<1>1. q \in RequestState /\ q.step = "read"
  BY DEF RequestState, Setting, Time, DirCacheAssumption
<1>2. req' = [req EXCEPT ![r] = q] /\ UNCHANGED <<now, setting, cache, seenAt>>
  BY DEF Miss
<1> HIDE DEF q
<1> QED
  BY <1>1, <1>2, OneRequest

\* The invariant survives this step: the database answers, or fails.
LEMMA ReadKeeps ==
  ASSUME IInv, DirCacheAssumption, NEW r \in Request, Read(r) \/ ReadErr(r)
  PROVE  IInv'
<1> DEFINE u == req[r].user
           d == setting[u]
           stored == [req[r] EXCEPT !.step = "store", !.dir = d, !.readAt = now]
           gone(failed) == [req[r] EXCEPT !.step = "done", !.dir = Default, !.failed = failed]
<1>1. TypeOK /\ u \in User /\ d \in Setting /\ now \in Time /\ now \in Nat /\ now > 0
  BY RequestFields, TimeFacts DEF IInv, TypeOK
<1>2. seenAt[u][d] = now
  BY <1>1 DEF IInv, SettingInv
<1>3. TTL \in Nat /\ Delay \in Nat
  BY DEF DirCacheAssumption
<1>4. now <= now + Delay /\ now <= now + TTL + Delay
  BY <1>1, <1>3
<1>5. UNCHANGED <<now, setting, cache, seenAt>>
  BY DEF Read, ReadErr
<1>6. req[r] \in RequestState
  BY <1>1 DEF TypeOK
<1>7. CASE Read(r) /\ d = Default
  <2>1. req' = [req EXCEPT ![r] = gone(FALSE)]
    BY <1>1, <1>7 DEF Read, Resolve, TypeOK
  <2>2. /\ gone(FALSE) \in RequestState /\ gone(FALSE).step = "done"
        /\ gone(FALSE).user = u /\ gone(FALSE).dir = d
    BY <1>6, <1>7 DEF RequestState, Setting
  <2> HIDE DEF gone, d, u
  <2> QED
    BY <1>1, <1>2, <1>4, <1>5, <2>1, <2>2, OneRequest
<1>8. CASE Read(r) /\ d # Default
  <2>1. req' = [req EXCEPT ![r] = stored]
    BY <1>1, <1>8 DEF Read, TypeOK
  <2>2. /\ stored \in RequestState /\ stored.step = "store"
        /\ stored.user = u /\ stored.dir = d /\ stored.readAt = now
    BY <1>1, <1>6 DEF RequestState
  <2> HIDE DEF stored, d, u
  <2>3. /\ stored.dir # Default /\ 0 < stored.readAt
        /\ stored.readAt <= seenAt[stored.user][stored.dir]
        /\ now <= stored.readAt + Delay
    BY <1>1, <1>2, <1>4, <1>8, <2>2
  <2> QED
    BY <1>5, <2>1, <2>2, <2>3, OneRequest
<1>9. CASE ReadErr(r)
  <2>1. req' = [req EXCEPT ![r] = gone(TRUE)]
    BY <1>1, <1>9 DEF ReadErr, Resolve, TypeOK
  <2>2. gone(TRUE) \in RequestState /\ gone(TRUE).step = "done" /\ gone(TRUE).failed
    BY <1>6 DEF RequestState, Setting
  <2> HIDE DEF gone
  <2> QED
    BY <1>5, <2>1, <2>2, OneRequest
<1> QED
  BY <1>7, <1>8, <1>9

\* The invariant survives this step: an entry is stored.
LEMMA StoreKeeps ==
  ASSUME IInv, DirCacheAssumption, NEW r \in Request, Store(r)
  PROVE  IInv'
<1> DEFINE u == req[r].user
           s == req[r].service
           d == req[r].dir
           q == [req[r] EXCEPT !.step = "done", !.dir = d, !.failed = FALSE]
<1>1. TypeOK /\ u \in User /\ s \in Service /\ d \in Setting /\ req[r].readAt \in Nat
  BY RequestFields, DirCacheAssumption DEF IInv, Time
<1>2. /\ d # Default /\ 0 < req[r].readAt /\ req[r].readAt <= seenAt[u][d]
      /\ now <= req[r].readAt + Delay
  BY DEF IInv, StoreInv, Store
<1>3. now \in Nat /\ seenAt[u][d] \in Nat /\ TTL \in Nat /\ Delay \in Nat
  BY <1>1, TimeFacts DEF DirCacheAssumption
<1>4. seenAt[u][d] > 0 /\ now + TTL <= seenAt[u][d] + TTL + Delay /\ now <= seenAt[u][d] + TTL + Delay
  <2> HIDE DEF u, d
  <2> QED
    BY <1>1, <1>2, <1>3
<1>5. /\ cache' = [cache EXCEPT ![<<s, u>>] = [dir |-> d, expiresAt |-> now + TTL]]
      /\ UNCHANGED <<now, setting, seenAt>>
  BY DEF Store, Slot
<1>6. /\ req' = [req EXCEPT ![r] = q]
      /\ q \in RequestState /\ q.step = "done" /\ q.user = u /\ q.dir = d
  BY <1>1 DEF Store, Resolve, TypeOK, RequestState
<1>7. now + TTL \in Nat
  BY <1>3
<1> HIDE DEF q, u, s, d
<1>8. TypeOK'
  BY <1>1, <1>5, <1>6, <1>7 DEF TypeOK
<1>9. CacheInv'
  <2>1. /\ cache'[<<s, u>>].dir = d /\ cache'[<<s, u>>].expiresAt = now + TTL
        /\ \A t \in Service, v \in User : t # s \/ v # u => cache'[<<t, v>>] = cache[<<t, v>>]
    BY <1>1, <1>5 DEF TypeOK
  <2> SUFFICES ASSUME NEW t \in Service, NEW v \in User, cache'[<<t, v>>].dir # Default
               PROVE  /\ seenAt[v][cache'[<<t, v>>].dir] > 0
                      /\ cache'[<<t, v>>].expiresAt <= seenAt[v][cache'[<<t, v>>].dir] + TTL + Delay
    BY <1>5 DEF CacheInv
  <2>2. CASE t = s /\ v = u
    BY <1>4, <2>1, <2>2
  <2>3. CASE t # s \/ v # u
    BY <2>1, <2>3 DEF IInv, CacheInv
  <2> QED
    BY <2>2, <2>3
<1>10. /\ req'[r] = q
       /\ \A p \in Request \ {r} : req'[p] = req[p]
  BY <1>1, <1>6 DEF TypeOK
<1>11. StoreInv'
  BY <1>5, <1>6, <1>10 DEF IInv, StoreInv, Step
<1>12. FreshEnough'
  BY <1>4, <1>5, <1>6, <1>10 DEF IInv, FreshEnough, Step
<1>13. SettingInv'
  BY <1>5 DEF IInv, SettingInv
<1> QED
  BY <1>8, <1>9, <1>11, <1>12, <1>13 DEF IInv

\* The bounds of entries are kept when directories become settings again.
LEMMA LaterKeepsCache ==
  ASSUME TypeOK, CacheInv, DirCacheAssumption, cache' = cache,
         \A u \in User, d \in Setting : seenAt'[u][d] \in Nat /\ seenAt[u][d] <= seenAt'[u][d]
  PROVE  CacheInv'
<1> SUFFICES ASSUME NEW s \in Service, NEW u \in User, cache[<<s, u>>].dir # Default
             PROVE  LET e == cache[<<s, u>>]
                    IN  /\ seenAt'[u][e.dir] > 0
                        /\ e.expiresAt <= seenAt'[u][e.dir] + TTL + Delay
  BY DEF CacheInv
<1> DEFINE e == cache[<<s, u>>]
           x == seenAt[u][e.dir]
           y == seenAt'[u][e.dir]
<1>1. e.dir \in Setting /\ e.expiresAt \in Nat /\ x \in Nat /\ TTL \in Nat /\ Delay \in Nat
  BY TimeFacts DEF DirCacheAssumption
<1>2. y \in Nat /\ x <= y
  BY <1>1
<1>3. x > 0 /\ e.expiresAt <= x + TTL + Delay
  BY DEF CacheInv
<1>4. y > 0 /\ e.expiresAt <= y + TTL + Delay
  <2> HIDE DEF x, y, e
  <2> QED
    BY <1>1, <1>2, <1>3
<1> QED
  BY <1>4

\* Instants that are no later than another, after both have moved on.
LEMMA Transitive ==
  ASSUME NEW n \in Nat, NEW s \in Nat, NEW t \in Nat, s <= t, NEW c \in Nat, NEW d \in Nat
  PROVE  /\ s > 0 => t > 0
         /\ n <= s + c + d => n <= t + c + d
         /\ n <= s => n <= t
  OBVIOUS

\* The invariant survives this step: a user changes the setting.
LEMMA ChangeKeeps ==
  ASSUME IInv, DirCacheAssumption, NEW u \in User, NEW d \in Setting, Change(u, d)
  PROVE  IInv'
<1>1. TypeOK /\ TTL \in Nat /\ Delay \in Nat /\ now \in Nat
  BY TimeFacts DEF IInv, DirCacheAssumption
<1>2. /\ setting' = [setting EXCEPT ![u] = d]
      /\ seenAt' = [seenAt EXCEPT ![u][d] = now]
      /\ UNCHANGED <<now, cache, req>>
  BY DEF Change
<1>3. TypeOK'
  BY <1>1, <1>2 DEF TypeOK
<1>4. seenAt'[u][d] = now /\ \A v \in User, e \in Setting :
         v # u \/ e # d => seenAt'[v][e] = seenAt[v][e]
  BY <1>1, <1>2 DEF TypeOK
<1>5. \A v \in User, e \in Setting : seenAt[v][e] \in Nat /\ seenAt[v][e] <= now
  BY <1>1, TimeFacts DEF IInv, SettingInv
<1>6. \A v \in User, e \in Setting : /\ seenAt'[v][e] \in Nat
                                     /\ seenAt[v][e] <= seenAt'[v][e]
                                     /\ seenAt'[v][e] <= now
  BY <1>1, <1>4, <1>5
<1>7. CacheInv'
  BY <1>1, <1>2, <1>6, LaterKeepsCache DEF IInv
<1>8. ASSUME NEW r \in Request, req[r].step = "store"
      PROVE  req[r].readAt <= seenAt'[req[r].user][req[r].dir]
  <2>1. req[r].readAt \in Nat /\ req[r].user \in User /\ req[r].dir \in Setting
    BY <1>1, RequestFields, DirCacheAssumption DEF Time, DirCacheAssumption
  <2>2. req[r].readAt <= seenAt[req[r].user][req[r].dir]
    BY <1>8 DEF IInv, StoreInv, Step
  <2> QED
    BY <1>5, <1>6, <2>1, <2>2, Transitive
<1>9. StoreInv'
  BY <1>2, <1>8 DEF IInv, StoreInv, Step
<1>10. ASSUME NEW r \in Request, req[r].step = "done", ~req[r].failed
       PROVE  LET seen == seenAt'[req[r].user][req[r].dir]
              IN  seen > 0 /\ now <= seen + TTL + Delay
  <2>1. req[r].user \in User /\ req[r].dir \in Setting
    BY <1>1, RequestFields
  <2>2. LET seen == seenAt[req[r].user][req[r].dir]
        IN  seen > 0 /\ now <= seen + TTL + Delay
    BY <1>10 DEF IInv, FreshEnough, Step
  <2> QED
    BY <1>1, <1>5, <1>6, <2>1, <2>2, Transitive
<1>11. FreshEnough'
  BY <1>2, <1>10 DEF FreshEnough, Step
<1>12. SettingInv'
  BY <1>1, <1>2, <1>4, <1>6 DEF IInv, SettingInv, TypeOK
<1> QED
  BY <1>3, <1>7, <1>9, <1>11, <1>12 DEF IInv

\* The invariant survives this step: time passes.
LEMMA TickKeeps ==
  ASSUME IInv, DirCacheAssumption, Tick
  PROVE  IInv'
<1>1. TypeOK /\ TTL \in Nat /\ Delay \in Nat /\ now \in Nat /\ now > 0 /\ now' = now + 1
  BY TimeFacts DEF IInv, DirCacheAssumption, Tick
<1>2. /\ seenAt' = [u \in User |-> [seenAt[u] EXCEPT ![setting[u]] = now']]
      /\ req' = [r \in Request |-> IF Step(r, "done") THEN [req[r] EXCEPT !.step = "idle"] ELSE req[r]]
      /\ UNCHANGED <<setting, cache>>
  BY DEF Tick
<1>3. now' \in Time \ {0}
  BY <1>1, DirCacheAssumption DEF TypeOK, Time, Tick, DirCacheAssumption
<1>4. \A r \in Request : /\ req'[r] \in RequestState
                         /\ req'[r].step # "done"
                         /\ req'[r].step = "store" => req'[r] = req[r]
  BY <1>1, <1>2 DEF TypeOK, RequestState, Step
<1>5. TypeOK'
  BY <1>1, <1>2, <1>3, <1>4 DEF TypeOK
<1>6. /\ \A v \in User : setting[v] \in Setting
      /\ \A v \in User, e \in Setting : seenAt[v][e] \in Nat /\ seenAt[v][e] <= now
  BY <1>1, TimeFacts DEF IInv, SettingInv
<1>7. \A v \in User, e \in Setting : seenAt'[v][e] = IF e = setting[v] THEN now' ELSE seenAt[v][e]
  BY <1>1, <1>2 DEF TypeOK
<1>8. \A v \in User, e \in Setting : /\ seenAt'[v][e] \in Nat
                                     /\ seenAt[v][e] <= seenAt'[v][e]
                                     /\ seenAt'[v][e] <= now'
  BY <1>1, <1>6, <1>7
<1>9. CacheInv'
  BY <1>1, <1>2, <1>8, LaterKeepsCache DEF IInv
<1>10. ASSUME NEW r \in Request, req'[r].step = "store"
       PROVE  /\ req[r].step = "store" /\ req'[r] = req[r]
              /\ req[r].readAt <= seenAt'[req[r].user][req[r].dir]
              /\ now' <= req[r].readAt + Delay
  <2>1. req'[r] = req[r] /\ req[r].step = "store"
    BY <1>4, <1>10
  <2>2. req[r].readAt \in Nat /\ req[r].user \in User /\ req[r].dir \in Setting
    BY <1>1, RequestFields, DirCacheAssumption DEF Time, DirCacheAssumption
  <2>3. req[r].readAt <= seenAt[req[r].user][req[r].dir]
    BY <2>1 DEF IInv, StoreInv, Step
  <2>4. now < req[r].readAt + Delay
    BY <2>1 DEF Tick, Step
  <2>5. now' <= req[r].readAt + Delay
    BY <1>1, <2>2, <2>4
  <2> QED
    BY <1>6, <1>8, <2>1, <2>2, <2>3, <2>5, Transitive
<1>11. StoreInv'
  BY <1>10 DEF IInv, StoreInv, Step
<1>12. FreshEnough'
  BY <1>4 DEF FreshEnough, Step
<1>13. SettingInv'
  <2>1. \A v \in User : setting'[v] = setting[v] /\ seenAt'[v][setting[v]] = now'
    BY <1>2, <1>6, <1>7
  <2>2. \A v \in User, e \in Setting : seenAt'[v][e] <= now'
    BY <1>8
  <2> QED
    BY <2>1, <2>2 DEF SettingInv
<1> QED
  BY <1>5, <1>9, <1>11, <1>12, <1>13 DEF IInv

\* The invariant survives every step.
LEMMA NextIInv == ASSUME DirCacheAssumption PROVE IInv /\ [Next]_vars => IInv'
<1> SUFFICES ASSUME IInv, [Next]_vars PROVE IInv'
  OBVIOUS
<1>1. CASE UNCHANGED vars
  BY <1>1 DEF vars, IInv, TypeOK, CacheInv, StoreInv, SettingInv, FreshEnough, Step
<1> QED
  BY <1>1, HitKeeps, MissKeeps, ReadKeeps, StoreKeeps, ChangeKeeps, TickKeeps DEF Next

\* The inductive invariant holds in every reachable state.
THEOREM Invariance == Spec => []IInv
  BY InitIInv, NextIInv, DirCacheAssumption, PTL DEF Spec

\* A request works in a directory that was its own user's setting not longer than the
\* life of an entry and one slow request ago (file_service.go:36-50).
THEOREM BoundedStaleness == Spec => []FreshEnough
<1>1. IInv => FreshEnough
  BY DEF IInv
<1> QED
  BY <1>1, Invariance, PTL

=============================================================================

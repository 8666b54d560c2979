----------------------------- MODULE SessionProofs -----------------------------
(***************************************************************************)
(* The invariant of module Session and what follows from it: one socket    *)
(* for a page that keeps its token, the name of who is signed in, and a    *)
(* list as new as the last message; for any number of logins and events.   *)
(***************************************************************************)
EXTENDS Session, SequenceTheorems, TLAPS

\* A message is sent.
LEMMA AppendMessage ==
  ASSUME NEW s \in Seq(Nat), NEW m \in Nat
  PROVE  /\ Append(s, m) \in Seq(Nat)
         /\ \A i \in DOMAIN Append(s, m) : (i \in DOMAIN s /\ Append(s, m)[i] = s[i]) \/ Append(s, m)[i] = m
<1>1. DOMAIN s = 1 .. Len(s) /\ Len(s) \in Nat
  BY LenProperties
<1>2. Append(s, m) \in Seq(Nat) /\ Len(Append(s, m)) = Len(s) + 1
  BY AppendProperties
<1>3. /\ \A i \in 1 .. Len(s) : Append(s, m)[i] = s[i]
      /\ Append(s, m)[Len(s) + 1] = m
  BY AppendProperties
<1>4. DOMAIN Append(s, m) = 1 .. Len(s) + 1
  BY <1>1, <1>2, LenProperties
<1> QED
  BY <1>1, <1>2, <1>3, <1>4

\* A message is handled.
LEMMA TakeMessage ==
  ASSUME NEW s \in Seq(Nat), s # <<>>
  PROVE  /\ Head(s) \in Nat /\ 1 \in DOMAIN s /\ Head(s) = s[1]
         /\ Tail(s) \in Seq(Nat)
         /\ \A i \in DOMAIN Tail(s) : i + 1 \in DOMAIN s /\ Tail(s)[i] = s[i + 1]
<1>1. Len(s) \in Nat \ {0} /\ DOMAIN s = 1 .. Len(s)
  BY EmptySeq, LenProperties
<1>2. Tail(s) \in Seq(Nat) /\ Len(Tail(s)) = Len(s) - 1 /\ \A i \in 1 .. Len(Tail(s)) : Tail(s)[i] = s[i + 1]
  BY HeadTailProperties
<1>3. DOMAIN Tail(s) = 1 .. Len(s) - 1
  BY <1>1, <1>2, LenProperties
<1>4. Head(s) \in Nat /\ Head(s) = s[1]
  BY HeadTailProperties
<1> QED
  BY <1>1, <1>2, <1>3, <1>4

\* The page that is not loaded yet satisfies the invariant.
LEMMA InitInv == Init => IInv
<1> SUFFICES ASSUME Init PROVE IInv
  OBVIOUS
<1> USE SessionAssumption DEF Init
<1>1. TypeOK
  <2>1. FlagsOK
    BY Zenon DEF FlagsOK
  <2> QED
    BY <2>1 DEF TypeOK, Token
<1>2. KeepsTrying /\ NameIsOwn /\ EventShown /\ ListInv /\ TokenInv
  BY DEF KeepsTrying, NameIsOwn, EventShown, ListInv, TokenInv
<1> QED
  BY <1>1, <1>2 DEF IInv

\* Every action keeps the invariant.
LEMMA NextInv == IInv /\ Next => IInv'
<1> SUFFICES ASSUME IInv, Next PROVE IInv'
  OBVIOUS
<1> USE SessionAssumption DEF IInv, Token, units, server, store, socket, list
<1>1. CASE \E p \in {"app", "login", "init"} : Load(p)
  <2>1. TypeOK'
    <3>1. FlagsOK'
      BY <1>1, Zenon DEF TypeOK, FlagsOK, Load, Event, Fetch
    <3> QED
      BY <1>1, <3>1 DEF TypeOK, Load, Event, Fetch
  <2>2. KeepsTrying' /\ TokenInv'
    <3>1. connecting' + open' + timers' <= 1 /\ \A f \in fetches' : f.tok <= issued'
      BY <1>1 DEF TypeOK, Load, Event, Fetch
    <3>2. token # 0 => connecting' + open' + timers' = 1
      BY <1>1 DEF TypeOK, Load
    <3>3. (keep' <=> token # 0) /\ token' = token
      BY <1>1, Zenon DEF Load
    <3> QED
      BY <3>1, <3>2, <3>3 DEF KeepsTrying, TokenInv
  <2>3. NameIsOwn'
    BY <1>1 DEF TypeOK, NameIsOwn, Load, Event, Fetch
  <2>4. EventShown' /\ ListInv'
    BY <1>1 DEF TypeOK, EventShown, ListInv, Load, Event, Fetch
  <2> QED
    BY <2>1, <2>2, <2>3, <2>4
<1>2. CASE checkInit
  <2>1. TypeOK'
    <3>1. FlagsOK'
      BY <1>2, SMT DEF TypeOK, FlagsOK, checkInit, AuthGuard, fetchMe
    <3>2. initialized' \in {"unknown", "yes", "no"}
      BY <1>2 DEF checkInit
    <3>3. path' \in {"none", "app", "login", "init"}
      BY <1>2 DEF TypeOK, checkInit, AuthGuard
    <3>4. issued' = issued /\ token' = token
      BY <1>2 DEF checkInit
    <3>5. me' = me \/ me' = me \cup ({token} \ {0})
      BY <1>2, <3>4, Zenon DEF checkInit, fetchMe
    <3>6. token \in 0 .. issued /\ me \subseteq 1 .. issued /\ issued \in Nat
      BY DEF TypeOK
    <3>7. {token} \ {0} \subseteq 1 .. issued
      BY <3>6
    <3>8. me' \subseteq 1 .. issued' /\ token' \in 0 .. issued'
      BY <3>4, <3>5, <3>6, <3>7, Zenon
    <3> QED
      BY <1>2, <3>1, <3>2, <3>3, <3>8 DEF TypeOK, checkInit
  <2>2. KeepsTrying' /\ TokenInv'
    BY <1>2 DEF TypeOK, KeepsTrying, TokenInv, checkInit, AuthGuard, fetchMe
  <2>3. NameIsOwn'
    BY <1>2 DEF TypeOK, NameIsOwn, checkInit, AuthGuard, fetchMe
  <2>4. EventShown' /\ ListInv'
    BY <1>2 DEF TypeOK, EventShown, ListInv, checkInit, AuthGuard, fetchMe
  <2> QED
    BY <2>1, <2>2, <2>3, <2>4
<1>3. CASE handleSubmit
  <2>1. TypeOK'
    <3>1. FlagsOK'
      BY <1>3, SMT DEF TypeOK, FlagsOK, handleSubmit, Event
    <3> QED
      BY <1>3, <3>1 DEF TypeOK, handleSubmit, Event
  <2>2. KeepsTrying' /\ TokenInv'
    BY <1>3 DEF TypeOK, KeepsTrying, TokenInv, handleSubmit, Event
  <2>3. NameIsOwn'
    BY <1>3 DEF TypeOK, NameIsOwn, handleSubmit, Event
  <2>4. EventShown' /\ ListInv'
    BY <1>3 DEF TypeOK, EventShown, ListInv, handleSubmit, Event
  <2> QED
    BY <2>1, <2>2, <2>3, <2>4
<1>4. CASE SignErr
  <2>1. TypeOK'
    <3>1. FlagsOK'
      BY <1>4, SMT DEF TypeOK, FlagsOK, SignErr
    <3> QED
      BY <1>4, <3>1 DEF TypeOK, SignErr
  <2>2. KeepsTrying' /\ TokenInv'
    BY <1>4 DEF TypeOK, KeepsTrying, TokenInv, SignErr
  <2>3. NameIsOwn'
    BY <1>4 DEF TypeOK, NameIsOwn, SignErr
  <2>4. EventShown' /\ ListInv'
    BY <1>4 DEF TypeOK, EventShown, ListInv, SignErr
  <2> QED
    BY <2>1, <2>2, <2>3, <2>4
<1>5. CASE login
  <2>1. TypeOK'
    <3>1. FlagsOK'
      BY <1>5, Zenon DEF TypeOK, FlagsOK, login, SignedIn, fetchMe, fetchUnits, Fetch
    <3> QED
      BY <1>5, <3>1 DEF TypeOK, login, SignedIn, fetchMe, fetchUnits, Fetch
  <2>2. KeepsTrying' /\ TokenInv'
    BY <1>5 DEF TypeOK, KeepsTrying, TokenInv, login, SignedIn, fetchMe, fetchUnits, Fetch
  <2>3. NameIsOwn'
    BY <1>5 DEF TypeOK, NameIsOwn, login, SignedIn, fetchMe, fetchUnits, Fetch
  <2>4. EventShown' /\ ListInv'
    BY <1>5 DEF TypeOK, EventShown, ListInv, login, SignedIn, fetchMe, fetchUnits, Fetch
  <2> QED
    BY <2>1, <2>2, <2>3, <2>4
<1>6. CASE initAdmin
  <2>1. TypeOK'
    <3>1. FlagsOK'
      BY <1>6, Zenon DEF TypeOK, FlagsOK, initAdmin, SignedIn, fetchMe, fetchUnits, Fetch
    <3> QED
      BY <1>6, <3>1 DEF TypeOK, initAdmin, SignedIn, fetchMe, fetchUnits, Fetch
  <2>2. KeepsTrying' /\ TokenInv'
    BY <1>6 DEF TypeOK, KeepsTrying, TokenInv, initAdmin, SignedIn, fetchMe, fetchUnits, Fetch
  <2>3. NameIsOwn'
    BY <1>6 DEF TypeOK, NameIsOwn, initAdmin, SignedIn, fetchMe, fetchUnits, Fetch
  <2>4. EventShown' /\ ListInv'
    BY <1>6 DEF TypeOK, EventShown, ListInv, initAdmin, SignedIn, fetchMe, fetchUnits, Fetch
  <2> QED
    BY <2>1, <2>2, <2>3, <2>4
<1>7. CASE handleLogout
  <2>1. TypeOK'
    <3>1. FlagsOK'
      BY <1>7, Zenon DEF TypeOK, FlagsOK, handleLogout, Event, logout, AuthGuard
    <3> QED
      BY <1>7, <3>1 DEF TypeOK, handleLogout, Event, logout, AuthGuard
  <2>2. KeepsTrying' /\ TokenInv'
    BY <1>7 DEF TypeOK, KeepsTrying, TokenInv, handleLogout, Event, logout, AuthGuard
  <2>3. NameIsOwn'
    BY <1>7 DEF TypeOK, NameIsOwn, handleLogout, Event, logout, AuthGuard
  <2>4. EventShown' /\ ListInv'
    BY <1>7 DEF TypeOK, EventShown, ListInv, handleLogout, Event, logout, AuthGuard
  <2> QED
    BY <2>1, <2>2, <2>3, <2>4
<1>8. CASE \E t \in Token : MeAnswer(t)
  <2>1. TypeOK'
    <3>1. FlagsOK'
      BY <1>8, Zenon DEF TypeOK, FlagsOK, MeAnswer, logout, AuthGuard
    <3> QED
      BY <1>8, <3>1 DEF TypeOK, MeAnswer, logout, AuthGuard
  <2>2. KeepsTrying' /\ TokenInv'
    BY <1>8 DEF TypeOK, KeepsTrying, TokenInv, MeAnswer, logout, AuthGuard
  <2>3. NameIsOwn'
    BY <1>8 DEF TypeOK, NameIsOwn, MeAnswer, logout, AuthGuard
  <2>4. EventShown' /\ ListInv'
    BY <1>8 DEF TypeOK, EventShown, ListInv, MeAnswer, logout, AuthGuard
  <2> QED
    BY <2>1, <2>2, <2>3, <2>4
<1>9. CASE Refuse
  <2>1. TypeOK'
    <3>1. FlagsOK'
      BY <1>9, SMT DEF TypeOK, FlagsOK, Refuse, Event
    <3> QED
      BY <1>9, <3>1 DEF TypeOK, Refuse, Event
  <2>2. KeepsTrying' /\ TokenInv'
    BY <1>9 DEF TypeOK, KeepsTrying, TokenInv, Refuse, Event
  <2>3. NameIsOwn'
    BY <1>9 DEF TypeOK, NameIsOwn, Refuse, Event
  <2>4. EventShown' /\ ListInv'
    BY <1>9 DEF TypeOK, EventShown, ListInv, Refuse, Event
  <2> QED
    BY <2>1, <2>2, <2>3, <2>4
<1>10. CASE UnitChanges
  <2>1. TypeOK'
    <3>1. FlagsOK'
      BY <1>10, SMT DEF TypeOK, FlagsOK, UnitChanges, Event
    <3> QED
      BY <1>10, <3>1 DEF TypeOK, UnitChanges, Event
  <2>2. KeepsTrying' /\ TokenInv'
    BY <1>10 DEF TypeOK, KeepsTrying, TokenInv, UnitChanges, Event
  <2>3. NameIsOwn'
    BY <1>10 DEF TypeOK, NameIsOwn, UnitChanges, Event
  <2>4. EventShown' /\ ListInv'
    BY <1>10 DEF TypeOK, EventShown, ListInv, UnitChanges, Event
  <2> QED
    BY <2>1, <2>2, <2>3, <2>4
<1>11. CASE ListServed
  <2>0. version \in Nat /\ told \in Nat /\ version >= told
    BY DEF TypeOK, ListInv
  <2>1. PICK g \in fetches :
          /\ g.brings = 0
          /\ fetches' = (fetches \ {g}) \cup {Fetch(g.no, g.tok, version)}
    BY <1>11 DEF ListServed
  <2>2. g \in [no : Nat, tok : Nat, brings : Nat] /\ g.no <= asked /\ g.tok <= issued
    BY DEF TypeOK, ListInv, TokenInv
  <2>3. Fetch(g.no, g.tok, version) \in [no : Nat, tok : Nat, brings : Nat]
    BY <2>0, <2>2 DEF Fetch
  <2>4. \A e \in fetches' : e \in fetches \/ e = Fetch(g.no, g.tok, version)
    BY <2>1
  <2>5. TypeOK'
    <3>1. FlagsOK'
      BY <1>11, SMT DEF TypeOK, FlagsOK, ListServed
    <3>2. \A e \in fetches' : e \in [no : Nat, tok : Nat, brings : Nat]
      BY <2>3, <2>4 DEF TypeOK
    <3> QED
      BY <1>11, <3>1, <3>2 DEF TypeOK, ListServed
  <2>6. KeepsTrying' /\ TokenInv'
    BY <1>11 DEF TypeOK, KeepsTrying, TokenInv, ListServed, Fetch
  <2>7. NameIsOwn'
    BY <1>11 DEF TypeOK, NameIsOwn, ListServed, Fetch
  <2>8. EventShown' /\ ListInv'
    <3>1. \A e \in fetches' : /\ e.no <= asked /\ e.brings <= version
                              /\ e.no = asked /\ e.brings # 0 => e.brings >= told
      BY <2>0, <2>2, <2>4 DEF ListInv, Fetch
    <3>2. /\ version' = version /\ messages' = messages /\ told' = told
          /\ asked' = asked /\ shown' = shown /\ seen' = seen
      BY <1>11 DEF ListServed
    <3>3. ListInv'
      BY <3>1, <3>2 DEF ListInv
    <3>4. EventShown'
      BY <3>2 DEF EventShown
    <3> QED
      BY <3>3, <3>4
  <2> QED
    BY <2>5, <2>6, <2>7, <2>8
<1>12. CASE ListAnswer
  <2>1. TypeOK'
    <3>1. FlagsOK'
      BY <1>12, SMT DEF TypeOK, FlagsOK, ListAnswer
    <3> QED
      BY <1>12, <3>1 DEF TypeOK, ListAnswer
  <2>2. KeepsTrying' /\ TokenInv'
    BY <1>12 DEF TypeOK, KeepsTrying, TokenInv, ListAnswer
  <2>3. NameIsOwn'
    BY <1>12 DEF TypeOK, NameIsOwn, ListAnswer
  <2>4. EventShown' /\ ListInv'
    BY <1>12 DEF TypeOK, EventShown, ListInv, ListAnswer
  <2> QED
    BY <2>1, <2>2, <2>3, <2>4
<1>13. CASE ListFails
  <2>1. TypeOK'
    <3>1. FlagsOK'
      BY <1>13, Zenon DEF TypeOK, FlagsOK, ListFails, Fails, logout, AuthGuard
    <3> QED
      BY <1>13, <3>1 DEF TypeOK, ListFails, Fails, logout, AuthGuard
  <2>2. KeepsTrying' /\ TokenInv'
    BY <1>13 DEF TypeOK, KeepsTrying, TokenInv, ListFails, Fails, logout, AuthGuard
  <2>3. NameIsOwn'
    BY <1>13 DEF TypeOK, NameIsOwn, ListFails, Fails, logout, AuthGuard
  <2>4. EventShown' /\ ListInv'
    BY <1>13 DEF TypeOK, EventShown, ListInv, ListFails, Fails, logout, AuthGuard
  <2> QED
    BY <2>1, <2>2, <2>3, <2>4
<1>14. CASE connect
  <2>1. TypeOK'
    <3>1. FlagsOK'
      BY <1>14, SMT DEF TypeOK, FlagsOK, connect
    <3> QED
      BY <1>14, <3>1 DEF TypeOK, connect
  <2>2. KeepsTrying' /\ TokenInv'
    BY <1>14 DEF TypeOK, KeepsTrying, TokenInv, connect
  <2>3. NameIsOwn'
    BY <1>14 DEF TypeOK, NameIsOwn, connect
  <2>4. EventShown' /\ ListInv'
    BY <1>14 DEF TypeOK, EventShown, ListInv, connect
  <2> QED
    BY <2>1, <2>2, <2>3, <2>4
<1>15. CASE Opened
  <2>1. TypeOK'
    <3>1. FlagsOK'
      BY <1>15, SMT DEF TypeOK, FlagsOK, Opened
    <3> QED
      BY <1>15, <3>1 DEF TypeOK, Opened
  <2>2. KeepsTrying' /\ TokenInv'
    BY <1>15 DEF TypeOK, KeepsTrying, TokenInv, Opened
  <2>3. NameIsOwn'
    BY <1>15 DEF TypeOK, NameIsOwn, Opened
  <2>4. EventShown' /\ ListInv'
    BY <1>15 DEF TypeOK, EventShown, ListInv, Opened
  <2> QED
    BY <2>1, <2>2, <2>3, <2>4
<1>16. CASE NotOpened
  <2>1. TypeOK'
    <3>1. FlagsOK'
      BY <1>16, SMT DEF TypeOK, FlagsOK, NotOpened
    <3> QED
      BY <1>16, <3>1 DEF TypeOK, NotOpened
  <2>2. KeepsTrying' /\ TokenInv'
    BY <1>16 DEF TypeOK, KeepsTrying, TokenInv, NotOpened
  <2>3. NameIsOwn'
    BY <1>16 DEF TypeOK, NameIsOwn, NotOpened
  <2>4. EventShown' /\ ListInv'
    BY <1>16 DEF TypeOK, EventShown, ListInv, NotOpened
  <2> QED
    BY <2>1, <2>2, <2>3, <2>4
<1>17. CASE onclose
  <2>1. TypeOK'
    <3>1. FlagsOK'
      BY <1>17, SMT DEF TypeOK, FlagsOK, onclose, Event
    <3> QED
      BY <1>17, <3>1 DEF TypeOK, onclose, Event
  <2>2. KeepsTrying' /\ TokenInv'
    BY <1>17 DEF TypeOK, KeepsTrying, TokenInv, onclose, Event
  <2>3. NameIsOwn'
    BY <1>17 DEF TypeOK, NameIsOwn, onclose, Event
  <2>4. EventShown' /\ ListInv'
    BY <1>17 DEF TypeOK, EventShown, ListInv, onclose, Event
  <2> QED
    BY <2>1, <2>2, <2>3, <2>4
<1>18. CASE onmessage
  <2>0. /\ messages \in Seq(Nat) /\ messages # <<>>
        /\ messages' = Tail(messages) /\ told' = Head(messages)
    BY <1>18 DEF TypeOK, onmessage
  <2>1. /\ messages' \in Seq(Nat) /\ told' \in Nat /\ told' <= version
        /\ \A i \in DOMAIN messages' : messages'[i] <= version
    BY <2>0, TakeMessage DEF ListInv
  <2>2. TypeOK'
    <3>1. FlagsOK'
      BY <1>18, SMT DEF TypeOK, FlagsOK, onmessage
    <3> QED
      BY <1>18, <2>1, <3>1 DEF TypeOK, onmessage, fetchUnits, Fetch
  <2>3. KeepsTrying' /\ TokenInv'
    BY <1>18 DEF TypeOK, KeepsTrying, TokenInv, onmessage, fetchUnits, Fetch
  <2>4. NameIsOwn'
    BY <1>18 DEF TypeOK, NameIsOwn, onmessage, fetchUnits, Fetch
  <2>5. EventShown' /\ ListInv'
    BY <1>18, <2>1 DEF TypeOK, EventShown, ListInv, onmessage, fetchUnits, Fetch
  <2> QED
    BY <2>2, <2>3, <2>4, <2>5
<1>19. CASE unitAction
  <2>1. TypeOK'
    <3>1. FlagsOK'
      BY <1>19, SMT DEF TypeOK, FlagsOK, unitAction, Event
    <3> QED
      BY <1>19, <3>1 DEF TypeOK, unitAction, Event
  <2>2. KeepsTrying' /\ TokenInv'
    BY <1>19 DEF TypeOK, KeepsTrying, TokenInv, unitAction, Event
  <2>3. NameIsOwn'
    BY <1>19 DEF TypeOK, NameIsOwn, unitAction, Event
  <2>4. EventShown' /\ ListInv'
    BY <1>19 DEF TypeOK, EventShown, ListInv, unitAction, Event
  <2> QED
    BY <2>1, <2>2, <2>3, <2>4
<1>20. CASE JobDone
  <2>1. TypeOK'
    <3>1. FlagsOK'
      BY <1>20, SMT DEF TypeOK, FlagsOK, JobDone
    <3> QED
      BY <1>20, <3>1 DEF TypeOK, JobDone
  <2>2. KeepsTrying' /\ TokenInv'
    BY <1>20 DEF TypeOK, KeepsTrying, TokenInv, JobDone
  <2>3. NameIsOwn'
    BY <1>20 DEF TypeOK, NameIsOwn, JobDone
  <2>4. EventShown' /\ ListInv'
    BY <1>20 DEF TypeOK, EventShown, ListInv, JobDone
  <2> QED
    BY <2>1, <2>2, <2>3, <2>4
<1>21. CASE DaemonReload
  <2>1. TypeOK'
    <3>1. FlagsOK'
      BY <1>21, SMT DEF TypeOK, FlagsOK, DaemonReload, Event
    <3> QED
      BY <1>21, <3>1 DEF TypeOK, DaemonReload, Event
  <2>2. KeepsTrying' /\ TokenInv'
    BY <1>21 DEF TypeOK, KeepsTrying, TokenInv, DaemonReload, Event
  <2>3. NameIsOwn'
    BY <1>21 DEF TypeOK, NameIsOwn, DaemonReload, Event
  <2>4. EventShown' /\ ListInv'
    BY <1>21 DEF TypeOK, EventShown, ListInv, DaemonReload, Event
  <2> QED
    BY <2>1, <2>2, <2>3, <2>4
<1>22. CASE Broadcast
  <2>0. messages \in Seq(Nat) /\ version \in Nat
    BY DEF TypeOK
  <2>1. messages' \in Seq(Nat) /\ \A i \in DOMAIN messages' : messages'[i] <= version
    <3>1. CASE open > 0
      <4>1. messages' = Append(messages, version)
        BY <1>22, <3>1 DEF Broadcast
      <4> QED
        BY <2>0, <4>1, AppendMessage DEF ListInv
    <3>2. CASE ~(open > 0)
      BY <1>22, <2>0, <3>2 DEF Broadcast, ListInv
    <3> QED
      BY <3>1, <3>2
  <2>2. TypeOK'
    <3>1. FlagsOK'
      BY <1>22, SMT DEF TypeOK, FlagsOK, Broadcast
    <3> QED
      BY <1>22, <2>1, <3>1 DEF TypeOK, Broadcast
  <2>3. KeepsTrying' /\ TokenInv'
    BY <1>22 DEF TypeOK, KeepsTrying, TokenInv, Broadcast
  <2>4. NameIsOwn'
    BY <1>22 DEF TypeOK, NameIsOwn, Broadcast
  <2>5. EventShown' /\ ListInv'
    BY <1>22, <2>1 DEF TypeOK, EventShown, ListInv, Broadcast
  <2> QED
    BY <2>2, <2>3, <2>4, <2>5
<1> QED
  BY <1>1, <1>2, <1>3, <1>4, <1>5, <1>6, <1>7, <1>8, <1>9, <1>10, <1>11, <1>12, <1>13, <1>14, <1>15, <1>16, <1>17, <1>18,
     <1>19, <1>20, <1>21, <1>22 DEF Next

\* A step that changes nothing keeps the invariant.
LEMMA StutterInv == IInv /\ UNCHANGED vars => IInv'
  BY DEF IInv, TypeOK, FlagsOK, KeepsTrying, NameIsOwn, EventShown, ListInv, TokenInv, vars, units,
         server, store, socket, list

\* Session as a whole: the invariant holds whatever is signed in, refused, lost or late.
THEOREM Invariance == Spec => []IInv
  BY InitInv, NextInv, StutterInv, PTL DEF Spec

\* useWebSocket.ts: a page that keeps its token has exactly one socket, or the timer of the next.
THEOREM OneSocket == Spec => []KeepsTrying
<1>1. IInv => KeepsTrying
  BY DEF IInv
<1> QED
  BY <1>1, Invariance, PTL

\* useAuth.ts: the name shown is that of who is signed in, but for the late answers of line 98.
THEOREM OwnName == Spec => []NameIsOwn
<1>1. IInv => NameIsOwn
  BY DEF IInv
<1> QED
  BY <1>1, Invariance, PTL

\* App.tsx: the list of the last fetch is as new as the state of the units was when the last
\* message that the browser handled was sent; it promises nothing of a job that was only queued
\* then, nor of an earlier list that comes later.
THEOREM ShowsEvents == Spec => []EventShown
<1>1. IInv => EventShown
  BY DEF IInv
<1> QED
  BY <1>1, Invariance, PTL
=============================================================================

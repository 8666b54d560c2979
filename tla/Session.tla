-------------------------------- MODULE Session --------------------------------
(***************************************************************************)
(* The browser's session and its live view: the token and the user of      *)
(* useAuth.ts, the guard of the pages, the WebSocket of useWebSocket.ts    *)
(* and the list of units that is fetched anew when a message comes.        *)
(*                                                                         *)
(* A token is the number of the login that gave it.  Every call carries    *)
(* the token of the moment it is made, and its answer works on the store   *)
(* of the moment it comes.  Timers and sockets are counted; of the calls   *)
(* that only read, it is enough to know that some are under way: one more  *)
(* may be, when one is answered.  A list of units is the number of the     *)
(* server's state it was made from; the fetches of it are numbered.  The   *)
(* store of containers does the same and is left out, as are the fetches   *)
(* that the pages and the buttons of a unit make by themselves.            *)
(*                                                                         *)
(* The server announces what its handlers were asked for, never what       *)
(* systemd does: starting, stopping or restarting a unit is announced when *)
(* the job is queued, a reload when it is done, and enabling, disabling,   *)
(* the end of a job and a unit that fails are not announced.               *)
(***************************************************************************)
EXTENDS Naturals, FiniteSets, Sequences

CONSTANTS
  MaxToken,   \* bound on logins
  MaxEvents   \* bound on what the user, the units and the network do by themselves

ASSUME SessionAssumption == MaxToken \in Nat /\ MaxEvents \in Nat

Token == 1 .. MaxToken

VARIABLES
  \* the server
  admin,      \* there is an administrator
  refused,    \* tokens that are not accepted any longer
  issued,     \* tokens given out: the logins so far
  version,    \* state of the units
  jobs,       \* jobs that systemd has queued and not done
  pending,    \* handlers whose call of systemd is done and that announce it next
  \* the store and the router
  token,      \* the token, also in localStorage; 0: none
  user,       \* the login whose user is shown; 0: nobody
  initialized,
  path,       \* "app" stands for every guarded page
  \* the calls
  checks,     \* some call of GET /auth/init is under way
  signing,    \* the login or the first registration under way
  me,         \* tokens for which some call of /auth/me is under way
  \* the WebSocket
  connecting, open, timers,  \* how many there are
  hello,      \* token of the last attempt to connect
  messages,   \* on their way to the browser: the state when each was sent
  \* the list of units
  fetches,    \* under way: number, token and what it brings (0: not served yet)
  asked,      \* number of the last fetch asked for
  shown,      \* number of the fetch whose list is shown
  seen,       \* state that list was made from
  \* history and events
  told,       \* state when the last message that the browser handled was sent
  keep,       \* the page was loaded with a token and has had it ever since
  late,       \* since the last login, /auth/me was answered for another token
  events      \* events left

units  == <<version, jobs, pending>>
server == <<admin, refused, issued, units>>
store  == <<token, user, initialized, path>>
socket == <<connecting, open, timers, hello>>
list   == <<fetches, asked, shown, seen>>
vars   == <<server, store, checks, signing, me, socket, messages, list, told, keep, late,
            events>>

Fetch(no, tok, brings) == [no |-> no, tok |-> tok, brings |-> brings]

FlagsOK == /\ admin \in BOOLEAN /\ checks \in BOOLEAN
           /\ keep \in BOOLEAN /\ late \in BOOLEAN

TypeOK ==
  /\ FlagsOK
  /\ refused \subseteq Token /\ issued \in 0 .. MaxToken
  /\ version \in Nat \ {0} /\ jobs \in Nat /\ pending \in Nat
  /\ token \in 0 .. issued /\ user \in 0 .. issued
  /\ initialized \in {"unknown", "yes", "no"} /\ path \in {"none", "app", "login", "init"}
  /\ signing \in {"none", "login", "init"}
  /\ me \subseteq 1 .. issued
  /\ connecting \in Nat /\ open \in Nat /\ timers \in Nat /\ hello \in 0 .. issued
  /\ messages \in Seq(Nat)
  /\ asked \in Nat /\ shown \in Nat /\ seen \in Nat /\ told \in Nat
  /\ \A f \in fetches : f \in [no : Nat, tok : Nat, brings : Nat]
  /\ events \in Nat

-----------------------------------------------------------------------------
(* What happens when the page appears or the store changes.                *)

Event == events > 0 /\ events' = events - 1

fetchUnits_Once(tok) ==
  IF fetches # {} THEN UNCHANGED <<asked, fetches>>
  ELSE asked' = asked + 1 /\ fetches' = {Fetch(asked + 1, tok, 0)}

\* The list is fetched with the token there is now, or with none.
fetchUnits(tok) ==
  /\ asked' = asked + 1
  /\ fetches' = fetches \cup {Fetch(asked + 1, tok, 0)}

\* The guard sends a page away; it stays on a page of its own, whatever comes later.
AuthGuard ==
  path' = IF path # "app" \/ initialized' = "unknown" THEN path
          ELSE IF initialized' = "no" THEN "init"
          ELSE IF token' = 0 THEN "login" ELSE "app"

\* The effects that run because of a new token or page ask for the user, if there is a token.
fetchMe == me' = me \cup ({token'} \ {0})

logout_KeepsUser ==
  /\ token' = 0 /\ UNCHANGED <<user, initialized>>
  /\ AuthGuard
  /\ keep' = FALSE
  /\ checks' = (checks \/ (path = "app" /\ initialized = "unknown" /\ token # 0))

logout ==
  /\ token' = 0 /\ user' = 0 /\ UNCHANGED initialized
  /\ AuthGuard
  /\ keep' = FALSE
  /\ checks' = (checks \/ (path = "app" /\ initialized = "unknown" /\ token # 0))

-----------------------------------------------------------------------------
(* The page is loaded.                                                     *)

\* A browser that has not loaded the page yet, and may hold a token of an earlier time.
Init ==
  /\ admin \in BOOLEAN /\ refused = {}
  /\ version = 1 /\ jobs = 0 /\ pending = 0
  /\ issued \in 0 .. (IF admin /\ MaxToken > 0 THEN 1 ELSE 0) /\ token = issued
  /\ user = 0 /\ initialized = "unknown" /\ path = "none"
  /\ checks = FALSE /\ signing = "none" /\ me = {}
  /\ connecting = 0 /\ open = 0 /\ timers = 0 /\ hello = 0 /\ messages = <<>>
  /\ asked = 0 /\ shown = 0 /\ seen = 0 /\ fetches = {}
  /\ told = 0 /\ late = FALSE /\ keep = FALSE
  /\ events = MaxEvents

\* An address is opened, or the page is reloaded; what was under way is gone.  With a token the
\* application fetches the user and the lists and opens its socket; the guard of a page asks
\* again for the user, and whether there is an administrator.
Load(p) ==
  /\ Event
  /\ user' = 0 /\ initialized' = "unknown" /\ path' = p
  /\ checks' = TRUE
  /\ signing' = "none"
  /\ me' = {token} \ {0}
  /\ connecting' = (IF token # 0 THEN 1 ELSE 0) /\ open' = 0 /\ timers' = 0 /\ hello' = token
  /\ asked' = (IF token # 0 THEN 1 ELSE 0)
  /\ fetches' = (IF token # 0 THEN {Fetch(1, token, 0)} ELSE {})
  /\ shown' = 0 /\ seen' = 0 /\ messages' = <<>>
  /\ told' = 0 /\ late' = FALSE /\ keep' = (token # 0)
  /\ UNCHANGED <<server, token>>

-----------------------------------------------------------------------------
(* Signing in and out.                                                     *)

\* An answer that cannot be read counts as no.
checkInit ==
  /\ checks /\ checks' \in BOOLEAN
  /\ initialized' \in (IF admin THEN {"yes", "no"} ELSE {"no"})
  /\ UNCHANGED token
  /\ AuthGuard
  /\ IF path = "app" /\ initialized' # initialized THEN fetchMe ELSE UNCHANGED me
  /\ UNCHANGED <<server, user, signing, socket, messages, list, told, keep, late, events>>

handleSubmit ==
  /\ Event /\ path \in {"login", "init"} /\ signing = "none"
  /\ signing' = path
  /\ UNCHANGED <<server, store, checks, me, socket, messages, list, told, keep, late>>

SignErr ==
  /\ signing # "none" /\ signing' = "none"
  /\ UNCHANGED <<server, store, checks, me, socket, messages, list, told, keep, late,
                 events>>

SignedIn_Connects ==
  /\ signing' = "none" /\ issued' = issued + 1
  /\ token' = issued + 1 /\ user' = issued + 1
  /\ path' = IF initialized' = "no" THEN "init" ELSE "app"
  /\ checks' = (checks \/ initialized' = "unknown")
  /\ fetchMe /\ fetchUnits(token')
  /\ late' = FALSE /\ keep' = FALSE
  /\ connecting' = connecting + 1 /\ hello' = token' /\ UNCHANGED <<open, timers>>
  /\ UNCHANGED <<refused, units, messages, shown, seen, told, events>>

\* The token changes, so the application asks for the user and the list; the guarded page that
\* is opened asks again.  Nothing opens the socket.
SignedIn ==
  /\ signing' = "none" /\ issued' = issued + 1
  /\ token' = issued + 1 /\ user' = issued + 1
  /\ path' = IF initialized' = "no" THEN "init" ELSE "app"
  /\ checks' = (checks \/ initialized' = "unknown")
  /\ fetchMe /\ fetchUnits(token')
  /\ late' = FALSE /\ keep' = FALSE
  /\ UNCHANGED <<refused, units, socket, messages, shown, seen, told, events>>

login ==
  /\ signing = "login" /\ issued < MaxToken
  /\ UNCHANGED <<admin, initialized>>
  /\ SignedIn

initAdmin ==
  /\ signing = "init" /\ ~admin /\ issued < MaxToken
  /\ admin' = TRUE /\ initialized' = "yes"
  /\ SignedIn

\* The button is on the pages that are shown behind the guard.
handleLogout ==
  /\ Event /\ path = "app" /\ initialized = "yes" /\ token # 0
  /\ logout
  /\ UNCHANGED <<server, signing, me, socket, messages, list, told, late>>

\* Any failure signs out, whoever is signed in by then.
MeAnswer(t) ==
  /\ t \in me /\ me' \in {me, me \ {t}}
  /\ late' = (late \/ t # token)
  /\ \/ /\ t \notin refused
        /\ user' = t
        /\ UNCHANGED <<token, initialized, path, checks, keep>>
     \/ logout
  /\ UNCHANGED <<server, signing, socket, messages, list, told, events>>

\* A token runs out, or its account is deleted.
Refuse ==
  /\ Event
  /\ \E t \in 1 .. issued : t \notin refused /\ refused' = refused \cup {t}
  /\ UNCHANGED <<admin, issued, units, store, checks, signing, me, socket, messages,
                 list, told, keep, late>>

-----------------------------------------------------------------------------
(* Units: changes, messages about them, and the list.                      *)

\* A unit starts, fails or ends by itself, or is enabled or disabled: not announced.
UnitChanges ==
  /\ Event
  /\ version' = version + 1
  /\ UNCHANGED <<admin, refused, issued, jobs, pending, store, checks, signing, me, socket,
                 messages, list, told, keep, late>>

\* StartUnit, StopUnit and RestartUnit return when systemd has queued the job.
unitAction ==
  /\ Event
  /\ jobs' = jobs + 1 /\ pending' = pending + 1
  /\ UNCHANGED <<admin, refused, issued, version, store, checks, signing, me, socket,
                 messages, list, told, keep, late>>

\* systemd does the job; nobody waits for it, and it is not announced.
JobDone ==
  /\ jobs > 0 /\ jobs' = jobs - 1
  /\ version' = version + 1
  /\ UNCHANGED <<admin, refused, issued, pending, store, checks, signing, me, socket,
                 messages, list, told, keep, late, events>>

\* DaemonReload returns when systemd has reloaded.
DaemonReload ==
  /\ Event
  /\ version' = version + 1 /\ pending' = pending + 1
  /\ UNCHANGED <<admin, refused, issued, jobs, store, checks, signing, me, socket,
                 messages, list, told, keep, late>>

\* The handler announces that its call has returned, on the sockets that are open.
Broadcast ==
  /\ pending > 0 /\ pending' = pending - 1
  /\ messages' = IF open > 0 THEN Append(messages, version) ELSE messages
  /\ UNCHANGED <<admin, refused, issued, version, jobs, store, checks, signing, me, socket,
                 list, told, keep, late, events>>

\* A call that fails, and what a refusal does to the session of the moment.
Fails(tok) ==
  \/ /\ tok = 0 \/ tok \in refused
     /\ logout
  \/ UNCHANGED <<store, checks, keep>>

\* The list is made, and comes back later.
ListServed ==
  /\ \E f \in fetches :
       /\ f.brings = 0 /\ f.tok # 0 /\ f.tok \notin refused
       /\ fetches' = (fetches \ {f}) \cup {Fetch(f.no, f.tok, version)}
  /\ UNCHANGED <<server, store, checks, signing, me, socket, messages, asked, shown, seen,
                 told, keep, late, events>>

\* Whatever comes last is shown.
ListAnswer ==
  /\ \E f \in fetches :
       /\ f.brings # 0
       /\ fetches' = fetches \ {f}
       /\ shown' = f.no /\ seen' = f.brings
  /\ UNCHANGED <<server, store, checks, signing, me, socket, messages, asked, told, keep,
                 late, events>>

ListFails ==
  /\ \E f \in fetches :
       /\ f.brings = 0
       /\ fetches' = fetches \ {f}
       /\ Fails(f.tok)
  /\ UNCHANGED <<server, signing, me, socket, messages, asked, shown, seen, told, late,
                 events>>

-----------------------------------------------------------------------------
(* The WebSocket.                                                          *)

\* A timer that fires without a token is the end of it.
connect ==
  /\ timers > 0 /\ timers' = timers - 1
  /\ IF token = 0 THEN UNCHANGED <<connecting, hello>>
     ELSE connecting' = connecting + 1 /\ hello' = token
  /\ UNCHANGED <<server, store, checks, signing, me, open, messages, list, told, keep,
                 late, events>>

Opened ==
  /\ connecting > 0 /\ hello \notin refused
  /\ connecting' = connecting - 1 /\ open' = open + 1
  /\ UNCHANGED <<server, store, checks, signing, me, timers, hello, messages, list, told,
                 keep, late, events>>

NotOpened_GivesUp ==
  /\ connecting > 0 /\ connecting' = connecting - 1
  /\ UNCHANGED <<server, store, checks, signing, me, open, timers, hello, messages, list, told,
                 keep, late, events>>

NotOpened ==
  /\ connecting > 0
  /\ connecting' = connecting - 1 /\ timers' = timers + 1
  /\ UNCHANGED <<server, store, checks, signing, me, open, hello, messages, list, told,
                 keep, late, events>>

\* What was on its way is lost.
onclose ==
  /\ Event /\ open > 0
  /\ open' = open - 1 /\ timers' = timers + 1
  /\ messages' = <<>>
  /\ UNCHANGED <<server, store, checks, signing, me, connecting, hello, list, told, keep,
                 late>>

onmessage ==
  /\ messages # <<>>
  /\ messages' = Tail(messages) /\ told' = Head(messages)
  /\ fetchUnits(token)
  /\ UNCHANGED <<server, store, checks, signing, me, socket, shown, seen, keep, late,
                 events>>

-----------------------------------------------------------------------------
Next ==
  \/ \E p \in {"app", "login", "init"} : Load(p)
  \/ checkInit \/ handleSubmit \/ SignErr \/ login \/ initAdmin \/ handleLogout
  \/ \E t \in Token : MeAnswer(t)
  \/ Refuse
  \/ UnitChanges \/ unitAction \/ JobDone \/ DaemonReload \/ Broadcast
  \/ ListServed \/ ListAnswer \/ ListFails
  \/ connect \/ Opened \/ NotOpened \/ onclose \/ onmessage

\* Timers fire, attempts to connect end, and again and again the server takes one.
Fairness == WF_vars(connect) /\ WF_vars(Opened \/ NotOpened) /\ SF_vars(Opened)

Spec == Init /\ [][Next]_vars /\ Fairness

-----------------------------------------------------------------------------
(* What has to hold.                                                       *)

\* As long as a page that was loaded with a token keeps one, there is exactly one socket that
\* is open, being opened or waiting to be; there are never two, whatever signs in and out.
KeepsTrying ==
  /\ connecting + open + timers <= 1
  /\ keep => connecting + open + timers = 1

\* The name shown is that of who is signed in, unless an answer of an earlier session came late.
NameIsOwn == user \in {0, token} \/ late

\* When the list of the last fetch asked for is shown, it is as new as the state of the units was
\* when the last message that the browser handled was sent: so it shows a reload that was
\* announced, and of a job that was announced what systemd had done of it by then.
EventShown == shown = asked => seen >= told

\* A page that was loaded with a token has its socket open again and again, until it loses the
\* token or the server does not accept it any longer.
Reconnects == keep ~> open > 0 \/ ~keep \/ token \in refused

\* Who is signed in on a page that is loaded gets a socket, unless the token is refused or given
\* up.
LiveAfterLogin == path # "none" /\ token # 0 ~> open > 0 \/ token = 0 \/ token \in refused

-----------------------------------------------------------------------------
(* What they rest on.                                                      *)

\* Nothing is newer than the server, and the last fetch was asked for after the last message.
ListInv ==
  /\ told <= version /\ shown <= asked
  /\ \A i \in DOMAIN messages : messages[i] <= version
  /\ \A f \in fetches : /\ f.no <= asked /\ f.brings <= version
                        /\ f.no = asked /\ f.brings # 0 => f.brings >= told

TokenInv ==
  /\ keep => token # 0
  /\ \A f \in fetches : f.tok <= issued

IInv == TypeOK /\ KeepsTrying /\ NameIsOwn /\ EventShown /\ ListInv /\ TokenInv
=============================================================================

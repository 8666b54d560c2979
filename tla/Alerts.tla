------------------------------- MODULE Alerts -------------------------------
(***************************************************************************)
(* The failed-unit alerts of internal/ws/hub.go (StartAlertBroadcaster):   *)
(* a loop polls the units and broadcasts unit_failed for each one that is  *)
(* failed now and was not at the last poll.  Its source, set up in main.go,*)
(* is UnitService.ListUnits for the default directory: it scans the        *)
(* Quadlet files, then asks systemd, and keeps the units that have a file. *)
(*                                                                         *)
(* Units fail and recover, files come and go and browsers connect and      *)
(* leave between any two steps of the loop.  The failures of a unit are    *)
(* numbered; 0 is the one it was in when the server started.               *)
(***************************************************************************)
EXTENDS Naturals

CONSTANTS
  Unit,           \* units with a name that a Quadlet file can have
  MaxFailures,    \* bound on the failures of one unit after the start
  MaxDeletes,     \* bound on the number of file deletions
  WarmupMayFail   \* whether the source may fail before the first tick

ASSUME AlertsAssumption ==
  /\ MaxFailures \in Nat
  /\ MaxDeletes \in Nat
  /\ WarmupMayFail \in BOOLEAN

VARIABLES
  failed,     \* units in the failed state, in systemd
  failure,    \* number of failures of each unit since the start
  listed,     \* units that have a file in the default directory
  listening,  \* ClientCount() > 0
  loop,       \* "start", "warmup", "waiting", "scanning", "asking", "reporting"
  scanned,    \* the files ScanDir returned
  previous,   \* previousFailed
  current,    \* currentFailed at the end of the loop over the units
  left,       \* units of `current' the loop has still to visit
  asOf,       \* history: the failures seen by the poll
  heard,      \* history: the failed units of the last list the source returned
  alerts,     \* history: how often each failure was reported
  missed,     \* history: the failures during which the unit's file was missing
  deletes     \* number of file deletions

Failure == 0 .. MaxFailures

world == <<failed, failure, listed, listening, missed, deletes>>
poll  == <<loop, scanned, previous, current, left, asOf, heard, alerts>>
vars  == <<world, poll>>

TypeOK ==
  /\ failed \subseteq Unit
  /\ failure \in [Unit -> Failure]
  /\ listed \subseteq Unit
  /\ listening \in BOOLEAN
  /\ loop \in {"start", "warmup", "waiting", "scanning", "asking", "reporting"}
  /\ scanned \subseteq Unit
  /\ previous \subseteq Unit
  /\ current \subseteq Unit
  /\ left \subseteq current
  /\ asOf \in [Unit -> Failure]
  /\ heard \subseteq Unit
  /\ alerts \in [Unit -> [Failure -> Nat]]
  /\ missed \in [Unit -> SUBSET Failure]
  /\ deletes \in 0 .. MaxDeletes

\* The server starts with some units failed and some without a file.
Init ==
  /\ failed \in SUBSET Unit
  /\ failure = [u \in Unit |-> 0]
  /\ listed \in SUBSET Unit
  /\ listening = FALSE
  /\ loop = "start"
  /\ scanned = {}
  /\ previous = {}
  /\ current = {}
  /\ left = {}
  /\ asOf = [u \in Unit |-> 0]
  /\ heard = {}
  /\ alerts = [u \in Unit |-> [n \in Failure |-> 0]]
  /\ missed = [u \in Unit |-> IF u \in listed THEN {} ELSE {0}]
  /\ deletes = 0

-----------------------------------------------------------------------------
(* What happens around the loop *)

Fail(u) ==
  /\ u \notin failed
  /\ failure[u] < MaxFailures
  /\ failed' = failed \cup {u}
  /\ failure' = [failure EXCEPT ![u] = @ + 1]
  /\ missed' = [missed EXCEPT ![u] = IF u \in listed THEN @ ELSE @ \cup {failure'[u]}]
  /\ UNCHANGED <<listed, listening, deletes, poll>>

Recover(u) ==
  /\ u \in failed
  /\ failed' = failed \ {u}
  /\ UNCHANGED <<failure, listed, listening, missed, deletes, poll>>

DeleteFile(u) ==
  /\ u \in listed
  /\ deletes < MaxDeletes
  /\ deletes' = deletes + 1
  /\ listed' = listed \ {u}
  /\ missed' = [missed EXCEPT ![u] = @ \cup {failure[u]}]
  /\ UNCHANGED <<failed, failure, listening, poll>>

CreateFile(u) ==
  /\ u \notin listed
  /\ listed' = listed \cup {u}
  /\ UNCHANGED <<failed, failure, listening, missed, deletes, poll>>

ClientsChange ==
  /\ listening' = ~listening
  /\ UNCHANGED <<failed, failure, listed, missed, deletes, poll>>

-----------------------------------------------------------------------------
(* The source: ListUnits *)

\* fs.ScanDir, on the way to systemd.ListUnits
Scan(from, to) ==
  /\ loop = from
  /\ loop' = to
  /\ scanned' = listed
  /\ UNCHANGED <<world, previous, current, left, asOf, heard, alerts>>

\* The failed units of the list: failed in systemd and with a file in the scan.
FailedUnits == failed \cap scanned

-----------------------------------------------------------------------------
(* The loop *)

WarmupScan == Scan("start", "warmup")

\* Mutant: start with an empty set.
WarmupOk_Empty ==
  /\ loop = "warmup"
  /\ loop' = "waiting"
  /\ scanned' = {}
  /\ UNCHANGED <<world, previous, current, left, asOf, heard, alerts>>

\* previousFailed := the units that are failed now
WarmupOk ==
  /\ loop = "warmup"
  /\ loop' = "waiting"
  /\ previous' = FailedUnits
  /\ heard' = FailedUnits
  /\ scanned' = {}
  /\ UNCHANGED <<world, current, left, asOf, alerts>>

\* The source fails: the tick is skipped, or the warm-up (`err == nil' does not hold).
SourceErr ==
  /\ loop \in {"scanning", "asking"} \/ (WarmupMayFail /\ loop \in {"start", "warmup"})
  /\ loop' = "waiting"
  /\ scanned' = {}
  /\ UNCHANGED <<world, previous, current, left, asOf, heard, alerts>>

\* <-ticker.C with somebody listening; without, the tick is skipped.
Tick ==
  /\ loop = "waiting"
  /\ listening
  /\ loop' = "scanning"
  /\ UNCHANGED <<world, scanned, previous, current, left, asOf, heard, alerts>>

PollScan == Scan("scanning", "asking")

PollOk ==
  /\ loop = "asking"
  /\ loop' = "reporting"
  /\ current' = FailedUnits
  /\ left' = FailedUnits
  /\ asOf' = failure
  /\ heard' = FailedUnits
  /\ scanned' = {}
  /\ UNCHANGED <<world, previous, alerts>>

\* Mutant: report every failed unit.
New_Any(u) == TRUE

\* if !previousFailed[u.Name]
New(u) == u \notin previous

\* One failed unit of the list; Broadcast may wait for room in the hub's channel.
Visit(u) ==
  /\ loop = "reporting"
  /\ u \in left
  /\ left' = left \ {u}
  /\ alerts' = IF New(u) THEN [alerts EXCEPT ![u][asOf[u]] = @ + 1] ELSE alerts
  /\ UNCHANGED <<world, loop, scanned, previous, current, asOf, heard>>

\* Mutant: the set is accumulated, never cleared.
Swap_Keep ==
  /\ loop = "reporting" /\ left = {}
  /\ loop' = "waiting"
  /\ previous' = previous \cup current
  /\ current' = {}
  /\ asOf' = [u \in Unit |-> 0]
  /\ UNCHANGED <<world, scanned, left, heard, alerts>>

\* Mutant: the swap does not wait for the loop over the units.
Swap_Early ==
  /\ loop = "reporting"
  /\ loop' = "waiting"
  /\ previous' = current
  /\ current' = {}
  /\ asOf' = [u \in Unit |-> 0]
  /\ UNCHANGED <<world, scanned, left, heard, alerts>>

\* previousFailed = currentFailed
Swap ==
  /\ loop = "reporting"
  /\ left = {}
  /\ loop' = "waiting"
  /\ previous' = current
  /\ current' = {}
  /\ asOf' = [u \in Unit |-> 0]
  /\ UNCHANGED <<world, scanned, left, heard, alerts>>

-----------------------------------------------------------------------------
World ==
  \/ \E u \in Unit : Fail(u) \/ Recover(u) \/ CreateFile(u)
  \/ \E u \in Unit : DeleteFile(u)
  \/ ClientsChange

Loop ==
  \/ WarmupScan \/ WarmupOk \/ SourceErr
  \/ Tick \/ PollScan \/ PollOk \/ Swap
  \/ \E u \in Unit : Visit(u)

Next == World \/ Loop

Spec == Init /\ [][Next]_vars

\* The loop runs, its ticker ticks, and the source does not fail for ever.
Fairness ==
  /\ WF_vars(WarmupScan) /\ WF_vars(WarmupOk)
  /\ SF_vars(Tick) /\ SF_vars(PollScan) /\ SF_vars(PollOk)
  /\ WF_vars(Swap)
  /\ \A u \in Unit : WF_vars(Visit(u))

FairSpec == Spec /\ Fairness

-----------------------------------------------------------------------------
(* Properties *)

\* A failure is reported once, however many polls see it and however the steps
\* of a poll interleave with the unit's; only a unit whose file was missing for
\* part of the failure may be reported again, for the list then forgets it.
NoDuplicateAlert ==
  \A u \in Unit : \A n \in Failure : alerts[u][n] > 1 => n \in missed[u]

\* A unit that was failed when the server started is not news (hub.go:212): the
\* warm-up keeps it out of the alerts, unless it could not see the unit's file.
NoStartupAlert ==
  \A u \in Unit : alerts[u][0] > 0 => 0 \in missed[u]

\* A failure that lasts is reported, while somebody listens and the unit keeps its
\* file, unless the last list of the source had the unit as failed already: between
\* two polls a recovery goes unnoticed.  Failures that were reported and ended, skipped
\* ticks and errors of the source do not make the loop miss it.
LastingFailureReported ==
  \A u \in Unit : \A n \in 1 .. MaxFailures :
    (u \in failed /\ failure[u] = n /\ u \notin heard /\ loop \notin {"start", "warmup"})
      ~> \/ alerts[u][n] > 0
         \/ u \notin failed \/ failure[u] # n
         \/ u \notin listed \/ ~listening
-----------------------------------------------------------------------------
(* The inductive invariant behind the safety properties *)

\* The units the loop will not report again, once the poll in progress is over.
Known == IF loop = "reporting" THEN current ELSE previous

\* What was handled before the n-th failure of u: a failure in progress at the start
\* counts from the end of the warm-up, if that cannot fail, any other from its report on.
Handled(u, n) ==
  \/ alerts[u][n] > 0
  \/ n = 0 /\ ~WarmupMayFail /\ loop \notin {"start", "warmup"}

\* Nothing is reported before it happened, nor before the first poll.
PastInv(u) ==
  /\ asOf[u] <= failure[u]
  /\ \A n \in Failure : alerts[u][n] > 0 => n <= failure[u] /\ loop \notin {"start", "warmup"}

\* A unit that is in a failure during which it always had its file has it now.
FileInv(u) ==
  u \in failed /\ failure[u] \notin missed[u] =>
    /\ u \in listed
    /\ loop = "warmup" /\ failure[u] = 0 => u \in scanned

\* A failure that was handled and still lasts is one the loop knows, and the poll
\* in progress is going to see it.
MemoryInv(u) ==
  u \in failed /\ failure[u] \notin missed[u] /\ Handled(u, failure[u]) =>
    /\ u \in Known
    /\ loop = "asking" => u \in scanned

\* What the loop is about to report was not handled before.
FreshInv(u) ==
  u \in left /\ u \notin previous /\ asOf[u] \notin missed[u] =>
    (asOf[u] = 0 => WarmupMayFail) /\ alerts[u][asOf[u]] = 0

IInv ==
  /\ TypeOK
  /\ loop # "reporting" => left = {}
  /\ NoDuplicateAlert
  /\ WarmupMayFail \/ NoStartupAlert
  /\ \A u \in Unit : PastInv(u) /\ FileInv(u) /\ MemoryInv(u) /\ FreshInv(u)
=============================================================================

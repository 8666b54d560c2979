---------------------------- MODULE AlertsProofs ----------------------------
(* Proofs about Alerts: a failure is reported once, and none from before the *)
(* start, if the source answers the warm-up.                                 *)
EXTENDS Alerts, TLAPS

\* Every step keeps the types.
LEMMA TypeStep == TypeOK /\ [Next]_vars => TypeOK'
<1> USE AlertsAssumption
<1> SUFFICES ASSUME TypeOK, [Next]_vars PROVE TypeOK'
  OBVIOUS
<1> USE DEF TypeOK, Failure, world, poll
<1>1. CASE UNCHANGED vars
  BY <1>1 DEF vars
<1>2. ASSUME NEW u \in Unit, Fail(u) PROVE TypeOK'
  <2>1. failure[u] + 1 \in Failure
    BY <1>2 DEF Fail
  <2>2. QED BY <1>2, <2>1 DEF Fail
<1>3. ASSUME NEW u \in Unit, Recover(u) PROVE TypeOK'
  BY <1>3 DEF Recover
<1>4. ASSUME NEW u \in Unit, CreateFile(u) PROVE TypeOK'
  BY <1>4 DEF CreateFile
<1>5. ASSUME NEW u \in Unit, DeleteFile(u) PROVE TypeOK'
  <2>1. deletes' \in 0 .. MaxDeletes
    BY <1>5 DEF DeleteFile
  <2>2. QED BY <1>5, <2>1 DEF DeleteFile
<1>6. CASE ClientsChange
  BY <1>6 DEF ClientsChange
<1>7. CASE WarmupScan \/ PollScan
  BY <1>7 DEF WarmupScan, PollScan, Scan
<1>8. CASE WarmupOk
  BY <1>8 DEF WarmupOk, FailedUnits
<1>9. CASE SourceErr
  BY <1>9 DEF SourceErr
<1>10. CASE Tick
  BY <1>10 DEF Tick
<1>11. CASE PollOk
  BY <1>11 DEF PollOk, FailedUnits
<1>12. CASE Swap
  BY <1>12 DEF Swap
<1>13. ASSUME NEW u \in Unit, Visit(u) PROVE TypeOK'
  <2>1. alerts[u][asOf[u]] + 1 \in Nat
    OBVIOUS
  <2>2. alerts' \in [Unit -> [Failure -> Nat]]
    BY <1>13, <2>1 DEF Visit
  <2>3. QED BY <1>13, <2>2 DEF Visit
<1>14. QED
  BY <1>1, <1>2, <1>3, <1>4, <1>5, <1>6, <1>7, <1>8, <1>9, <1>10, <1>11, <1>12, <1>13
  DEF Next, World, Loop

\* The parts of IInv about one unit.
UnitInv(u) == PastInv(u) /\ FileInv(u) /\ MemoryInv(u) /\ FreshInv(u)

\* A new failure has a number that nothing was reported for.
LEMMA FailCount ==
  ASSUME TypeOK, NEW u \in Unit, PastInv(u), Fail(u)
  PROVE  /\ failure[u] \in Nat /\ failure'[u] = failure[u] + 1
         /\ failure'[u] \in Failure /\ ~(failure'[u] <= failure[u]) /\ failure'[u] # 0
         /\ alerts[u][failure'[u]] = 0
<1> USE AlertsAssumption
<1>1. failure[u] \in Nat /\ failure[u] < MaxFailures /\ failure'[u] = failure[u] + 1
  BY DEF TypeOK, Failure, Fail
<1>2. failure[u] + 1 \in 0 .. MaxFailures /\ ~(failure[u] + 1 <= failure[u]) /\ failure[u] + 1 # 0
  BY <1>1
<1>3. failure'[u] \in Failure /\ ~(failure'[u] <= failure[u]) /\ failure'[u] # 0
  BY <1>1, <1>2 DEF Failure
<1>4. ~(alerts[u][failure'[u]] > 0) /\ alerts[u][failure'[u]] \in Nat
  BY <1>3 DEF PastInv, TypeOK
<1>5. QED BY <1>1, <1>3, <1>4

\* What happens to the units and their files keeps what the loop knows of them.
LEMMA WorldStep ==
  ASSUME IInv, World, TypeOK'
  PROVE  /\ (loop # "reporting" => left = {})'
         /\ NoDuplicateAlert' /\ (WarmupMayFail \/ NoStartupAlert')
         /\ \A u \in Unit : UnitInv(u)'
<1> USE DEF IInv, UnitInv, PastInv, FileInv, MemoryInv, FreshInv, Handled, Known, poll,
            NoDuplicateAlert, NoStartupAlert, TypeOK, Failure
<1> USE AlertsAssumption
<1>1. ASSUME NEW u \in Unit, Fail(u) 
      PROVE  /\ NoDuplicateAlert' /\ (WarmupMayFail \/ NoStartupAlert')
             /\ \A w \in Unit : UnitInv(w)'
  <2>1. /\ failure' = [failure EXCEPT ![u] = @ + 1]
        /\ failed' = failed \cup {u}
        /\ missed' = [missed EXCEPT ![u] = IF u \in listed THEN @ ELSE @ \cup {failure'[u]}]
        /\ UNCHANGED <<listed, loop, scanned, previous, current, left, asOf, alerts>>
    BY <1>1 DEF Fail
  <2>2. \A w \in Unit : missed[w] \subseteq missed'[w]
    BY <2>1
  <2>3. NoDuplicateAlert' /\ (WarmupMayFail \/ NoStartupAlert')
    BY <2>1, <2>2
  <2>4. ASSUME NEW w \in Unit PROVE UnitInv(w)'
    <3>1. CASE w # u
      BY <2>1, <3>1
    <3>2. CASE w = u
      <4>1. /\ failure[u] \in Nat /\ failure'[u] = failure[u] + 1
            /\ failure'[u] \in Failure /\ ~(failure'[u] <= failure[u]) /\ failure'[u] # 0
            /\ alerts[u][failure'[u]] = 0
        BY <1>1, FailCount
      <4>3. PastInv(u)'
        <5>1. asOf[u] \in Nat /\ asOf[u] <= failure'[u]
          BY <4>1
        <5>2. \A n \in Failure : n <= failure[u] => n <= failure'[u]
          BY <4>1
        <5>3. QED BY <2>1, <5>1, <5>2
      <4>4. FileInv(u)'
        BY <2>1, <4>1
      <4>5. MemoryInv(u)'
        BY <2>1, <4>1
      <4>6. FreshInv(u)'
        BY <2>1, <2>2
      <4>7. QED BY <3>2, <4>3, <4>4, <4>5, <4>6
    <3>3. QED BY <3>1, <3>2
  <2>5. QED BY <2>3, <2>4
<1>2. ASSUME NEW u \in Unit, Recover(u)
      PROVE  /\ NoDuplicateAlert' /\ (WarmupMayFail \/ NoStartupAlert')
             /\ \A w \in Unit : UnitInv(w)'
  BY <1>2 DEF Recover
<1>3. ASSUME NEW u \in Unit, CreateFile(u)
      PROVE  /\ NoDuplicateAlert' /\ (WarmupMayFail \/ NoStartupAlert')
             /\ \A w \in Unit : UnitInv(w)'
  BY <1>3 DEF CreateFile
<1>4. ASSUME NEW u \in Unit, DeleteFile(u)
      PROVE  /\ NoDuplicateAlert' /\ (WarmupMayFail \/ NoStartupAlert')
             /\ \A w \in Unit : UnitInv(w)'
  <2>1. /\ missed' = [missed EXCEPT ![u] = @ \cup {failure[u]}]
        /\ listed' = listed \ {u}
        /\ UNCHANGED <<failed, failure, loop, scanned, previous, current, left, asOf, alerts>>
    BY <1>4 DEF DeleteFile
  <2>2. \A w \in Unit : missed[w] \subseteq missed'[w]
    BY <2>1
  <2>3. failure[u] \in missed'[u]
    BY <2>1
  <2>4. NoDuplicateAlert' /\ (WarmupMayFail \/ NoStartupAlert')
    BY <2>1, <2>2
  <2>5. ASSUME NEW w \in Unit PROVE UnitInv(w)'
    BY <2>1, <2>2, <2>3
  <2>6. QED BY <2>4, <2>5
<1>5. ASSUME ClientsChange
      PROVE  /\ NoDuplicateAlert' /\ (WarmupMayFail \/ NoStartupAlert')
             /\ \A w \in Unit : UnitInv(w)'
  BY <1>5 DEF ClientsChange
<1>6. UNCHANGED <<loop, left>>
  BY DEF World, Fail, Recover, CreateFile, DeleteFile, ClientsChange
<1>7. QED BY <1>1, <1>2, <1>3, <1>4, <1>5, <1>6 DEF World

\* Every step of the loop but the report keeps what it knows.
LEMMA PollStep ==
  ASSUME IInv, TypeOK',
         WarmupScan \/ WarmupOk \/ SourceErr \/ Tick \/ PollScan \/ PollOk \/ Swap
  PROVE  /\ (loop # "reporting" => left = {})'
         /\ NoDuplicateAlert' /\ (WarmupMayFail \/ NoStartupAlert')
         /\ \A u \in Unit : UnitInv(u)'
<1> USE DEF IInv, UnitInv, PastInv, FileInv, MemoryInv, FreshInv, Handled, Known, world,
            NoDuplicateAlert, NoStartupAlert, TypeOK, Failure
<1> USE AlertsAssumption
<1>1. NoDuplicateAlert' /\ (WarmupMayFail \/ NoStartupAlert')
  <2>1. UNCHANGED <<alerts, missed>>
    BY DEF WarmupScan, WarmupOk, SourceErr, Tick, PollScan, Scan, PollOk, Swap
  <2>2. QED BY <2>1
<1>2. (loop # "reporting" => left = {})'
  BY DEF WarmupScan, WarmupOk, SourceErr, Tick, PollScan, Scan, PollOk, Swap
<1>3. ASSUME NEW u \in Unit PROVE UnitInv(u)'
  <2>1. CASE WarmupScan
    BY <2>1 DEF WarmupScan, Scan
  <2>2. CASE WarmupOk
    BY <2>2 DEF WarmupOk, FailedUnits
  <2>3. CASE SourceErr
    BY <2>3 DEF SourceErr
  <2>4. CASE Tick
    BY <2>4 DEF Tick
  <2>5. CASE PollScan
    BY <2>5 DEF PollScan, Scan
  <2>6. CASE PollOk
    BY <2>6 DEF PollOk, FailedUnits
  <2>7. CASE Swap
    BY <2>7 DEF Swap
  <2>8. QED BY <2>1, <2>2, <2>3, <2>4, <2>5, <2>6, <2>7
<1>4. QED BY <1>1, <1>2, <1>3

\* A report is the first one of its failure.
LEMMA VisitStep ==
  ASSUME IInv, NEW u \in Unit, Visit(u), TypeOK'
  PROVE  /\ (loop # "reporting" => left = {})'
         /\ NoDuplicateAlert' /\ (WarmupMayFail \/ NoStartupAlert')
         /\ \A w \in Unit : UnitInv(w)'
<1> USE DEF IInv, UnitInv, PastInv, FileInv, MemoryInv, FreshInv, Handled, Known, world,
            NoDuplicateAlert, NoStartupAlert, TypeOK, Failure
<1> USE AlertsAssumption
<1>1. /\ loop = "reporting" /\ u \in left /\ left' = left \ {u}
      /\ UNCHANGED <<failed, failure, listed, missed, loop, scanned, previous, current, asOf>>
  BY DEF Visit
<1>2. CASE u \in previous
  <2>1. alerts' = alerts
    BY <1>2 DEF Visit, New
  <2>2. QED BY <1>1, <2>1
<1>3. CASE u \notin previous
  <2>1. alerts' = [alerts EXCEPT ![u][asOf[u]] = @ + 1]
    BY <1>3 DEF Visit, New
  <2>2. asOf[u] \in Failure /\ alerts[u][asOf[u]] \in Nat
    OBVIOUS
  <2>3. \A w \in Unit, n \in Failure :
          alerts'[w][n] = IF w = u /\ n = asOf[u] THEN alerts[u][asOf[u]] + 1 ELSE alerts[w][n]
    BY <2>1
  <2>4. \/ asOf[u] \in missed[u]
        \/ (asOf[u] = 0 => WarmupMayFail) /\ alerts[u][asOf[u]] = 0
    BY <1>1, <1>3
  <2>5. NoDuplicateAlert'
    <3> SUFFICES ASSUME NEW w \in Unit, NEW n \in Failure, alerts'[w][n] > 1
                 PROVE  n \in missed[w]
      BY <1>1
    <3>1. CASE w = u /\ n = asOf[u]
      <4>1. CASE alerts[u][asOf[u]] = 0
        <5>1. alerts'[w][n] = 0 + 1
          BY <2>3, <3>1, <4>1
        <5>2. QED BY <5>1
      <4>2. QED BY <2>4, <3>1, <4>1
    <3>2. CASE ~(w = u /\ n = asOf[u])
      <4>1. alerts'[w][n] = alerts[w][n]
        BY <2>3, <3>2
      <4>2. QED BY <4>1
    <3>3. QED BY <3>1, <3>2
  <2>6. WarmupMayFail \/ NoStartupAlert'
    <3> SUFFICES ASSUME ~WarmupMayFail, NEW w \in Unit, alerts'[w][0] > 0
                 PROVE  0 \in missed[w]
      BY <1>1
    <3>0. 0 \in Failure
      OBVIOUS
    <3>1. CASE w = u /\ 0 = asOf[u]
      BY <2>4, <3>1
    <3>2. CASE ~(w = u /\ 0 = asOf[u])
      <4>1. alerts'[w][0] = alerts[w][0]
        BY <2>3, <3>0, <3>2
      <4>2. QED BY <4>1
    <3>3. QED BY <3>1, <3>2
  <2>7. ASSUME NEW w \in Unit PROVE UnitInv(w)'
    <3>1. CASE w # u
      <4>1. \A n \in Failure : alerts'[w][n] = alerts[w][n]
        BY <2>3, <3>1
      <4>2. QED BY <1>1, <3>1, <4>1
    <3>2. CASE w = u
      <4>1. PastInv(u)'
        <5> SUFFICES ASSUME NEW n \in Failure, alerts'[u][n] > 0
                     PROVE  n <= failure[u] /\ loop \notin {"start", "warmup"}
          BY <1>1
        <5>1. CASE n = asOf[u]
          BY <1>1, <5>1
        <5>2. CASE n # asOf[u]
          <6>1. alerts'[u][n] = alerts[u][n]
            BY <2>3, <5>2
          <6>2. QED BY <1>1, <6>1
        <5>3. QED BY <5>1, <5>2
      <4>2. FileInv(u)'
        BY <1>1
      <4>3. u \in Known'
        BY <1>1
      <4>4. MemoryInv(u)'
        BY <1>1, <4>3
      <4>5. FreshInv(u)'
        BY <1>1
      <4>6. QED BY <3>2, <4>1, <4>2, <4>4, <4>5
    <3>3. QED BY <3>1, <3>2
  <2>8. QED BY <1>1, <2>5, <2>6, <2>7
<1>4. QED BY <1>2, <1>3

\* The initial states satisfy the invariant.
LEMMA InitInv == Init => IInv
<1> SUFFICES ASSUME Init PROVE IInv
  OBVIOUS
<1> USE AlertsAssumption DEF Init, Failure
<1>1. TypeOK
  <2>0. 0 \in Failure
    OBVIOUS
  <2>1. \A u \in Unit : missed[u] \subseteq Failure
    BY <2>0
  <2>2. missed \in [Unit -> SUBSET Failure]
    BY <2>1
  <2>3. failure \in [Unit -> Failure] /\ asOf \in [Unit -> Failure] /\ deletes \in 0 .. MaxDeletes
    OBVIOUS
  <2>4. alerts \in [Unit -> [Failure -> Nat]]
    OBVIOUS
  <2>5. QED BY <2>2, <2>3, <2>4 DEF TypeOK
<1>2. \A u \in Unit, n \in Failure : alerts[u][n] = 0
  OBVIOUS
<1>3. 0 \in Failure
  OBVIOUS
<1>4. NoDuplicateAlert /\ NoStartupAlert
  BY <1>2, <1>3 DEF NoDuplicateAlert, NoStartupAlert
<1>5. ASSUME NEW u \in Unit PROVE PastInv(u) /\ FileInv(u) /\ MemoryInv(u) /\ FreshInv(u)
  BY <1>2 DEF PastInv, FileInv, MemoryInv, FreshInv, Handled
<1>6. QED BY <1>1, <1>4, <1>5 DEF IInv

\* Every step keeps the invariant.
LEMMA Step == IInv /\ [Next]_vars => IInv'
<1> SUFFICES ASSUME IInv, [Next]_vars PROVE IInv'
  OBVIOUS
<1>1. TypeOK'
  BY TypeStep DEF IInv
<1>2. CASE UNCHANGED vars
  BY <1>2, <1>1 DEF IInv, vars, world, poll, NoDuplicateAlert, NoStartupAlert, PastInv,
                    FileInv, MemoryInv, FreshInv, Handled, Known
<1>3. CASE World
  BY <1>1, <1>3, WorldStep DEF IInv, UnitInv
<1>4. CASE WarmupScan \/ WarmupOk \/ SourceErr \/ Tick \/ PollScan \/ PollOk \/ Swap
  BY <1>1, <1>4, PollStep DEF IInv, UnitInv
<1>5. ASSUME NEW u \in Unit, Visit(u) PROVE IInv'
  BY <1>1, <1>5, VisitStep DEF IInv, UnitInv
<1>6. QED BY <1>2, <1>3, <1>4, <1>5 DEF Next, Loop

\* The types hold whatever the source does (StartAlertBroadcaster, ListUnits).
THEOREM TypeCorrect == Spec => []TypeOK
<1>1. Init => TypeOK
  BY InitInv DEF IInv
<1>2. QED BY <1>1, TypeStep, PTL DEF Spec

\* The inductive invariant holds in every reachable state, whether or not the warm-up fails.
THEOREM Invariance == Spec => []IInv
<1>1. IInv /\ [Next]_vars => IInv'
  BY Step
<1>2. QED BY InitInv, <1>1, PTL DEF Spec

\* For any number of units, failures, deletions and polls: a failure during which
\* the unit kept its file is reported at most once, whether or not the warm-up fails.
THEOREM ReportedOnce == Spec => []NoDuplicateAlert
<1>1. IInv => NoDuplicateAlert
  BY DEF IInv
<1>2. QED BY Invariance, <1>1, PTL

\* Likewise, a failure from before the start is not reported, if the warm-up's
\* call of the source succeeds.
THEOREM StartupIsSilent == ASSUME WarmupMayFail = FALSE PROVE Spec => []NoStartupAlert
<1>1. IInv => NoStartupAlert
  BY Zenon DEF IInv
<1>2. QED BY Invariance, <1>1, PTL
=============================================================================

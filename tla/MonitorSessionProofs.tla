------------------------ MODULE MonitorSessionProofs ------------------------
(***************************************************************************)
(* For every number of ranks and events: if no database call fails, no     *)
(* event is lost between the ring and the database.                        *)
(***************************************************************************)
EXTENDS MonitorSession, TLAPS

(* Every event is in exactly one place.                                    *)
Balance(r) == ring[r] + batch[r] + stored[r] + lost[r] + dropped[r] = claims[r]

(* The monitor thread leaves its loop only after MPI_Finalize has begun,   *)
(* and is then the only one that touches the ring.                         *)
Over(r)    == mon[r] \in {"final", "update"} \/ (mon[r] = "exited" /\ env[r])
Closing(r) ==
  /\ app[r] = "init" => mon[r] = "none"
  /\ ~run_thread[r] => app[r] \in {"joining", "done"}
  /\ Over(r) => ~run_thread[r]
  /\ Over(r) /\ mon[r] # "final" => ring[r] = 0
  /\ mon[r] \notin {"loop", "final"} => batch[r] = 0

(* Without failures the connection is good, the run's row exists from the  *)
(* moment a rank writes, a COPY is running whenever a row is sent, and     *)
(* nothing was lost.                                                       *)
Healthy(r) ==
  faults = 0 =>
    /\ lost[r] = 0
    /\ mon[r] \in {"insert", "poll", "cluster", "start", "loop", "final", "update"} => conn[r] = "ok"
    /\ mon[r] \in {"cluster", "start", "loop", "final", "update"} => runs # "none"
    /\ mon[r] \in {"loop", "final"} => copying[r]

SessionInv == TypeOK /\ \A r \in Ranks : Balance(r) /\ Closing(r) /\ Healthy(r)

-----------------------------------------------------------------------------
(* edumpi_analysis_init_pre establishes the invariant.                     *)
LEMMA InitSession == Init => SessionInv
BY BoundsAssumption DEF Init, SessionInv, TypeOK, Balance, Closing, Healthy, Over, Steps, Before

(* What a rank does in one step, or what happens to its connection.        *)
Step(r) == Application(r) \/ Monitor(r) \/ ConnectionLost(r)

(* The end of a COPY moves the rows of its batch, and only those.          *)
LEMMA EndCopyMoves ==
  ASSUME TypeOK, NEW r \in Ranks, NEW ok \in BOOLEAN, EndCopy(r, ok)
  PROVE  /\ batch' \in [Ranks -> Nat] /\ stored' \in [Ranks -> Nat] /\ lost' \in [Ranks -> Nat]
         /\ batch' = [batch EXCEPT ![r] = 0]
         /\ \A s \in Ranks : batch'[s] + stored'[s] + lost'[s] = batch[s] + stored[s] + lost[s]
         /\ ok /\ copying[r] /\ runs # "none" => lost' = lost
<1>1. batch' = [batch EXCEPT ![r] = 0] BY DEF EndCopy
<1>2. batch \in [Ranks -> Nat] /\ stored \in [Ranks -> Nat] /\ lost \in [Ranks -> Nat]
  BY DEF TypeOK
<1>3. CASE ok /\ copying[r] /\ runs # "none"
  <2>1. stored' = [stored EXCEPT ![r] = @ + batch[r]] /\ lost' = lost BY <1>3 DEF EndCopy
  <2> QED BY <1>1, <1>2, <2>1
<1>4. CASE ~(ok /\ copying[r] /\ runs # "none")
  <2>1. lost' = [lost EXCEPT ![r] = @ + batch[r]] /\ stored' = stored BY <1>4 DEF EndCopy
  <2> QED BY <1>1, <1>2, <1>4, <2>1
<1> QED BY <1>3, <1>4

(* Every step keeps the types.                                             *)
LEMMA StepType ==
  ASSUME TypeOK, NEW r \in Ranks, Step(r)
  PROVE  TypeOK'
<1> USE DEF Steps, Before, At, setVars, appVars, dbVars, rowVars
<1>1. CASE StartMonitor(r) BY <1>1 DEF TypeOK, StartMonitor
<1>2. CASE Call(r) BY <1>2 DEF TypeOK, Call
<1>3. CASE Claim(r)
  <2>1. claims' \in [Ranks -> Nat] /\ app' \in [Ranks -> {"init", "running", "calling", "joining", "done"}]
    BY <1>3 DEF Claim, TypeOK
  <2>2. ring' \in [Ranks -> 0..Capacity] /\ dropped' \in [Ranks -> Nat]
    BY <1>3, BoundsAssumption DEF Claim, TypeOK
  <2> QED BY <1>3, <2>1, <2>2 DEF Claim, TypeOK
<1>4. CASE Finalize(r) BY <1>4 DEF TypeOK, Finalize
<1>5. CASE Join(r) BY <1>5 DEF TypeOK, Join
<1>6. CASE ConnectionLost(r) BY <1>6 DEF TypeOK, ConnectionLost
<1>7. CASE ReadEnv(r) BY <1>7 DEF TypeOK, ReadEnv
<1>8. CASE Connect(r) BY <1>8 DEF TypeOK, Connect
<1>9. CASE InsertRun(r) BY <1>9 DEF TypeOK, InsertRun, Answers
<1>10. CASE Poll(r) BY <1>10 DEF TypeOK, Poll
<1>11. CASE ClusterInfo(r) BY <1>11 DEF TypeOK, ClusterInfo, Answers
<1>12. CASE StartCopy(r) BY <1>12 DEF TypeOK, StartCopy, Answers
<1>13. CASE Put(r)
  <2>1. ring' \in [Ranks -> 0..Capacity] BY <1>13, BoundsAssumption DEF Put, TypeOK
  <2>2. batch' \in [Ranks -> Nat] /\ lost' \in [Ranks -> Nat] BY <1>13 DEF Put, TypeOK
  <2> QED BY <1>13, <2>1, <2>2 DEF Put, TypeOK
<1>14. CASE Rotate(r)
  <2>1. PICK ended, started \in BOOLEAN :
          /\ EndCopy(r, ended)
          /\ copying' = [copying EXCEPT ![r] = started]
          /\ Answers(r, ended /\ started)
    BY <1>14, Zenon DEF Rotate
  <2>2. batch' \in [Ranks -> Nat] /\ stored' \in [Ranks -> Nat] /\ lost' \in [Ranks -> Nat]
    BY <2>1, EndCopyMoves
  <2>3. copying' \in [Ranks -> BOOLEAN] BY <2>1 DEF TypeOK
  <2>4. faults' \in Nat BY <2>1 DEF Answers, TypeOK
  <2> QED BY <1>14, <2>2, <2>3, <2>4 DEF Rotate, TypeOK
<1>15. CASE LeaveLoop(r) BY <1>15 DEF TypeOK, LeaveLoop
<1>16. CASE LastCopy(r)
  <2>1. PICK ok \in BOOLEAN : Answers(r, ok) /\ EndCopy(r, ok) BY <1>16 DEF LastCopy
  <2>2. batch' \in [Ranks -> Nat] /\ stored' \in [Ranks -> Nat] /\ lost' \in [Ranks -> Nat]
    BY <2>1, EndCopyMoves
  <2>3. faults' \in Nat BY <2>1 DEF Answers, TypeOK
  <2> QED BY <1>16, <2>2, <2>3, Zenon DEF LastCopy, TypeOK
<1>17. CASE UpdateRun(r) BY <1>17 DEF TypeOK, UpdateRun, Answers
<1> QED
  BY <1>1, <1>2, <1>3, <1>4, <1>5, <1>6, <1>7, <1>8, <1>9, <1>10, <1>11, <1>12, <1>13, <1>14, <1>15, <1>16, <1>17
  DEF Step, Application, Monitor, GoOn

(* Every step keeps every event in one place.                              *)
LEMMA StepBalance ==
  ASSUME TypeOK, NEW r \in Ranks, Step(r), NEW s \in Ranks, Balance(s)
  PROVE  Balance(s)'
<1> USE DEF setVars, appVars, dbVars, rowVars
<1>0. /\ ring[s] \in Int /\ batch[s] \in Int /\ stored[s] \in Int /\ lost[s] \in Int
      /\ dropped[s] \in Int /\ claims[s] \in Int
      /\ ring'[s] \in Int /\ batch'[s] \in Int /\ stored'[s] \in Int /\ lost'[s] \in Int
      /\ dropped'[s] \in Int /\ claims'[s] \in Int
  BY StepType, BoundsAssumption DEF TypeOK
<1>1. CASE StartMonitor(r) BY <1>1 DEF StartMonitor, Balance
<1>2. CASE Call(r) BY <1>2 DEF Call, Balance
<1>3. CASE Claim(r)
  <2>1. UNCHANGED <<batch, stored, lost>> BY <1>3 DEF Claim
  <2>2. /\ s # r => ring'[s] = ring[s] /\ dropped'[s] = dropped[s] /\ claims'[s] = claims[s]
        /\ s = r => claims'[s] = claims[s] + 1
        /\ s = r => \/ ring'[s] = ring[s] + 1 /\ dropped'[s] = dropped[s]
                    \/ ring'[s] = ring[s] /\ dropped'[s] = dropped[s] + 1
    BY <1>3 DEF Claim, TypeOK
  <2> QED BY <2>1, <2>2, <1>0 DEF Balance
<1>4. CASE Finalize(r) BY <1>4 DEF Finalize, Balance
<1>5. CASE Join(r) BY <1>5 DEF Join, Balance
<1>6. CASE ConnectionLost(r) BY <1>6 DEF ConnectionLost, Balance
<1>7. CASE ReadEnv(r) BY <1>7 DEF ReadEnv, Balance
<1>8. CASE Connect(r) BY <1>8 DEF Connect, Balance
<1>9. CASE InsertRun(r) BY <1>9 DEF InsertRun, Balance
<1>10. CASE Poll(r) BY <1>10 DEF Poll, Balance
<1>11. CASE ClusterInfo(r) BY <1>11 DEF ClusterInfo, Balance
<1>12. CASE StartCopy(r) BY <1>12 DEF StartCopy, Balance
<1>13. CASE Put(r)
  <2>1. UNCHANGED <<stored, dropped, claims>> BY <1>13 DEF Put
  <2>2. /\ s # r => ring'[s] = ring[s] /\ batch'[s] = batch[s] /\ lost'[s] = lost[s]
        /\ s = r => ring'[s] = ring[s] - 1
        /\ s = r => \/ batch'[s] = batch[s] + 1 /\ lost'[s] = lost[s]
                    \/ batch'[s] = batch[s] /\ lost'[s] = lost[s] + 1
    BY <1>13 DEF Put, TypeOK
  <2> QED BY <2>1, <2>2, <1>0 DEF Balance
<1>14. CASE Rotate(r)
  <2>1. PICK ended \in BOOLEAN : EndCopy(r, ended) BY <1>14 DEF Rotate
  <2>2. batch'[s] + stored'[s] + lost'[s] = batch[s] + stored[s] + lost[s]
    BY <2>1, EndCopyMoves
  <2>3. UNCHANGED <<ring, dropped, claims>> BY <1>14 DEF Rotate
  <2> QED BY <2>2, <2>3, <1>0 DEF Balance
<1>15. CASE LeaveLoop(r) BY <1>15 DEF LeaveLoop, Balance
<1>16. CASE LastCopy(r)
  <2>1. PICK ok \in BOOLEAN : EndCopy(r, ok) BY <1>16 DEF LastCopy
  <2>2. batch'[s] + stored'[s] + lost'[s] = batch[s] + stored[s] + lost[s]
    BY <2>1, EndCopyMoves
  <2>3. UNCHANGED <<ring, dropped, claims>> BY <1>16 DEF LastCopy
  <2> QED BY <2>2, <2>3, <1>0 DEF Balance
<1>17. CASE UpdateRun(r) BY <1>17, Zenon DEF UpdateRun, Balance
<1> QED
  BY <1>1, <1>2, <1>3, <1>4, <1>5, <1>6, <1>7, <1>8, <1>9, <1>10, <1>11, <1>12, <1>13, <1>14, <1>15, <1>16, <1>17
  DEF Step, Application, Monitor, GoOn

(* Every step keeps the order of the shutdown.                             *)
LEMMA StepClosing ==
  ASSUME TypeOK, NEW r \in Ranks, Step(r), NEW s \in Ranks, Closing(s)
  PROVE  Closing(s)'
<1> USE DEF TypeOK, Closing, Over, At, setVars, appVars, dbVars, rowVars
<1>1. CASE StartMonitor(r) BY <1>1 DEF StartMonitor
<1>2. CASE Call(r) BY <1>2 DEF Call
<1>3. CASE Claim(r) BY <1>3 DEF Claim
<1>4. CASE Finalize(r) BY <1>4 DEF Finalize
<1>5. CASE Join(r) BY <1>5 DEF Join
<1>6. CASE ConnectionLost(r) BY <1>6 DEF ConnectionLost
<1>7. CASE ReadEnv(r) BY <1>7 DEF ReadEnv
<1>8. CASE Connect(r) BY <1>8 DEF Connect
<1>9. CASE InsertRun(r) BY <1>9 DEF InsertRun
<1>10. CASE Poll(r) BY <1>10 DEF Poll
<1>11. CASE ClusterInfo(r) BY <1>11 DEF ClusterInfo
<1>12. CASE StartCopy(r) BY <1>12 DEF StartCopy
<1>13. CASE Put(r) BY <1>13 DEF Put
<1>14. CASE Rotate(r)
  <2>1. batch' = [batch EXCEPT ![r] = 0] BY <1>14 DEF Rotate, EndCopy
  <2> QED BY <1>14, <2>1 DEF Rotate
<1>15. CASE LeaveLoop(r) BY <1>15 DEF LeaveLoop
<1>16. CASE LastCopy(r)
  <2>1. batch' = [batch EXCEPT ![r] = 0] BY <1>16 DEF LastCopy, EndCopy
  <2> QED BY <1>16, <2>1 DEF LastCopy
<1>17. CASE UpdateRun(r) BY <1>17 DEF UpdateRun
<1> QED
  BY <1>1, <1>2, <1>3, <1>4, <1>5, <1>6, <1>7, <1>8, <1>9, <1>10, <1>11, <1>12, <1>13, <1>14, <1>15, <1>16, <1>17, Zenon
  DEF Step, Application, Monitor, GoOn

(* Every step keeps the session healthy, or counts as a failure.           *)
LEMMA StepHealthy ==
  ASSUME TypeOK, NEW r \in Ranks, Step(r), NEW s \in Ranks, Healthy(s), Healthy(r)
  PROVE  Healthy(s)'
<1> USE DEF At, setVars, appVars, dbVars, rowVars
<1>1. CASE StartMonitor(r) BY <1>1 DEF StartMonitor, Healthy, TypeOK
<1>2. CASE Call(r) BY <1>2 DEF Call, Healthy, TypeOK
<1>3. CASE Claim(r) BY <1>3 DEF Claim, Healthy, TypeOK
<1>4. CASE Finalize(r) BY <1>4 DEF Finalize, Healthy, TypeOK
<1>5. CASE Join(r) BY <1>5 DEF Join, Healthy, TypeOK
<1>6. CASE ConnectionLost(r) BY <1>6 DEF ConnectionLost, Healthy, TypeOK
<1>7. CASE ReadEnv(r) BY <1>7 DEF ReadEnv, Healthy, TypeOK
<1>8. CASE Connect(r) BY <1>8 DEF Connect, Healthy, TypeOK
<1>9. CASE InsertRun(r) BY <1>9 DEF InsertRun, Healthy, TypeOK, Answers
<1>10. CASE Poll(r) BY <1>10 DEF Poll, Healthy, TypeOK
<1>11. CASE ClusterInfo(r) BY <1>11 DEF ClusterInfo, Healthy, TypeOK, Answers
<1>12. CASE StartCopy(r) BY <1>12 DEF StartCopy, Healthy, TypeOK, Answers
<1>13. CASE Put(r) BY <1>13 DEF Put, Healthy, TypeOK
<1>14. CASE Rotate(r)
  <2>1. PICK ended, started \in BOOLEAN :
          /\ EndCopy(r, ended)
          /\ copying' = [copying EXCEPT ![r] = started]
          /\ Answers(r, ended /\ started)
    BY <1>14, Zenon DEF Rotate
  <2>2. faults' = 0 => faults = 0 /\ (conn[r] = "ok" => ended /\ started)
    BY <2>1 DEF Answers, TypeOK
  <2>3. faults' = 0 => lost' = lost
    BY <1>14, <2>1, <2>2, EndCopyMoves DEF Rotate, Healthy
  <2> QED BY <1>14, <2>1, <2>2, <2>3, SMTT(30) DEF Rotate, Healthy, TypeOK
<1>15. CASE LeaveLoop(r) BY <1>15 DEF LeaveLoop, Healthy, TypeOK
<1>16. CASE LastCopy(r)
  <2>1. PICK ok \in BOOLEAN : Answers(r, ok) /\ EndCopy(r, ok) BY <1>16 DEF LastCopy
  <2>2. faults' = 0 => faults = 0 /\ (conn[r] = "ok" => ok)
    BY <2>1 DEF Answers, TypeOK
  <2>3. faults' = 0 => lost' = lost
    BY <1>16, <2>1, <2>2, EndCopyMoves DEF LastCopy, Healthy
  <2> QED BY <1>16, <2>2, <2>3 DEF LastCopy, Healthy, TypeOK
<1>17. CASE UpdateRun(r) BY <1>17 DEF UpdateRun, Healthy, TypeOK, Answers
<1> QED
  BY <1>1, <1>2, <1>3, <1>4, <1>5, <1>6, <1>7, <1>8, <1>9, <1>10, <1>11, <1>12, <1>13, <1>14, <1>15, <1>16, <1>17
  DEF Step, Application, Monitor, GoOn

(* SessionInv is an invariant of the sessions.                             *)
LEMMA SessionInvariance == Spec => []SessionInv
<1>1. SessionInv /\ [Next]_vars => SessionInv'
  <2> SUFFICES ASSUME SessionInv, [Next]_vars PROVE SessionInv'
    OBVIOUS
  <2>1. CASE Next
    <3>1. PICK r \in Ranks : Step(r) BY <2>1 DEF Next, Step
    <3>2. TypeOK' BY <3>1, StepType DEF SessionInv
    <3>3. ASSUME NEW s \in Ranks PROVE Balance(s)' /\ Closing(s)' /\ Healthy(s)'
      BY <3>1, StepBalance, StepClosing, StepHealthy DEF SessionInv
    <3> QED BY <3>2, <3>3 DEF SessionInv
  <2>2. CASE UNCHANGED vars
    BY <2>2 DEF vars, SessionInv, TypeOK, Balance, Closing, Healthy, Over,
                setVars, appVars, dbVars, rowVars
  <2> QED BY <2>1, <2>2
<1> QED BY InitSession, <1>1, PTL DEF Spec

(* Type correctness of the database sessions of all ranks.                 *)
THEOREM SessionTypeCorrect == Spec => []TypeOK
<1>1. SessionInv => TypeOK BY DEF SessionInv
<1> QED BY <1>1, SessionInvariance, PTL

(* If no database call fails, SQLMonitorFunc loses no row: not by writing  *)
(* before the run's row exists, not at a change of COPY streams, and not   *)
(* at the shutdown.                                                        *)
THEOREM SessionLosesNothing == Spec => []NothingLost
<1>1. SessionInv => NothingLost
  <2> SUFFICES ASSUME SessionInv, faults = 0, NEW r \in Ranks
               PROVE  /\ lost[r] = 0
                      /\ app[r] = "done" /\ mon[r] = "exited" /\ env[r] =>
                           stored[r] + dropped[r] = claims[r]
    BY Zenon DEF NothingLost
  <2>1. lost[r] = 0 BY DEF SessionInv, Healthy
  <2>2. mon[r] = "exited" /\ env[r] => ring[r] = 0 /\ batch[r] = 0
    BY DEF SessionInv, Closing, Over
  <2>3. ring[r] + batch[r] + stored[r] + lost[r] + dropped[r] = claims[r]
    BY DEF SessionInv, Balance
  <2>4. stored[r] \in Nat /\ dropped[r] \in Nat BY DEF SessionInv, TypeOK
  <2> QED BY <2>1, <2>2, <2>3, <2>4
<1> QED BY <1>1, SessionInvariance, PTL
=============================================================================

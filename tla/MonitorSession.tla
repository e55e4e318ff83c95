--------------------------- MODULE MonitorSession ---------------------------
(***************************************************************************)
(* The database session of EduMPI's monitor threads (SQLMonitorFunc in     *)
(* ompi/mpi/c/init.c), one per rank, from MPI_Init to MPI_Finalize: rank 0 *)
(* inserts the row of the run, the others poll for it, and then every rank *)
(* sends its events through COPY streams that are ended, that is           *)
(* committed, every TIME_TO_WAIT seconds.  The event ring is a counter     *)
(* here: AmtRing and SpRing are about the rings.                           *)
(***************************************************************************)
EXTENDS Integers

CONSTANTS Ranks, Root,   \* the processes; the one with processrank == 0
          Capacity,      \* events a ring holds
          MaxClaims,     \* bound: events of a rank
          MaxFaults      \* bound: database calls that fail, connections that break

ASSUME RootAssumption == Root \in Ranks
ASSUME BoundsAssumption == Capacity \in Nat \ {0} /\ MaxClaims \in Nat /\ MaxFaults \in Nat

VARIABLES amt_mode,      \* EDUMPI_MPI_THREAD_AMT
          env,           \* per rank: the DB_* variables are set
          app,           \* per rank: where the application thread is
          mon,           \* per rank: where the monitor thread is
          run_thread,    \* per rank: cleared by MPI_Finalize
          conn,          \* per rank: the connection
          copying,       \* per rank: a COPY is running on it
          ring, batch,   \* per rank: events in the ring; rows sent in the running COPY
          stored, lost,  \* per rank: rows committed; rows that got nowhere
          claims, dropped,  \* per rank: all events; those that met a full AMT ring
          runs,          \* the run's row in edumpi_runs: "none", "open", "ended"
          cluster,       \* the ranks with a row in edumpi_cluster_info
          faults         \* history: failures so far

appVars == <<app, run_thread, claims, dropped>>
dbVars  == <<runs, cluster>>
rowVars == <<batch, stored, lost>>
setVars == <<amt_mode, env>>
vars    == <<setVars, appVars, dbVars, rowVars, mon, conn, copying, ring, faults>>

(* edumpi_analysis_init_pre.  A run of that id may exist already: all      *)
(* programs of one Slurm job have the same SLURM_JOBID.                    *)
Init ==
  /\ amt_mode \in BOOLEAN /\ env \in [Ranks -> BOOLEAN]
  /\ app = [r \in Ranks |-> "init"] /\ mon = [r \in Ranks |-> "none"]
  /\ run_thread = [r \in Ranks |-> TRUE]
  /\ conn = [r \in Ranks |-> "none"] /\ copying = [r \in Ranks |-> FALSE]
  /\ ring = [r \in Ranks |-> 0] /\ batch = [r \in Ranks |-> 0]
  /\ stored = [r \in Ranks |-> 0] /\ lost = [r \in Ranks |-> 0]
  /\ claims = [r \in Ranks |-> 0] /\ dropped = [r \in Ranks |-> 0]
  /\ runs \in {"none", "ended"} /\ cluster = {} /\ faults = 0

-----------------------------------------------------------------------------
(* The application thread.                                                 *)

(* initializeQueue; pthread_create may fail.                               *)
StartMonitor(r) ==
  /\ app[r] = "init"
  /\ app' = [app EXCEPT ![r] = "running"]
  /\ \E m \in {"env", "absent"} : mon' = [mon EXCEPT ![r] = m]
  /\ UNCHANGED <<setVars, run_thread, claims, dropped, dbVars, rowVars, conn, copying, ring, faults>>

(* An MPI call begins ...                                                  *)
Call(r) ==
  /\ app[r] = "running" /\ claims[r] < MaxClaims
  /\ app' = [app EXCEPT ![r] = "calling"]
  /\ UNCHANGED <<setVars, run_thread, claims, dropped, dbVars, rowVars, mon, conn, copying, ring, faults>>

\* Mutant of Claim: a full ring makes the AMT mode wait as well.
Claim_Wait(r) ==
  /\ app[r] = "calling" /\ ring[r] < Capacity
  /\ app' = [app EXCEPT ![r] = "running"]
  /\ claims' = [claims EXCEPT ![r] = @ + 1]
  /\ ring' = [ring EXCEPT ![r] = @ + 1]
  /\ UNCHANGED <<setVars, run_thread, dropped, dbVars, rowVars, mon, conn, copying, faults>>

(* ... and claims an entry.  If the ring is full, the AMT mode drops the   *)
(* event and the default mode waits.                                       *)
Claim(r) ==
  /\ app[r] = "calling"
  /\ app' = [app EXCEPT ![r] = "running"]
  /\ claims' = [claims EXCEPT ![r] = @ + 1]
  /\ \/ ring[r] < Capacity /\ ring' = [ring EXCEPT ![r] = @ + 1] /\ UNCHANGED dropped
     \/ /\ ring[r] = Capacity /\ amt_mode
        /\ dropped' = [dropped EXCEPT ![r] = @ + 1] /\ UNCHANGED ring
  /\ UNCHANGED <<setVars, run_thread, dbVars, rowVars, mon, conn, copying, faults>>

(* MPI_Finalize: tell the monitor thread to stop, then join it if there is *)
(* one.                                                                    *)
Finalize(r) ==
  /\ app[r] = "running"
  /\ app' = [app EXCEPT ![r] = "joining"]
  /\ run_thread' = [run_thread EXCEPT ![r] = FALSE]
  /\ UNCHANGED <<setVars, claims, dropped, dbVars, rowVars, mon, conn, copying, ring, faults>>

Join(r) ==
  /\ app[r] = "joining" /\ mon[r] \in {"exited", "absent"}
  /\ app' = [app EXCEPT ![r] = "done"]
  /\ UNCHANGED <<setVars, run_thread, claims, dropped, dbVars, rowVars, mon, conn, copying, ring, faults>>

-----------------------------------------------------------------------------
(* The database: libpq and the server, from how init.c uses them.          *)

(* A call on r's connection answers ok.  On a broken connection every call *)
(* fails (nothing reconnects); on a good one the server may refuse it.     *)
Answers(r, ok) ==
  IF conn[r] = "ok" /\ ~ok
  THEN faults < MaxFaults /\ faults' = faults + 1
  ELSE ok = (conn[r] = "ok") /\ UNCHANGED faults

(* The connection breaks: noticed by the calls that follow.                *)
ConnectionLost(r) ==
  /\ conn[r] = "ok" /\ mon[r] # "exited" /\ faults < MaxFaults
  /\ conn' = [conn EXCEPT ![r] = "bad"]
  /\ faults' = faults + 1
  /\ UNCHANGED <<setVars, appVars, dbVars, rowVars, mon, copying, ring>>

-----------------------------------------------------------------------------
(* The monitor thread.                                                     *)

At(r, from, to) == mon[r] = from /\ mon' = [mon EXCEPT ![r] = to]

ReadEnv(r) ==
  /\ At(r, "env", IF env[r] THEN "connect" ELSE "exited")
  /\ UNCHANGED <<setVars, appVars, dbVars, rowVars, conn, copying, ring, faults>>

(* The result of PQconnectdb is not looked at.                             *)
Connect(r) ==
  /\ At(r, "connect", IF r = Root THEN "insert" ELSE "poll")
  /\ \/ conn' = [conn EXCEPT ![r] = "ok"] /\ UNCHANGED faults
     \/ /\ faults < MaxFaults /\ faults' = faults + 1
        /\ conn' = [conn EXCEPT ![r] = "bad"]
  /\ UNCHANGED <<setVars, appVars, dbVars, rowVars, copying, ring>>

(* Rank 0: INSERT INTO edumpi_runs.  It fails if the row exists, and       *)
(* nobody looks at the result.                                             *)
InsertRun(r) ==
  /\ At(r, "insert", "cluster")
  /\ \E ok \in BOOLEAN :
       Answers(r, ok) /\ runs' = IF ok /\ runs = "none" THEN "open" ELSE runs
  /\ UNCHANGED <<setVars, appVars, cluster, rowVars, conn, copying, ring>>

\* Mutant of Poll: the query is sent, but its result is not waited for.
Poll_NoWait(r) ==
  /\ At(r, "poll", "cluster") /\ conn[r] = "ok"
  /\ UNCHANGED <<setVars, appVars, dbVars, rowVars, conn, copying, ring, faults>>

(* The other ranks: SELECT until the row is there.  A SELECT that fails or *)
(* finds nothing changes nothing.                                          *)
Poll(r) ==
  /\ At(r, "poll", "cluster")
  /\ conn[r] = "ok" /\ runs # "none"
  /\ UNCHANGED <<setVars, appVars, dbVars, rowVars, conn, copying, ring, faults>>

(* INSERT INTO edumpi_cluster_info, which refers to the run.               *)
ClusterInfo(r) ==
  /\ At(r, "cluster", "start")
  /\ \E ok \in BOOLEAN :
       /\ Answers(r, ok)
       /\ cluster' = IF ok /\ runs # "none" THEN cluster \cup {r} ELSE cluster
  /\ UNCHANGED <<setVars, appVars, runs, rowVars, conn, copying, ring>>

StartCopy(r) ==
  /\ At(r, "start", "loop")
  /\ \E ok \in BOOLEAN : Answers(r, ok) /\ copying' = [copying EXCEPT ![r] = ok]
  /\ UNCHANGED <<setVars, appVars, dbVars, rowVars, conn, ring>>

\* Mutant of Put: the ring is not tested for being empty.
Put_Empty(r) ==
  /\ mon[r] \in {"loop", "final"}
  /\ ring' = [ring EXCEPT ![r] = @ - 1]
  /\ IF copying[r]
     THEN batch' = [batch EXCEPT ![r] = @ + 1] /\ UNCHANGED lost
     ELSE lost' = [lost EXCEPT ![r] = @ + 1] /\ UNCHANGED batch
  /\ UNCHANGED <<setVars, appVars, dbVars, stored, mon, conn, copying, faults>>

(* One event of the ring becomes a row of the COPY; PQputCopyData fails if *)
(* none is running.                                                        *)
Put(r) ==
  /\ mon[r] \in {"loop", "final"} /\ ring[r] > 0
  /\ ring' = [ring EXCEPT ![r] = @ - 1]
  /\ IF copying[r]
     THEN batch' = [batch EXCEPT ![r] = @ + 1] /\ UNCHANGED lost
     ELSE lost' = [lost EXCEPT ![r] = @ + 1] /\ UNCHANGED batch
  /\ UNCHANGED <<setVars, appVars, dbVars, stored, mon, conn, copying, faults>>

(* PQputCopyEnd and its results: the rows are committed all together, or   *)
(* not at all.  They refer to the run.                                     *)
EndCopy(r, ok) ==
  /\ batch' = [batch EXCEPT ![r] = 0]
  /\ IF ok /\ copying[r] /\ runs # "none"
     THEN stored' = [stored EXCEPT ![r] = @ + batch[r]] /\ UNCHANGED lost
     ELSE lost' = [lost EXCEPT ![r] = @ + batch[r]] /\ UNCHANGED stored

(* TIME_TO_WAIT has passed: end the COPY and start the next one, whatever  *)
(* became of the last.  The forced drain of the AMT mode does not do this. *)
Rotate(r) ==
  /\ mon[r] = "loop" \/ (mon[r] = "final" /\ ~amt_mode)
  /\ \E ended, started \in BOOLEAN :
       /\ EndCopy(r, ended)
       /\ copying' = [copying EXCEPT ![r] = started]
       /\ Answers(r, ended /\ started) /\ (conn[r] = "bad" => ~ended /\ ~started)
  /\ UNCHANGED <<setVars, appVars, dbVars, mon, conn, ring>>

\* Mutant of LeaveLoop: run_thread is tested the wrong way round.
LeaveLoop_Inverted(r) ==
  /\ run_thread[r] /\ ring[r] > 0 /\ At(r, "loop", "final")
  /\ UNCHANGED <<setVars, appVars, dbVars, rowVars, conn, copying, ring, faults>>

LeaveLoop(r) ==
  /\ ~run_thread[r] /\ At(r, "loop", "final")
  /\ UNCHANGED <<setVars, appVars, dbVars, rowVars, conn, copying, ring, faults>>

(* The ring is empty: end the last COPY.                                   *)
LastCopy(r) ==
  /\ ring[r] = 0 /\ At(r, "final", IF r = Root THEN "update" ELSE "exited")
  /\ \E ok \in BOOLEAN : Answers(r, ok) /\ EndCopy(r, ok)
  /\ copying' = [copying EXCEPT ![r] = FALSE]
  /\ UNCHANGED <<setVars, appVars, dbVars, conn, ring>>

(* Rank 0 sets end_time of the run.                                        *)
UpdateRun(r) ==
  /\ At(r, "update", "exited")
  /\ \E ok \in BOOLEAN :
       Answers(r, ok) /\ runs' = IF ok /\ runs # "none" THEN "ended" ELSE runs
  /\ UNCHANGED <<setVars, appVars, cluster, rowVars, conn, copying, ring>>

Application(r) == StartMonitor(r) \/ Call(r) \/ Claim(r) \/ Finalize(r) \/ Join(r)

GoOn(r) ==
  \/ ReadEnv(r) \/ Connect(r) \/ InsertRun(r) \/ Poll(r) \/ ClusterInfo(r)
  \/ StartCopy(r) \/ Put(r) \/ LeaveLoop(r) \/ LastCopy(r) \/ UpdateRun(r)
Monitor(r) == GoOn(r) \/ Rotate(r)

Next == \E r \in Ranks : Application(r) \/ Monitor(r) \/ ConnectionLost(r)

Spec == Init /\ [][Next]_vars

(* Fairness.  Both threads are scheduled and the server answers.  MPI_Init *)
(* is collective, so all ranks get through it.  The monitor thread takes   *)
(* out every event at some time (AmtRing: always; SpRing: if the calls set *)
(* end).  The application may stop calling MPI, and time may stand still:  *)
(* nothing for Call, Finalize and Rotate.                                  *)
Fairness ==
  \A r \in Ranks :
    WF_vars(StartMonitor(r) \/ Claim(r) \/ Join(r)) /\ WF_vars(GoOn(r))

FairSpec == Spec /\ Fairness

-----------------------------------------------------------------------------
Before == {"none", "env", "connect", "insert"}
Steps  == Before \cup {"absent", "poll", "cluster", "start", "loop", "final", "update", "exited"}

(* Every variable has its type; a ring never holds more than its capacity. *)
TypeOK ==
  /\ amt_mode \in BOOLEAN /\ env \in [Ranks -> BOOLEAN]
  /\ app \in [Ranks -> {"init", "running", "calling", "joining", "done"}]
  /\ mon \in [Ranks -> Steps]
  /\ run_thread \in [Ranks -> BOOLEAN] /\ copying \in [Ranks -> BOOLEAN]
  /\ conn \in [Ranks -> {"none", "ok", "bad"}]
  /\ ring \in [Ranks -> 0..Capacity] /\ batch \in [Ranks -> Nat]
  /\ stored \in [Ranks -> Nat] /\ lost \in [Ranks -> Nat]
  /\ claims \in [Ranks -> Nat] /\ dropped \in [Ranks -> Nat]
  /\ runs \in {"none", "open", "ended"} /\ cluster \subseteq Ranks /\ faults \in Nat

(* If no database call fails, then no rank writes a row before the run it  *)
(* refers to exists, no row is lost at a change of COPY streams or at the  *)
(* shutdown, and when MPI_Finalize returns, every event of a rank whose    *)
(* monitor thread worked is in the database or was dropped.                *)
NothingLost ==
  faults = 0 =>
    \A r \in Ranks :
      /\ lost[r] = 0
      /\ app[r] = "done" /\ mon[r] = "exited" /\ env[r] =>
           stored[r] + dropped[r] = claims[r]

(* The rank polls for a row it will never see: its connection is broken,   *)
(* or rank 0 has gone on (or never began) without inserting it.            *)
Starved(r) ==
  mon[r] = "poll" /\ (conn[r] = "bad" \/ (runs = "none" /\ mon[Root] \notin Before))

(* README: "It never blocks the program" (AMT mode).  No claim waits for   *)
(* the database, whatever happens to the monitor thread.  In the default   *)
(* mode a claim only waits for ever if there is no monitor thread or it    *)
(* does not get to read.                                                   *)
CallsReturn ==
  \A r \in Ranks :
    []<>(\/ app[r] # "calling"
         \/ ~amt_mode /\ (mon[r] \in {"absent", "exited"} \/ Starved(r)))

(* MPI_Finalize returns, also after database failures, unless the monitor  *)
(* thread polls for a run that will never be there: it does not look at    *)
(* run_thread while it does.                                               *)
FinalizeReturns == \A r \in Ranks : []<>(app[r] # "joining" \/ Starved(r))
=============================================================================

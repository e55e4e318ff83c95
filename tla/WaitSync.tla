------------------------------ MODULE WaitSync ------------------------------
(* Threads that wait for requests while other threads complete them: the      *)
(* synchronisation object on the waiter's stack (ompi_wait_sync_t), the list  *)
(* of waiting threads with its one progress manager (ompi_sync_wait_mt), and  *)
(* MPI_Wait, Waitany, Waitall and Waitsome on top of them. MPI_THREAD_MULTIPLE,*)
(* fault tolerance off. One action is one access to what the threads share;   *)
(* lock-signal-unlock is one, so a sync's lock is held only by its owner.     *)
EXTENDS Integers, FiniteSets, SequencesExt

CONSTANTS Waiters,        \* threads that call a wait function
          Helpers,        \* threads that run opal_progress besides
          Requests,
          MayFail,        \* requests that may complete with an error
          Plans,          \* what the waiters may call: functions from Waiters
                          \* to [kind, reqs]; reqs may hold Null
          MaxInProgress   \* opal_max_thread_in_progress

Null == 0                 \* MPI_REQUEST_NULL and inactive requests
Kinds == {"wait", "any", "all", "some"}
Threads == Waiters \cup Helpers

ASSUME WaitSyncAssumption ==
    /\ Null \notin Requests /\ MayFail \subseteq Requests
    /\ Waiters \cap Helpers = {} /\ MaxInProgress \in Nat
    /\ \A plan \in Plans, w \in Waiters :
          /\ plan[w].kind \in Kinds
          /\ plan[w].reqs \in Seq(Requests \cup {Null})

VARIABLES
    call,      \* call[w]: the function w calls, and on what
    done,      \* req_complete: "pending", "complete", or the waiter whose
               \* sync the request points to
    err,       \* requests whose req_status.MPI_ERROR is set
    sync,      \* sync[w]: count, status (an error was reported), signaling
    list,      \* opal_threads_base_wait_sync_list, the progress manager first
    running,   \* num_thread_in_progress
    pc,        \* where the waiter is
    loc,       \* its locals: position, requests found complete by the first
               \* loop, positions to clean up, positions found complete
    comp,      \* what a thread does with the sync of a request it completed
    late       \* history: how a sync was released that a thread still uses

vars == <<call, done, err, sync, list, running, pc, loc, comp, late>>

Reqs(w) == call[w].reqs
Kind(w) == call[w].kind
NoLocals == [i |-> 1, found |-> {}, todo |-> <<>>, got |-> {}]
NoWork == [at |-> "idle", sync |-> Null, err |-> FALSE]

\* WAIT_SYNC_INIT
NewSync(c) == [count |-> IF c.kind = "all" THEN Len(c.reqs) ELSE 1,
               status |-> FALSE, signaling |-> TRUE]

Init ==
    /\ call \in Plans
    /\ done = [r \in Requests |-> "pending"]
    /\ err = {}
    /\ sync = [w \in Waiters |-> NewSync(call[w])]
    /\ list = <<>>
    /\ running = 0
    /\ pc = [w \in Waiters |-> IF Reqs(w) = <<>> THEN "returned" ELSE "attach"]
    /\ loc = [w \in Waiters |-> NoLocals]
    /\ comp = [t \in Threads |-> NoWork]
    /\ late = "none"

Goto(w, place) == pc' = [pc EXCEPT ![w] = place]

-----------------------------------------------------------------------------
(* The wait functions up to SYNC_WAIT. *)

\* One round of the first loop: the compare-and-swap of req_complete.
Attach(w) ==
    LET i == loc[w].i
        r == Reqs(w)[i]
        complete == r # Null /\ done[r] = "complete"
    IN /\ pc[w] = "attach" /\ i <= Len(Reqs(w))
       /\ done' = IF r = Null \/ complete THEN done ELSE [done EXCEPT ![r] = w]
       /\ loc' = [loc EXCEPT ![w].i = i + 1,
                             ![w].found = IF complete THEN @ \cup {i} ELSE @,
                             ![w].todo = IF complete /\ Kind(w) = "any"
                                         THEN [k \in 1 .. i - 1 |-> i - k] ELSE @,
                             ![w].got = IF complete /\ Kind(w) = "any" THEN {i} ELSE @]
       /\ Goto(w, IF complete /\ Kind(w) = "any" THEN "cleanup" ELSE "attach")
       /\ UNCHANGED <<call, err, sync, list, running, comp, late>>

Nulls(w) == {i \in DOMAIN Reqs(w) : Reqs(w)[i] = Null}
Failed(w) == {i \in loc[w].found : Reqs(w)[i] \in err}
Upwards(w) == [k \in DOMAIN Reqs(w) |-> k]

\* What Waitall takes off the count at once: complete and null requests.
Settled_NullsTwice(w) == Cardinality(loc[w].found) + 2 * Cardinality(Nulls(w))
Settled(w) == Cardinality(loc[w].found \cup Nulls(w))

\* After the first loop.
Attached(w) ==
    /\ pc[w] = "attach" /\ loc[w].i > Len(Reqs(w))
    /\ loc' = [loc EXCEPT ![w].todo = IF Kind(w) = "any" THEN Reverse(Upwards(w)) ELSE Upwards(w)]
    /\ CASE Kind(w) \in {"any", "some"} /\ Nulls(w) = DOMAIN Reqs(w) ->
              Goto(w, "returned") /\ UNCHANGED sync
         [] Kind(w) = "wait" /\ (loc[w].found # {} \/ Nulls(w) # {}) ->
              /\ sync' = [sync EXCEPT ![w].signaling = FALSE]
              /\ Goto(w, "release")
         [] Kind(w) = "all" /\ Failed(w) # {} ->
              /\ sync' = [sync EXCEPT ![w].signaling = FALSE]
              /\ Goto(w, "cleanup")
         [] Kind(w) = "all" /\ Failed(w) = {} ->
              LET count == sync[w].count - Settled(w) IN
              /\ sync' = [sync EXCEPT ![w].count = count,
                              ![w].signaling = @ /\ (Settled(w) = 0 \/ count # 0)]
              /\ Goto(w, "enter")
         [] Kind(w) = "some" /\ loc[w].found # {} ->
              Goto(w, "cleanup") /\ UNCHANGED sync
         [] OTHER -> Goto(w, "enter") /\ UNCHANGED sync
    /\ UNCHANGED <<call, done, err, list, running, comp, late>>

-----------------------------------------------------------------------------
(* ompi_sync_wait_mt *)

\* Where a wait function goes on when ompi_sync_wait_mt returns.
AfterWait(w) ==
    IF Kind(w) \in {"any", "some"} \/ (Kind(w) = "all" /\ sync[w].status)
    THEN "cleanup" ELSE "release"

\* wait_sync_lock is held across actions only to pass the ownership on.
ListUnlocked == \A w \in Waiters : pc[w] # "pass"

\* From the lock to the wait (or to the progress loop) the owner holds its lock.
SyncUnlocked(w) == pc[w] \notin {"insert", "check"}

\* The two looks at the count, without and with the lock.
Enter(w) ==
    /\ pc[w] = "enter"
    /\ Goto(w, IF sync[w].count <= 0 THEN AfterWait(w) ELSE "insert")
    /\ UNCHANGED <<call, done, err, sync, list, running, loc, comp, late>>

Insert(w) ==
    /\ pc[w] = "insert" /\ ListUnlocked
    /\ list' = Append(list, w)
    /\ Goto(w, "check")
    /\ UNCHANGED <<call, done, err, sync, running, loc, comp, late>>

\* check_status: the condition is waited for, or the lock dropped.
Check(w) ==
    /\ pc[w] = "check"
    /\ Goto(w, IF Head(list) # w /\ running >= MaxInProgress THEN "asleep" ELSE "start_progress")
    /\ UNCHANGED <<call, done, err, sync, list, running, loc, comp, late>>

\* A condition variable may wake its thread for no reason.
Spurious(w) ==
    /\ pc[w] = "asleep"
    /\ Goto(w, "woken")
    /\ UNCHANGED <<call, done, err, sync, list, running, loc, comp, late>>

Woken(w) ==
    /\ pc[w] = "woken"
    /\ Goto(w, IF sync[w].count <= 0 THEN "trim" ELSE "check")
    /\ UNCHANGED <<call, done, err, sync, list, running, loc, comp, late>>

StartProgress(w) ==
    /\ pc[w] = "start_progress"
    /\ running' = running + 1
    /\ Goto(w, "progress")
    /\ UNCHANGED <<call, done, err, sync, list, loc, comp, late>>

StopProgress_NotCounted(w) ==
    /\ pc[w] = "progress" /\ comp[w] = NoWork /\ sync[w].count <= 0
    /\ Goto(w, "trim")
    /\ UNCHANGED <<call, done, err, sync, list, running, loc, comp, late>>
StopProgress(w) ==
    /\ pc[w] = "progress" /\ comp[w] = NoWork /\ sync[w].count <= 0
    /\ running' = running - 1
    /\ Goto(w, "trim")
    /\ UNCHANGED <<call, done, err, sync, list, loc, comp, late>>

\* i_am_done: leave the list; a progress manager passes its duties on.
Duties_Kept(w) == FALSE
Duties(w) == Head(list) = w /\ Len(list) > 1

Trim(w) ==
    /\ pc[w] = "trim" /\ ListUnlocked
    /\ list' = Remove(list, w)
    /\ Goto(w, IF Duties(w) THEN "pass" ELSE AfterWait(w))
    /\ UNCHANGED <<call, done, err, sync, running, loc, comp, late>>

\* The signal of a condition variable wakes its thread if it sleeps.
Signalled(w) == IF pc[w] = "asleep" THEN "woken" ELSE pc[w]

\* WAIT_SYNC_PASS_OWNERSHIP
Pass(w) ==
    /\ pc[w] = "pass" /\ SyncUnlocked(Head(list))
    /\ pc' = [pc EXCEPT ![Head(list)] = Signalled(Head(list)), ![w] = AfterWait(w)]
    /\ UNCHANGED <<call, done, err, sync, list, running, loc, comp, late>>

-----------------------------------------------------------------------------
(* The wait functions after SYNC_WAIT. *)

\* One round of the second loop: take the sync off a request that is not
\* complete, note the others.
Cleanup_FoundOnly(w) ==
    /\ pc[w] = "cleanup" /\ loc[w].todo # <<>>
    /\ LET i == Head(loc[w].todo) IN
       loc' = [loc EXCEPT ![w].todo = Tail(@),
                          ![w].got = IF i \in loc[w].found THEN @ \cup {i} ELSE @]
    /\ UNCHANGED <<call, done, err, sync, list, running, pc, comp, late>>
Cleanup(w) ==
    LET i == Head(loc[w].todo)
        r == Reqs(w)[i]
        attached == r # Null /\ done[r] = w
    IN /\ pc[w] = "cleanup" /\ loc[w].todo # <<>>
       /\ done' = IF attached THEN [done EXCEPT ![r] = "pending"] ELSE done
       /\ loc' = [loc EXCEPT ![w].todo = Tail(@),
                             ![w].got = IF r = Null \/ attached THEN @ ELSE @ \cup {i}]
       /\ UNCHANGED <<call, err, sync, list, running, pc, comp, late>>

\* Nobody has taken the sync: Waitany compares index with what the first loop
\* found, Waitsome the numbers of requests attached and detached.
NobodySignals(w) ==
    \/ Kind(w) = "any" /\ loc[w].found # {} /\ loc[w].got = loc[w].found
    \/ Kind(w) = "some" /\ loc[w].got = loc[w].found

Cleaned(w) ==
    /\ pc[w] = "cleanup" /\ loc[w].todo = <<>>
    /\ sync' = [sync EXCEPT ![w].signaling = @ /\ ~NobodySignals(w)]
    /\ Goto(w, "release")
    /\ UNCHANGED <<call, done, err, list, running, loc, comp, late>>

\* The function goes back to recheck: the sync reported an error that was not
\* looked at yet (Waitany, Waitall), or no request is done (Waitsome).
Again(w) ==
    \/ Kind(w) = "any" /\ loc[w].found = {} /\ sync[w].status
    \/ Kind(w) = "all" /\ Failed(w) = {} /\ sync[w].status
    \/ Kind(w) = "some" /\ loc[w].got = {}

\* Threads that still work on the sync of w.
Users(w) == {t \in Threads : comp[t].sync = w}

\* WAIT_SYNC_RELEASE spins on signaling; then the sync is destroyed.
Spins_Never(w) == FALSE
Spins(w) == sync[w].signaling

Release(w) ==
    /\ pc[w] = "release" /\ ~Spins(w)
    /\ late' = IF Users(w) = {} THEN late
               ELSE IF err \cap ToSet(Reqs(w)) # {} THEN "error" ELSE Kind(w)
    /\ Goto(w, IF Again(w) THEN "attach" ELSE "returned")
    /\ sync' = [sync EXCEPT ![w] = IF Again(w) THEN NewSync(call[w]) ELSE @]
    /\ loc' = [loc EXCEPT ![w] = IF Again(w) THEN NoLocals ELSE @]
    /\ UNCHANGED <<call, done, err, list, running, comp>>

-----------------------------------------------------------------------------
(* ompi_request_complete and wait_sync_update, called from opal_progress. *)

InProgress(t) == comp[t] = NoWork /\ (t \in Waiters => pc[t] = "progress")

Complete(t, r, fails) ==
    /\ InProgress(t) /\ done[r] # "complete" /\ (fails => r \in MayFail)
    /\ done' = [done EXCEPT ![r] = "complete"]
    /\ err' = IF fails THEN err \cup {r} ELSE err
    /\ comp' = IF done[r] = "pending" THEN comp
               ELSE [comp EXCEPT ![t] = [at |-> "update", sync |-> done[r], err |-> fails]]
    /\ UNCHANGED <<call, sync, list, running, pc, loc, late>>

\* The count. An error stores the status just before it clears the count.
Update(t) ==
    LET w == comp[t].sync
        count == IF comp[t].err THEN 0 ELSE sync[w].count - 1
    IN /\ comp[t].at = "update"
       /\ sync' = [sync EXCEPT ![w].count = count, ![w].status = @ \/ comp[t].err]
       /\ comp' = [comp EXCEPT ![t] = IF count = 0 THEN [@ EXCEPT !.at = "signal"] ELSE NoWork]
       /\ UNCHANGED <<call, done, err, list, running, pc, loc, late>>

Signal(t) ==
    LET w == comp[t].sync
    IN /\ comp[t].at = "signal" /\ SyncUnlocked(w)
       /\ Goto(w, Signalled(w))
       /\ comp' = [comp EXCEPT ![t].at = "clear"]
       /\ UNCHANGED <<call, done, err, sync, list, running, loc, late>>

Clear(t) ==
    /\ comp[t].at = "clear"
    /\ sync' = [sync EXCEPT ![comp[t].sync].signaling = FALSE]
    /\ comp' = [comp EXCEPT ![t] = NoWork]
    /\ UNCHANGED <<call, done, err, list, running, pc, loc, late>>

-----------------------------------------------------------------------------
Wait(w) ==
    \/ Attach(w) \/ Attached(w) \/ Enter(w) \/ Insert(w) \/ Check(w)
    \/ Woken(w) \/ StartProgress(w) \/ StopProgress(w) \/ Trim(w) \/ Pass(w)
    \/ Cleanup(w) \/ Cleaned(w) \/ Release(w)

Signaller(t) == Update(t) \/ Signal(t) \/ Clear(t)

AllReturned == \A w \in Waiters : pc[w] = "returned"

\* Nothing is said of a program whose stack was written to.
Next ==
    \/ /\ late = "none"
       /\ \/ \E w \in Waiters : Wait(w) \/ Spurious(w)
          \/ \E t \in Threads : Signaller(t)
          \/ \E t \in Threads, r \in Requests, fails \in BOOLEAN : Complete(t, r, fails)
    \/ (AllReturned \/ late # "none") /\ UNCHANGED vars

Spec == Init /\ [][Next]_vars

\* Every thread that is not blocked goes on, and opal_progress, called again
\* and again by waiting threads, completes another request some day. The
\* helpers need not complete anything.
FairSpec ==
    /\ Spec
    /\ \A t \in Threads :
          WF_vars(late = "none" /\ (Signaller(t) \/ (t \in Waiters /\ Wait(t))))
    /\ SF_vars(late = "none" /\ \E w \in Waiters, r \in Requests : Complete(w, r, FALSE))

-----------------------------------------------------------------------------
Places == {"attach", "enter", "insert", "check", "asleep", "woken", "start_progress",
           "progress", "trim", "pass", "cleanup", "release", "returned"}

\* The threads' places and the sync objects; num_thread_in_progress counts the
\* threads in the progress loop, and the list those inside of ompi_sync_wait_mt.
TypeOK ==
    /\ done \in [Requests -> {"pending", "complete"} \cup Waiters]
    /\ err \subseteq MayFail
    /\ sync \in [Waiters -> [count : Int, status : BOOLEAN, signaling : BOOLEAN]]
    /\ pc \in [Waiters -> Places]
    /\ comp \in [Threads -> [at : {"idle", "update", "signal", "clear"},
                             sync : Waiters \cup {Null}, err : BOOLEAN]]
    /\ late \in {"none", "error"} \cup Kinds
    /\ running = Cardinality({w \in Waiters : pc[w] = "progress"})
    /\ IsInjective(list)
    /\ ToSet(list) = {w \in Waiters : pc[w] \in
                         {"check", "asleep", "woken", "start_progress", "progress", "trim"}}

\* MPI_Wait never returns, nor MPI_Waitall without errors, while a thread that
\* completed one of its requests still uses the sync on its stack.
NoUseAfterRelease == late \notin {"wait", "all"}

\* A request points to a sync only while its owner is between attaching and
\* cleaning up: no wait function leaves a pointer to its stack behind, in its
\* early exits and error paths neither.
NoDanglingSync ==
    \A r \in Requests : done[r] \in Waiters => pc[done[r]] \notin {"release", "returned"}

\* What a wait function returns is complete: Waitall without errors everything,
\* Waitany and Waitsome at least one request if there is one to wait for.
ReturnsComplete ==
    \A w \in Waiters : pc[w] = "returned" =>
        LET Complete1(i) == Reqs(w)[i] = Null \/ done[Reqs(w)[i]] = "complete" IN
        /\ Kind(w) \in {"any", "some"} =>
             /\ \A i \in loc[w].got : Complete1(i)
             /\ Nulls(w) = DOMAIN Reqs(w) \/ loc[w].got # {}
        /\ Kind(w) = "wait" \/ (Kind(w) = "all" /\ err \cap ToSet(Reqs(w)) = {}) =>
             \A i \in DOMAIN Reqs(w) : Complete1(i)

\* Every wait function returns, although only the progress manager runs
\* opal_progress while the others sleep: no wake-up is lost and the duty to
\* progress is always passed on.
EveryWaitReturns == []<>(AllReturned \/ late # "none")

=============================================================================

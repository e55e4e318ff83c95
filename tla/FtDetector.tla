----------------------------- MODULE FtDetector -----------------------------
(* The failure detector of MPI_COMM_WORLD (comm_ft_detector.c) with the       *)
(* failure propagator and the reliable broadcast below it: every process      *)
(* observes its predecessor in a ring and sends heartbeats to its successor;  *)
(* when the observed process is dead the observer asks the next live one to   *)
(* send it heartbeats instead. Eager heartbeats (no RDMA), with or without a  *)
(* detector thread.                                                           *)
(*                                                                            *)
(* Regular heartbeats are not messages of the model. Timeouts are long        *)
(* enough: one only passes when no heartbeat, request or quit message that    *)
(* would have prevented it is under way or still going to be sent.            *)
EXTENDS Integers, FiniteSets

CONSTANTS NumProcs,    \* processes of MPI_COMM_WORLD
          MaxCrashes,  \* bound: processes that crash
          Drained      \* bound: numbers of crashes after which MPI_Finalize is called

ASSUME FtDetectorAssumption ==
    NumProcs \in Nat \ {0, 1} /\ MaxCrashes \in Nat /\ Drained \subseteq Nat

Ranks == 0 .. NumProcs - 1
ProcNull == -2                     \* MPI_PROC_NULL

VARIABLES
    crashed,     \* processes that do not run any more
    failed,      \* failed[p]: those whose proc_active is false in p
    observing,   \* hb_observing; ProcNull also stands for hb_rstamp = INFINITY
    observer,    \* hb_observer
    rank,        \* hb_rdma_rank: what p's heartbeats say they are from
    beating,     \* hb_period is finite
    pc,          \* "running", the steps of finalize, "done"
    msgs,        \* messages under way, in any order
    reported,    \* crashes that PMIx reports to everyone
    closing      \* shrink and barrier of MPI_Finalize are over

vars == <<crashed, failed, observing, observer, rank, beating, pc, msgs, reported, closing>>

\* ompi_comm_heartbeat_req_t, ompi_comm_heartbeat_message_t and
\* ompi_comm_failure_propagator_message_t; src only serves to lose messages.
Request(p, to) == [type |-> "request", src |-> p, to |-> to, arg |-> p]
Heartbeat(p, to, from) == [type |-> "heartbeat", src |-> p, to |-> to, arg |-> from]
Failure(p, to, dead) == [type |-> "failure", src |-> p, to |-> to, arg |-> dead]

\* ompi_comm_start_detector, after MPI_Init has completed everywhere
Init ==
    /\ crashed = {}
    /\ failed = [p \in Ranks |-> {}]
    /\ observing = [p \in Ranks |-> (NumProcs + p - 1) % NumProcs]
    /\ observer = [p \in Ranks |-> (NumProcs + p + 1) % NumProcs]
    /\ rank = [p \in Ranks |-> p]
    /\ beating = [p \in Ranks |-> TRUE]
    /\ pc = [p \in Ranks |-> "running"]
    /\ msgs = {}
    /\ reported = {}
    /\ closing = FALSE

\* p runs, and the callbacks of rbcast are registered.
Listening(p) == p \in Ranks \ crashed /\ pc[p] # "done"

-----------------------------------------------------------------------------
(* Sending *)

\* ompi_comm_rbcast_send_msg drops what goes to a process known to be dead;
\* what goes to one that crashed or closed is lost.
Sent(ms, dead) == {m \in ms : m.to \notin dead /\ Listening(m.to)}

\* fd_heartbeat_send: only what is not a regular heartbeat matters.
Beat(p, to) ==
    IF rank[p] = p THEN {} ELSE Sent({Heartbeat(p, to, rank[p])}, failed[p])

\* The first process from q on in direction d that is not known to be dead.
Near_NoWrap(q, d, dead) ==
    LET At(k) == q + d * k
        live == {k \in 1 .. NumProcs : At(k) \notin dead}
    IN At(CHOOSE k \in live : \A j \in live : k <= j)
Near(q, d, dead) ==
    LET At(k) == (q + d * k) % NumProcs
        live == {k \in 1 .. NumProcs : At(k) \notin dead}
    IN At(CHOOSE k \in live : \A j \in live : k <= j)

\* ompi_comm_rbcast_bmg: the nearest neighbours, and those at distance 2, 4, ...
Neighbours(p, dead) ==
    LET far == {i \in 2 .. NumProcs \div 2 : \E e \in 1 .. i : i = 2^e}
    IN ({Near(p, 1, dead), Near(p, -1, dead)}
        \cup {(p + d * i) % NumProcs : d \in {1, -1}, i \in far}) \ {p}

\* ompi_errhandler_proc_failed_internal marks c, then propagates: dead has c.
Rbcast_BeforeMark(p, dead, c) ==
    Sent({Failure(p, q, c) : q \in Neighbours(p, dead \ {c})}, dead \ {c})
Rbcast(p, dead, c) == Sent({Failure(p, q, c) : q \in Neighbours(p, dead)}, dead)

-----------------------------------------------------------------------------
(* The timer event *)

\* p has reason to wait for its observed process.
HeardOf(p) ==
    LET q == observing[p] IN
    \/ /\ Listening(q) /\ observer[q] = p
       /\ (rank[q] = q /\ beating[q]) \/ (rank[q] = p /\ pc[q] = "quit")
    \/ Request(p, q) \in msgs
    \/ Heartbeat(q, p, p) \in msgs

\* hb_rstamp is finite.
Watches_WhileBeating(p) == observing[p] # ProcNull /\ beating[p]
Watches(p) == observing[p] # ProcNull

\* fd_heartbeat_request: nobody else is alive.
Alone(p) ==
    /\ observing' = [observing EXCEPT ![p] = ProcNull]
    /\ observer' = [observer EXCEPT ![p] = ProcNull]
    /\ beating' = [beating EXCEPT ![p] = FALSE]
    /\ UNCHANGED msgs

\* fd_heartbeat_request: ask the next live process for heartbeats.
Observe_NotAsked(p, next, news) ==
    /\ observing' = [observing EXCEPT ![p] = next]
    /\ msgs' = msgs \cup news
    /\ UNCHANGED <<observer, beating>>
Observe(p, next, news) ==
    /\ observing' = [observing EXCEPT ![p] = next]
    /\ msgs' = msgs \cup news \cup Sent({Request(p, next)}, {})
    /\ UNCHANGED <<observer, beating>>

\* fd_event_cb finds the observed process dead: reported already, or silent
\* for too long. ompi_errhandler_proc_failed propagates what is new. In
\* finalize (no observer) nobody else is observed any more.
Tick(p) ==
    LET q == observing[p]
        dead == failed[p] \cup {q}
        next == Near(q, -1, dead)
        news == IF q \in failed[p] THEN {} ELSE Rbcast(p, dead, q)
    IN /\ Listening(p) /\ Watches(p)
       /\ q \in failed[p] \/ ~HeardOf(p)
       /\ failed' = [failed EXCEPT ![p] = dead]
       /\ \/ /\ observer[p] = ProcNull
             /\ observing' = [observing EXCEPT ![p] = ProcNull]
             /\ msgs' = msgs \cup news
             /\ UNCHANGED <<observer, beating>>
          \/ observer[p] # ProcNull /\ next = p /\ Alone(p)
          \/ observer[p] # ProcNull /\ next # p /\ Observe(p, next, news)
       /\ UNCHANGED <<crashed, reported, rank, pc, closing>>

-----------------------------------------------------------------------------
(* The callbacks of received messages *)

\* Ranks in circular space so that p is 0; C's remainder of -1 is -1.
Circular(p, r) == IF NumProcs - p + r < 0 THEN -1 ELSE (NumProcs - p + r) % NumProcs

\* The request is older than the one p follows.
Stale_NotCircular(p, from) == from < observer[p]
Stale(p, from) == Circular(p, from) < Circular(p, observer[p])

\* fd_heartbeat_request_cb
RequestCb(p, m) ==
    /\ Listening(p) /\ m.type = "request"
    /\ \/ /\ Stale(p, m.arg)
          /\ msgs' = msgs \ {m}
          /\ UNCHANGED observer
       \/ /\ ~Stale(p, m.arg)
          /\ observer' = [observer EXCEPT ![p] = m.arg]
          /\ msgs' = (msgs \ {m}) \cup Beat(p, m.arg)
    /\ UNCHANGED <<crashed, reported, failed, observing, rank, beating, pc, closing>>

\* fd_heartbeat_recv_cb: a heartbeat that says it is from the receiver itself
\* means that the observed process quits.
HeartbeatCb(p, m) ==
    /\ Listening(p) /\ m.type = "heartbeat"
    /\ msgs' = msgs \ {m}
    /\ observing' = [observing EXCEPT ![p] = IF m.arg = p THEN ProcNull ELSE @]
    /\ UNCHANGED <<crashed, reported, failed, observer, rank, beating, pc, closing>>

\* ompi_comm_failure_propagator_local: what is new is forwarded.
Forwarded_Never(p, c) == {}
Forwarded(p, c) == IF c \in failed[p] THEN {} ELSE Rbcast(p, failed[p] \cup {c}, c)

FailureCb(p, m) ==
    /\ Listening(p) /\ m.type = "failure"
    /\ failed' = [failed EXCEPT ![p] = @ \cup {m.arg}]
    /\ msgs' = (msgs \ {m}) \cup Forwarded(p, m.arg)
    /\ UNCHANGED <<crashed, reported, observing, observer, rank, beating, pc, closing>>

\* ompi_errhandler_event_cb: a process that PMIx tells of a crash does not
\* forward it.
PmixNotice(p, c) ==
    /\ Listening(p) /\ c \in reported \ failed[p]
    /\ failed' = [failed EXCEPT ![p] = @ \cup {c}]
    /\ UNCHANGED <<crashed, observing, observer, rank, beating, pc, msgs, reported, closing>>

-----------------------------------------------------------------------------
(* Crashes *)

\* What goes to p is lost, any part of what p sent, and p's memory; PMIx may
\* notice. MPI_Finalize does not tolerate new failures once the old are drained.
Crash(p) ==
    /\ Listening(p) /\ ~closing /\ Cardinality(crashed) < MaxCrashes
    /\ crashed' = crashed \cup {p}
    /\ reported' \in {reported, reported \cup {p}}
    /\ \E lost \in SUBSET {m \in msgs : m.src = p} :
          msgs' = {m \in msgs \ lost : m.to # p}
    /\ failed' = [failed EXCEPT ![p] = {}]
    /\ observing' = [observing EXCEPT ![p] = ProcNull]
    /\ observer' = [observer EXCEPT ![p] = ProcNull]
    /\ rank' = [rank EXCEPT ![p] = p]
    /\ beating' = [beating EXCEPT ![p] = FALSE]
    /\ pc' = [pc EXCEPT ![p] = "done"]
    /\ UNCHANGED closing

-----------------------------------------------------------------------------
(* MPI_Finalize *)

\* ompi_comm_shrink_internal agrees on the failures so far, the barrier with
\* the neighbours in the ring flushes the requests among them.
Drain ==
    /\ ~closing /\ Cardinality(crashed) \in Drained
    /\ \A p \in Ranks \ crashed : crashed \subseteq failed[p]
    /\ \A m \in msgs : m.type # "request"
    /\ closing' = TRUE
    /\ UNCHANGED <<crashed, reported, failed, observing, observer, rank, beating, pc, msgs>>

\* ompi_comm_failure_detector_finalize, access by access: a detector thread
\* runs the callbacks meanwhile.
Finalize(p) ==
    /\ closing /\ Listening(p) /\ pc[p] = "running"
    /\ IF observer[p] = ProcNull
         THEN pc' = [pc EXCEPT ![p] = "wait"] /\ UNCHANGED rank
         ELSE /\ pc' = [pc EXCEPT ![p] = "quit"]
              /\ rank' = [rank EXCEPT ![p] = observer[p]]
    /\ UNCHANGED <<crashed, reported, failed, observing, observer, beating, msgs, closing>>

\* fd_heartbeat_send
Quit(p) ==
    /\ Listening(p) /\ pc[p] = "quit"
    /\ msgs' = msgs \cup (IF observer[p] = ProcNull THEN {} ELSE Beat(p, observer[p]))
    /\ pc' = [pc EXCEPT ![p] = "clear"]
    /\ UNCHANGED <<crashed, reported, failed, observing, observer, rank, beating, closing>>

Clear(p) ==
    /\ Listening(p) /\ pc[p] = "clear"
    /\ beating' = [beating EXCEPT ![p] = FALSE]
    /\ observer' = [observer EXCEPT ![p] = ProcNull]
    /\ pc' = [pc EXCEPT ![p] = "wait"]
    /\ UNCHANGED <<crashed, reported, failed, observing, rank, msgs, closing>>

\* The loop is left; the propagator and rbcast are unregistered right after.
Close(p) ==
    /\ Listening(p) /\ pc[p] = "wait" /\ observing[p] = ProcNull
    /\ observer' = [observer EXCEPT ![p] = ProcNull]
    /\ pc' = [pc EXCEPT ![p] = "done"]
    /\ msgs' = {m \in msgs : m.to # p}
    /\ UNCHANGED <<crashed, reported, failed, observing, rank, beating, closing>>

-----------------------------------------------------------------------------

Receive(p) == \E m \in {n \in msgs : n.to = p} :
                 RequestCb(p, m) \/ HeartbeatCb(p, m) \/ FailureCb(p, m)

Finalizing(p) == Finalize(p) \/ Quit(p) \/ Clear(p) \/ Close(p)

Proceed == \/ \E p \in Ranks : Tick(p) \/ Receive(p) \/ Finalizing(p)
           \/ \E p, c \in Ranks : PmixNotice(p, c)

Next == Proceed \/ Drain \/ \E p \in Ranks : Crash(p)

Spec == Init /\ [][Next]_vars

\* The timer, the receive callbacks and PMIx's reports keep coming, the steps of
\* finalize are plain code. Nothing is assumed of crashes and of the
\* application's call of MPI_Finalize (Drain).
FairSpec == Spec /\ WF_vars(Proceed)

-----------------------------------------------------------------------------

TypeOK ==
    /\ crashed \subseteq Ranks
    /\ failed \in [Ranks -> SUBSET Ranks]
    /\ observing \in [Ranks -> Ranks \cup {ProcNull}]
    /\ observer \in [Ranks -> Ranks \cup {ProcNull}]
    /\ rank \in [Ranks -> Ranks]
    /\ beating \in [Ranks -> BOOLEAN]
    /\ pc \in [Ranks -> {"running", "quit", "clear", "wait", "done"}]
    /\ \A m \in msgs : /\ m.type \in {"request", "heartbeat", "failure"}
                       /\ Listening(m.to) /\ {m.src, m.arg} \subseteq Ranks
    /\ reported \subseteq crashed
    /\ closing \in BOOLEAN

\* Accuracy: until the application finalizes, and in finalize when no process
\* has crashed, no live process is taken for dead, however crashes, reports and
\* requests overlap.
Accurate ==
    (~closing \/ crashed = {}) => \A p \in Ranks \ crashed, q \in Ranks : p \notin failed[q]

\* The ring: until the application finalizes, a live process that is waited for
\* sends its heartbeats to the one that waits, or will when it gets its request;
\* no two live processes wait for the same live one.
RingKept ==
    ~closing =>
       \A p, q \in Ranks \ crashed : observing[p] = q =>
          /\ observer[q] = p \/ Request(p, q) \in msgs
          /\ \A r \in Ranks \ crashed : observing[r] = q => r = p

\* Completeness: until the application finalizes, every crash becomes known to
\* every live process, although those that report it crash in the middle.
EveryCrashKnown ==
    []<>(closing \/ \A p \in Ranks \ crashed : crashed \subseteq failed[p])

\* The detector's finalize ends in every process that is alive when it begins:
\* nobody waits for ever for the confirmation of the observed one.
FinalizeEnds == []<>(closing => \A p \in Ranks : pc[p] = "done")

\* No process is sent the report of its own death, on which it would abort
\* (ompi_proc_mark_as_failed), although finalize may take it for dead.
NoSelfReport == \A m \in msgs : m.type = "failure" => m.arg # m.to

=============================================================================

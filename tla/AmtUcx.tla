-------------------------------- MODULE AmtUcx --------------------------------
(***************************************************************************)
(* Non-blocking receives of the UCX PML on top of the AMT ring: MPI_Irecv  *)
(* (ompi/mpi/c/irecv.c, mca_pml_ucx_irecv), the completion callback and    *)
(* the hand-over of the ring entry between the two and the monitor thread  *)
(* (pml_ucx_request.h).  Callers run MPI_Irecv, one at a time each; the    *)
(* UCX worker runs its callbacks one after the other, on Progress.         *)
(***************************************************************************)
EXTENDS AmtRing

CONSTANTS Callers,       \* the threads that call MPI_Irecv
          Progress,      \* the thread that progresses the UCX worker
          Recvs,         \* the receives, one request each: numbers, 0 is no call
          StallExpires,  \* the stall timeout can pass (EDUMPI_AMT_STALL_MS)
          None           \* no entry, no receive

ASSUME RecvsAssumption == Recvs \subseteq Nat \ {0} /\ None \notin Recvs
ASSUME ThreadsAssumption == Producers = Callers \cup {Progress} /\ Progress \notin Callers

VARIABLES ext,       \* edumpi_ucx_req_ext_t of every receive's request
          posted,    \* receives that were given to the UCX worker
          done,      \* receives whose callback has returned (or that UCX refused)
          step, op,  \* per thread: step of its function, the receive it handles
          item,      \* per thread: the entry it works on ...
          ticket,    \* ... and (history) the ticket it had then
          refused    \* history: receives whose event was counted as dropped

ucxVars == <<ext, posted, done, step, op, item, ticket, refused>>
allVars == <<vars, ucxVars>>

UcxInit ==
  /\ Init
  /\ ext = [r \in Recvs |-> [q |-> None, ticket |-> 0, cb_done |-> FALSE, finished |-> FALSE]]
  /\ posted = {} /\ done = {} /\ refused = {}
  /\ step = [p \in Producers |-> "idle"]
  /\ op = [p \in Producers |-> None]
  /\ item = [p \in Producers |-> None]
  /\ ticket = [p \in Producers |-> 0]

Step(p, from, to) == step[p] = from /\ step' = [step EXCEPT ![p] = to]
Store(i, e) == slots' = [slots EXCEPT ![i] = e]
OnlySlots == UNCHANGED <<head, tail, states, dropped, prodVars, monVars, run_thread>>

-----------------------------------------------------------------------------
(* MPI_Irecv up to the PML: claim an entry (ClaimStep), fill it in.        *)
BeginIrecv(p) ==
  /\ run_thread /\ Step(p, "idle", "irecv")
  /\ \E r \in Recvs \ ({op[c] : c \in Callers} \cup posted) :
       /\ \A q \in Recvs : q < r => q \in posted \cup {op[c] : c \in Callers}
       /\ op' = [op EXCEPT ![p] = r]
  /\ LoadHead(p)
  /\ UNCHANGED <<ext, posted, done, item, ticket, refused>>

(* initQentry, request and pending_request.                                *)
InitIrecv(p) ==
  /\ Step(p, "irecv", "post")
  /\ pc[p] = "claimed"
  /\ Store(entry[p], [slots[entry[p]] EXCEPT !.call = op[p], !.pending_request = TRUE])
  /\ item' = [item EXCEPT ![p] = entry[p]]
  /\ ticket' = [ticket EXCEPT ![p] = h[p] + 1]
  /\ refused' = IF entry[p] = p THEN refused \cup {op[p]} ELSE refused
  /\ Return(p)
  /\ UNCHANGED <<head, tail, states, dropped, claims, monVars, run_thread, ext, posted, done, op>>

(* ucp_tag_recv_nbx: from here on the callback can run at any time.        *)
Post(p) ==
  /\ Step(p, "post", "snapshot")
  /\ posted' = posted \cup {op[p]}
  /\ UNCHANGED <<vars, ext, done, op, item, ticket, refused>>

(* UCX refuses the receive: the PML returns an error and MPI_Irecv clears  *)
(* pending_request.  No callback will run.                                 *)
PostFails(p) ==
  /\ Step(p, "post", "end")
  /\ Store(item[p], [slots[item[p]] EXCEPT !.pending_request = FALSE])
  /\ posted' = posted \cup {op[p]} /\ done' = done \cup {op[p]}
  /\ OnlySlots /\ UNCHANGED <<ext, op, item, ticket, refused>>

-----------------------------------------------------------------------------
(* edumpi_ucx_attach_entry.                                                *)
AttachSnapshot(p) ==
  /\ Step(p, "snapshot", "pending")
  /\ ext' = [ext EXCEPT ![op[p]].ticket = slots[item[p]].lifecycle.ticket]
  /\ UNCHANGED <<vars, posted, done, op, item, ticket, refused>>

AttachPending_NotStored(p) ==
  /\ Step(p, "pending", "publish")
  /\ UNCHANGED <<vars, ext, posted, done, op, item, ticket, refused>>
AttachPending(p) ==
  /\ Step(p, "pending", "publish")
  /\ Store(item[p], [slots[item[p]] EXCEPT !.lifecycle = LC(ext[op[p]].ticket, "PENDING")])
  /\ OnlySlots /\ UNCHANGED <<ext, posted, done, op, item, ticket, refused>>

AttachPublish(p) ==
  /\ Step(p, "publish", "check")
  /\ ext' = [ext EXCEPT ![op[p]].q = item[p]]
  /\ UNCHANGED <<vars, posted, done, op, item, ticket, refused>>

AttachCheck(p) ==
  /\ Step(p, "check", IF ext[op[p]].cb_done THEN "exchange" ELSE "end")
  /\ UNCHANGED <<vars, ext, posted, done, op, item, ticket, refused>>

(* MPI_Irecv again: clock_gettime(&item->end), as in WriteEnd.             *)
IrecvEnd(p) ==
  /\ \/ /\ Step(p, "end", "tv_nsec")
        /\ Store(item[p], [slots[item[p]] EXCEPT !.end = @ \cup {"tv_sec"}])
        /\ UNCHANGED <<op, item, ticket>>
     \/ /\ Step(p, "tv_nsec", "idle")
        /\ Store(item[p], [slots[item[p]] EXCEPT !.end = @ \cup {"tv_nsec"}])
        /\ op' = [op EXCEPT ![p] = None]
        /\ item' = [item EXCEPT ![p] = None]
        /\ ticket' = [ticket EXCEPT ![p] = 0]
  /\ OnlySlots /\ UNCHANGED <<ext, posted, done, refused>>

-----------------------------------------------------------------------------
(* The callback, edumpi_ucx_recv_finished: publish the result, then look   *)
(* for the entry.                                                          *)
Callback(p) ==
  /\ p = Progress /\ Step(p, "idle", "load")
  /\ \E r \in posted \ done :
       /\ op' = [op EXCEPT ![p] = r]
       /\ ext' = [ext EXCEPT ![r].cb_done = TRUE]
  /\ UNCHANGED <<vars, posted, done, item, ticket, refused>>

(* The end of the callback: ompi_request_complete.                         *)
CallbackReturns(p) ==
  /\ step' = [step EXCEPT ![p] = "idle"]
  /\ op' = [op EXCEPT ![p] = None]
  /\ item' = [item EXCEPT ![p] = None]
  /\ ticket' = [ticket EXCEPT ![p] = 0]
  /\ done' = done \cup {op[p]}

(* No entry yet: MPI_Irecv will see cb_done and complete it.               *)
CallbackLoad(p) ==
  /\ step[p] = "load"
  /\ LET x == ext[op[p]] IN
       \/ /\ x.q = None
          /\ CallbackReturns(p)
       \/ /\ x.q # None
          /\ Step(p, "load", "exchange")
          /\ item' = [item EXCEPT ![p] = x.q]
          /\ UNCHANGED <<op, ticket, done>>
  /\ UNCHANGED <<vars, ext, posted, refused>>

-----------------------------------------------------------------------------
(* edumpi_ucx_complete_entry, by the callback or by MPI_Irecv.  back: what *)
(* the caller of the function does next.                                   *)
Back(p) ==
  IF p = Progress
  THEN CallbackReturns(p)
  ELSE step' = [step EXCEPT ![p] = "end"] /\ UNCHANGED <<op, item, ticket, done>>

\* Mutant of Exchange: finished is set, but its old value is not looked at.
Exchange_NoTest(p) ==
  /\ step[p] = "exchange"
  /\ ext' = [ext EXCEPT ![op[p]].finished = TRUE]
  /\ Step(p, "exchange", "cas")
  /\ UNCHANGED <<vars, posted, refused, op, item, ticket, done>>

(* The exchange on finished decides which of the two sides goes on.        *)
Exchange(p) ==
  /\ step[p] = "exchange"
  /\ ext' = [ext EXCEPT ![op[p]].finished = TRUE]
  /\ IF ext[op[p]].finished
     THEN Back(p)
     ELSE Step(p, "exchange", "cas") /\ UNCHANGED <<op, item, ticket, done>>
  /\ UNCHANGED <<vars, posted, refused>>

\* Mutants of CompleteCas: the loser gives up instead of claiming a new entry;
\* the ticket is left out of the comparison.
CompleteCas_NoRenewal(p) ==
  /\ step[p] = "cas"
  /\ LET x == ext[op[p]] IN
       \/ /\ slots[item[p]].lifecycle = LC(x.ticket, "PENDING")
          /\ Store(item[p], [slots[item[p]] EXCEPT !.lifecycle.state = "FINISHING"])
          /\ Step(p, "cas", "stamp")
          /\ ticket' = [ticket EXCEPT ![p] = x.ticket]
          /\ UNCHANGED <<op, item, done>>
       \/ /\ slots[item[p]].lifecycle # LC(x.ticket, "PENDING")
          /\ Back(p) /\ UNCHANGED slots
  /\ OnlySlots /\ UNCHANGED <<ext, posted, refused>>

CompleteCas_NoTicket(p) ==
  /\ step[p] = "cas"
  /\ \/ /\ slots[item[p]].lifecycle.state = "PENDING"
        /\ Store(item[p], [slots[item[p]] EXCEPT !.lifecycle.state = "FINISHING"])
        /\ Step(p, "cas", "stamp")
        /\ ticket' = [ticket EXCEPT ![p] = slots[item[p]].lifecycle.ticket]
     \/ /\ slots[item[p]].lifecycle.state # "PENDING"
        /\ Step(p, "cas", "renew")
        /\ UNCHANGED <<slots, ticket>>
  /\ OnlySlots /\ UNCHANGED <<ext, posted, done, op, item, refused>>

(* The compare-and-swap against the monitor thread's.                      *)
CompleteCas(p) ==
  /\ step[p] = "cas"
  /\ LET x == ext[op[p]] IN
       \/ /\ slots[item[p]].lifecycle = LC(x.ticket, "PENDING")
          /\ Store(item[p], [slots[item[p]] EXCEPT !.lifecycle.state = "FINISHING"])
          /\ Step(p, "cas", "stamp")
          /\ ticket' = [ticket EXCEPT ![p] = x.ticket]
       \/ /\ slots[item[p]].lifecycle # LC(x.ticket, "PENDING")
          /\ Step(p, "cas", "renew")
          /\ UNCHANGED <<slots, ticket>>
  /\ OnlySlots /\ UNCHANGED <<ext, posted, done, op, item, refused>>

(* In place.  The entry is not ready before request_done, so the two       *)
(* halves of the stamp count as one store.                                 *)
Stamp(p) ==
  /\ Step(p, "stamp", "bytes")
  /\ Store(item[p], [slots[item[p]] EXCEPT !.end = Halves])
  /\ OnlySlots /\ UNCHANGED <<ext, posted, done, op, item, ticket, refused>>

DoneBytes(p) ==
  /\ Step(p, "bytes", "done")
  /\ Store(item[p], [slots[item[p]] EXCEPT !.recvDatasize = TRUE])
  /\ OnlySlots /\ UNCHANGED <<ext, posted, done, op, item, ticket, refused>>

RequestDone(p) ==
  /\ step[p] = "done"
  /\ Store(item[p], [slots[item[p]] EXCEPT !.request_done = TRUE])
  /\ Back(p)
  /\ OnlySlots /\ UNCHANGED <<ext, posted, refused>>

(* Abandoned: claim a new entry, fill it in, and set its end, first the    *)
(* nanoseconds, then the seconds.                                          *)
Renew(p) ==
  /\ Step(p, "renew", "renewing")
  /\ LoadHead(p)
  /\ UNCHANGED <<ext, posted, done, op, item, ticket, refused>>

InitRenewed(p) ==
  /\ step[p] = "renewing" /\ pc[p] = "claimed"
  /\ Store(entry[p], [slots[entry[p]] EXCEPT !.call = op[p], !.recvDatasize = TRUE])
  /\ step' = [step EXCEPT ![p] = "nsec"]
  /\ UNCHANGED <<head, tail, states, dropped, prodVars, monVars, run_thread>>
  /\ UNCHANGED <<ext, posted, done, op, item, ticket, refused>>

RenewedNsec(p) ==
  /\ Step(p, "nsec", "sec")
  /\ Store(entry[p], [slots[entry[p]] EXCEPT !.end = @ \cup {"tv_nsec"}])
  /\ OnlySlots /\ UNCHANGED <<ext, posted, done, op, item, ticket, refused>>

RenewedSec(p) ==
  /\ step[p] = "sec"
  /\ Store(entry[p], [slots[entry[p]] EXCEPT !.end = @ \cup {"tv_sec"}])
  /\ Back(p) /\ Return(p)
  /\ refused' = IF entry[p] = p THEN refused \cup {op[p]} ELSE refused
  /\ UNCHANGED <<head, tail, states, dropped, claims, monVars, run_thread, ext, posted>>

-----------------------------------------------------------------------------
(* MPI_Finalize: all calls have returned, all receives are complete.       *)
UcxFinalize ==
  /\ \A p \in Producers : step[p] = "idle"
  /\ posted \subseteq done
  /\ Finalize
  /\ UNCHANGED ucxVars

(* Some thread will still store into the entry at the tail.                *)
EntryOpen ==
  \E p \in Producers :
    \/ item[p] = Slot(tail) /\ ticket[p] = tail + 1
    \/ pc[p] \in Owning /\ entry[p] = Slot(tail) /\ h[p] = tail

(* The monitor thread, as in the ring.                                     *)
Monitor ==
  /\ \/ Peek
     \/ \E elapsed \in BOOLEAN :
          /\ elapsed => StallExpires \/ entry_complete(slots[Slot(tail)])
          /\ Inspect(elapsed)
     \/ CheckFinishing \/ TryAbandon(EntryOpen) \/ Emit(EntryOpen)
     \/ FreeSlot \/ Shutdown \/ Stop
  /\ UNCHANGED ucxVars

Complete(p) ==
  \/ Exchange(p) \/ CompleteCas(p) \/ Stamp(p) \/ DoneBytes(p) \/ RequestDone(p)
  \/ Renew(p) \/ InitRenewed(p) \/ RenewedNsec(p) \/ RenewedSec(p)
  \/ (ClaimStep(p) /\ UNCHANGED ucxVars)

Irecv(p) ==
  \/ BeginIrecv(p) \/ InitIrecv(p) \/ Post(p) \/ PostFails(p) \/ AttachSnapshot(p)
  \/ AttachPending(p) \/ AttachPublish(p) \/ AttachCheck(p) \/ IrecvEnd(p)

UcxNext ==
  \/ \E p \in Callers : Irecv(p)
  \/ \E p \in Producers : Complete(p)
  \/ Callback(Progress) \/ CallbackLoad(Progress)
  \/ UcxFinalize
  \/ Monitor
  \/ (mon = "stopped" /\ UNCHANGED allVars)

UcxSpec == UcxInit /\ [][UcxNext]_allVars

(* Fairness.  A claim and the completion of an entry are short pieces of   *)
(* straight-line code that end once they have begun; MPI_Irecv may block   *)
(* anywhere else.  The monitor thread is scheduled, and the clocks run: an *)
(* entry that is inspected again and again is inspected after its timeout. *)
UcxFairSpec ==
  /\ UcxSpec
  /\ \A p \in Producers : WF_allVars(Complete(p))
  /\ WF_allVars(Monitor) /\ SF_allVars(Inspect(TRUE) /\ UNCHANGED ucxVars)

-----------------------------------------------------------------------------
Completing == {"cas", "stamp", "bytes", "done", "renew", "renewing", "nsec", "sec"}
InIrecv(r) == \E p \in Callers : op[p] = r
Received == {r \in done : ext[r].cb_done /\ ~InIrecv(r)}
RowsOf(r) == {i \in 1..Len(out) : out[i].call = r /\ out[i].why # "abandoned"}
WrittenOnce(r) == Cardinality(RowsOf(r)) = 1 /\ \A i \in RowsOf(r) : out[i].data

(* The hand-over between MPI_Irecv (stores q, then loads cb_done) and the  *)
(* callback (stores cb_done, then loads q): at least one of them completes *)
(* the entry, and never both.                                              *)
HandOver ==
  /\ \A r \in Received : ext[r].finished
  /\ \A p, c \in Producers :
       p # c /\ op[p] = op[c] /\ op[p] # None => ~(step[p] \in Completing /\ step[c] \in Completing)

(* If no slot is used twice, then every finished receive ends up as one    *)
(* row with its data, unless its event was dropped or the monitor thread   *)
(* wrote its entry (or one that was still blank) on a timeout: abandoning  *)
(* an entry loses nothing.                                                 *)
UndisturbedOnce ==
  mon = "stopped" /\ head <= Size =>
    \A r \in Received \ refused :
      WrittenOnce(r) \/ \E i \in RowsOf(r) \cup RowsOf(0) : out[i].why = "timeout"

(* A thread that fills in an entry in place does so in its own entry: the  *)
(* monitor thread has not freed the slot and nobody else was given it,     *)
(* unless the slot's entry was taken out on a timeout or an earlier entry  *)
(* of the slot was taken out while a thread was still writing to it.       *)
FillsOwnEntry ==
  \A p \in Producers :
    /\ step[p] \in {"stamp", "bytes", "done"} /\ item[p] \in Index
    /\ ~(why = "timeout" /\ Slot(tail) = item[p])
    /\ \A i \in 1..Len(out) :
         Slot(i - 1) = item[p] => ~out[i].open /\ out[i].why # "timeout"
    => /\ slots[item[p]].lifecycle = LC(ext[op[p]].ticket, "FINISHING")
       /\ tail < ext[op[p]].ticket

(* pml_ucx_request.h: "In both cases nothing is lost and nothing is        *)
(* written twice."  Every finished receive that was not dropped ends up as *)
(* exactly one row, with its data.                                         *)
NothingLostNothingTwice ==
  mon = "stopped" => \A r \in Received \ refused : WrittenOnce(r)

(* edumpi_ring.h: "the event is written to a scratch entry and counted as  *)
(* dropped": no row is written for a receive that got a scratch entry, as  *)
(* long as no second drop resets the entry under its request.              *)
DroppedHasNoRow ==
  dropped <= 1 => \A r \in Recvs : ext[r].q \in Producers => RowsOf(r) = {}
=============================================================================

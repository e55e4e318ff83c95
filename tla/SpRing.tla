------------------------------- MODULE SpRing -------------------------------
(***************************************************************************)
(* The default, single-producer event ring of EduMPI (getWritingRingPos    *)
(* and the loop of SQLMonitorFunc in ompi/mpi/c/init.c): one application   *)
(* thread writes, the monitor thread reads, and the two share writer_pos,  *)
(* reader_pos and the entries without a lock.  A completion callback of    *)
(* the UCX PML runs on the application thread, inside an MPI call, and may *)
(* claim an entry of its own there.                                        *)
(***************************************************************************)
EXTENDS QEntry, Sequences

CONSTANTS N,             \* MAX_RINGSIZE
          MaxClaims,     \* bound: entries claimed before the last MPI call begins
          EarlyReturns   \* some MPI calls return without setting end

ASSUME NAssumption == N \in Nat \ {0, 1}
ASSUME MaxClaimsAssumption == MaxClaims \in Nat
ASSUME EarlyReturnsAssumption == EarlyReturns \in BOOLEAN

VARIABLES writer_pos, reader_pos, ring, run_thread,
          ticket_counter,  \* edumpi_ticket_counter
          pc, pos,     \* per stack frame of the application thread: its step, its entry
          frame,       \* the innermost frame: "call", or "callback" on top of it
          recvs,       \* posted UCX receives whose callback has not run
          recv,        \* the receive edumpi_ucx_complete_entry works for
          mon, held,   \* step of the monitor thread; its local variable
          waited,      \* history: the entry in hand had its request_wait
          out,         \* history: what was taken out of the ring, in order
          lapped       \* history: the writer entered a slot that was not read

ringVars == <<writer_pos, reader_pos, ring, ticket_counter, lapped>>
appVars == <<pc, pos, frame, recvs, recv>>
monVars == <<mon, held, waited, out>>
vars    == <<ringVars, appVars, monVars, run_thread>>

Index  == 0..(N - 1)
Frames == {"call", "callback"}
NoRecv == [call |-> 0, q |-> 0, ticket |-> 0]

(* The ring of the default mode is allocated with malloc and not cleared.  *)
(* An allocation of this size is served with fresh pages of the system,    *)
(* so the entries are zero before their first claim.                       *)
Init ==
  /\ writer_pos = -1 /\ reader_pos = -1 /\ ticket_counter = 0 /\ lapped = FALSE
  /\ ring = [i \in Index |-> Reset(0)]
  /\ run_thread = TRUE
  /\ pc = [f \in Frames |-> "idle"] /\ pos = [f \in Frames |-> 0]
  /\ frame = "call" /\ recvs = {} /\ recv = NoRecv
  /\ mon = "top" /\ held = FALSE /\ waited = FALSE /\ out = << >>

-----------------------------------------------------------------------------
(* getWritingRingPos.                                                      *)

At(from, to) == pc[frame] = from /\ pc' = [pc EXCEPT ![frame] = to]
Store(i, e) == ring' = [ring EXCEPT ![i] = e]
Mine == ring[pos[frame]]

\* Mutant of NotFull: the writer never waits for the reader.
NotFull_NoWait == TRUE

(* The writer waits while this is false.  The second half of the code's    *)
(* test, reader_pos == 0 && writer_pos == MAX_RINGSIZE, is never true.     *)
NotFull == ~(writer_pos = reader_pos - 1 \/ (reader_pos = 0 /\ writer_pos = N))

(* The first claim and a claim that wraps publish the position first.      *)
ClaimZero ==
  /\ At("claim", "zero")
  /\ writer_pos = -1 \/ (NotFull /\ writer_pos = N - 1)
  /\ writer_pos' = 0
  /\ lapped' = (lapped \/ (writer_pos = N - 1 /\ reader_pos <= 0))
  /\ UNCHANGED <<reader_pos, ring, ticket_counter, pos, frame, recvs, recv, monVars, run_thread>>

ResetZero ==
  /\ At("zero", "claimed")
  /\ ticket_counter' = ticket_counter + 1
  /\ Store(0, Reset(ticket_counter'))
  /\ pos' = [pos EXCEPT ![frame] = 0]
  /\ UNCHANGED <<writer_pos, reader_pos, lapped, frame, recvs, recv, monVars, run_thread>>

\* Mutant of ResetNext: the last position of the ring is not treated specially.
ResetNext_NoWrap ==
  /\ At("claim", "advance")
  /\ writer_pos # -1 /\ NotFull
  /\ ticket_counter' = ticket_counter + 1
  /\ Store(writer_pos + 1, Reset(ticket_counter'))
  /\ UNCHANGED <<writer_pos, reader_pos, lapped, pos, frame, recvs, recv, monVars, run_thread>>

(* All other claims reset the entry first, then publish it.                *)
ResetNext ==
  /\ At("claim", "advance")
  /\ writer_pos # -1 /\ NotFull /\ writer_pos # N - 1
  /\ ticket_counter' = ticket_counter + 1
  /\ Store(writer_pos + 1, Reset(ticket_counter'))
  /\ UNCHANGED <<writer_pos, reader_pos, lapped, pos, frame, recvs, recv, monVars, run_thread>>

Advance ==
  /\ At("advance", "claimed")
  /\ writer_pos' = writer_pos + 1
  /\ pos' = [pos EXCEPT ![frame] = writer_pos']
  /\ UNCHANGED <<reader_pos, ring, ticket_counter, lapped, frame, recvs, recv, monVars, run_thread>>

Claim == ClaimZero \/ ResetZero \/ ResetNext \/ Advance

-----------------------------------------------------------------------------
(* The MPI calls of the application.                                       *)

OnlyRing == UNCHANGED <<writer_pos, reader_pos, ticket_counter, lapped, monVars, run_thread>>

Begin ==
  /\ run_thread /\ frame = "call" /\ ticket_counter < MaxClaims
  /\ At("idle", "claim")
  /\ UNCHANGED <<ringVars, pos, frame, recvs, recv, monVars, run_thread>>

(* initQentry, and pending_request in MPI_Irecv.                           *)
InitEntry ==
  /\ frame = "call"
  /\ \E request \in BOOLEAN :
       /\ At("claimed", IF request THEN "irecv" ELSE "own")
       /\ Store(pos[frame], [Mine EXCEPT !.call = ticket_counter, !.pending_request = request])
  /\ OnlyRing /\ UNCHANGED <<pos, frame, recvs, recv>>

(* mca_pml_ucx_irecv: post the receive and attach the entry.  If the       *)
(* callback ran in the call already, attach completes the entry itself.    *)
Attach ==
  /\ pc["call"] = "irecv"
  /\ LET r == [call |-> Mine.call, q |-> pos["call"], ticket |-> Mine.lifecycle.ticket] IN
       /\ Store(r.q, [Mine EXCEPT !.lifecycle = LC(r.ticket, "PENDING")])
       /\ \/ /\ pc' = [pc EXCEPT !["call"] = "end"]
             /\ recvs' = recvs \cup {r} /\ UNCHANGED <<frame, recv>>
          \/ /\ pc' = [call |-> "end", callback |-> "cas"]
             /\ frame' = "callback" /\ recv' = r /\ UNCHANGED recvs
  /\ OnlyRing /\ UNCHANGED pos

(* The PML refuses the receive.                                            *)
IrecvFails ==
  /\ At("irecv", "end")
  /\ Store(pos[frame], [Mine EXCEPT !.pending_request = FALSE])
  /\ OnlyRing /\ UNCHANGED <<pos, frame, recvs, recv>>

(* clock_gettime(&item->end), one half after the other, in either order.   *)
WriteEnd ==
  /\ frame = "call"
  /\ \E half \in Halves :
       /\ \/ \E from \in {"own", "end"} : At(from, CHOOSE o \in Halves : o # half)
          \/ At(half, "idle")
       /\ Store(pos[frame], [Mine EXCEPT !.end = @ \cup {half}])
  /\ OnlyRing /\ UNCHANGED <<pos, frame, recvs, recv>>

(* Parameter errors, MPI_PROC_NULL, nothing to do: end is not set.         *)
ReturnEarly ==
  /\ EarlyReturns /\ frame = "call"
  /\ \E from \in {"own", "irecv"} : At(from, "idle")
  /\ UNCHANGED <<ringVars, pos, frame, recvs, recv, monVars, run_thread>>

(* MPI_Finalize: the program has completed its requests.                   *)
Finalize ==
  /\ run_thread /\ pc["call"] = "idle" /\ recvs = {}
  /\ run_thread' = FALSE
  /\ UNCHANGED <<ringVars, appVars, monVars>>

-----------------------------------------------------------------------------
(* The completion callback, called from an MPI call that makes progress,   *)
(* and edumpi_ucx_complete_entry.                                          *)

Callback ==
  /\ frame = "call" /\ pc["call"] = "own"
  /\ \E r \in recvs : recv' = r /\ recvs' = recvs \ {r}
  /\ frame' = "callback"
  /\ pc' = [pc EXCEPT !["callback"] = "cas"]
  /\ UNCHANGED <<ringVars, pos, monVars, run_thread>>

(* Back to MPI_Irecv or to the call that made progress.                    *)
Back(from) ==
  /\ At(from, "idle")
  /\ frame' = "call" /\ recv' = NoRecv

CompleteCas ==
  /\ \/ /\ ring[recv.q].lifecycle = LC(recv.ticket, "PENDING")
        /\ Store(recv.q, [ring[recv.q] EXCEPT !.lifecycle.state = "FINISHING"])
        /\ At("cas", "stamp")
     \/ /\ ring[recv.q].lifecycle # LC(recv.ticket, "PENDING")
        /\ At("cas", "claim")
        /\ UNCHANGED ring
  /\ OnlyRing /\ UNCHANGED <<pos, frame, recvs, recv>>

(* In place: the stamp and the received size, then request_done.           *)
Stamp ==
  /\ At("stamp", "done")
  /\ Store(recv.q, [ring[recv.q] EXCEPT !.end = Halves, !.recvDatasize = TRUE])
  /\ OnlyRing /\ UNCHANGED <<pos, frame, recvs, recv>>

RequestDone ==
  /\ Back("done")
  /\ Store(recv.q, [ring[recv.q] EXCEPT !.request_done = TRUE])
  /\ OnlyRing /\ UNCHANGED <<pos, recvs>>

(* Abandoned: a new entry.                                                 *)
InitRenewed ==
  /\ frame = "callback" /\ At("claimed", "nsec")
  /\ Store(pos[frame], [Mine EXCEPT !.call = recv.call, !.recvDatasize = TRUE])
  /\ OnlyRing /\ UNCHANGED <<pos, frame, recvs, recv>>

RenewedNsec ==
  /\ At("nsec", "sec")
  /\ Store(pos[frame], [Mine EXCEPT !.end = @ \cup {"tv_nsec"}])
  /\ OnlyRing /\ UNCHANGED <<pos, frame, recvs, recv>>

RenewedSec ==
  /\ Back("sec")
  /\ Store(pos[frame], [Mine EXCEPT !.end = @ \cup {"tv_sec"}])
  /\ OnlyRing /\ UNCHANGED <<pos, recvs>>

Application ==
  \/ Begin \/ Claim \/ InitEntry \/ Attach \/ IrecvFails \/ WriteEnd \/ ReturnEarly
  \/ Callback \/ CompleteCas \/ Stamp \/ RequestDone
  \/ InitRenewed \/ RenewedNsec \/ RenewedSec
-----------------------------------------------------------------------------
(* SQLMonitorFunc.                                                         *)

Empty == writer_pos = -1 \/ reader_pos = writer_pos \/ (reader_pos = N - 1 /\ writer_pos = 0)
NextPos == IF reader_pos = N - 1 THEN 0 ELSE reader_pos + 1
Item == ring[reader_pos]

\* Mutant of Hold: the wait for the request never ends.
Hold_Forever(elapsed) ==
  /\ mon = "top" /\ run_thread
  /\ LET cand == ring[NextPos] IN
       \/ /\ Empty
          /\ mon' = "test" /\ waited' = FALSE /\ UNCHANGED held
       \/ /\ ~Empty /\ request_ready(cand)
          /\ mon' = "test" /\ waited' = FALSE /\ held' = FALSE
       \/ /\ ~Empty /\ ~request_ready(cand)
          /\ UNCHANGED <<mon, held, waited>>
  /\ UNCHANGED <<ringVars, appVars, out, run_thread>>

(* Hold the next entry back while its request is not finished.  elapsed:   *)
(* request_wait_s has passed since end was set or, if it is not set, since *)
(* the entry was first seen.  The loads of one entry behave like one: its  *)
(* flags are only ever set while it waits here.                            *)
Hold(elapsed) ==
  /\ mon = "top" /\ run_thread
  /\ LET cand == ring[NextPos] IN
       \/ /\ Empty
          /\ mon' = "test" /\ waited' = FALSE /\ UNCHANGED held
       \/ /\ ~Empty /\ request_ready(cand)
          /\ mon' = "test" /\ waited' = FALSE /\ held' = FALSE
       \/ /\ ~Empty /\ ~request_ready(cand) /\ entry_complete(cand)
          /\ held' = FALSE
          /\ IF elapsed /\ cand.lifecycle.state # "FINISHING"
             THEN mon' = "test" /\ waited' = TRUE ELSE UNCHANGED <<mon, waited>>
       \/ /\ ~Empty /\ ~request_ready(cand) /\ ~entry_complete(cand)
          /\ held' = TRUE
          /\ IF held /\ elapsed
             THEN mon' = "test" /\ waited' = TRUE ELSE UNCHANGED <<mon, waited>>
  /\ UNCHANGED <<ringVars, appVars, out, run_thread>>

(* Not held back: take the next entry, if there is one by now.             *)
Take ==
  /\ mon = "test"
  /\ IF Empty
     THEN mon' = "top" /\ UNCHANGED reader_pos
     ELSE mon' = "taken" /\ reader_pos' = NextPos
  /\ UNCHANGED <<writer_pos, ring, ticket_counter, lapped, appVars, held, waited, out, run_thread>>

(* open: the entry is the newest one, its call is running and nobody set   *)
(* end (and no callback inside the call is about to claim another entry).  *)
Dispose(i, reason) ==
  out' = Append(out,
    [ticket |-> ring[i].lifecycle.ticket, call |-> ring[i].call,
     data |-> ring[i].recvDatasize, why |-> reason,
     open |-> /\ frame = "call" /\ pc["call"] \in {"zero", "claimed", "irecv", "own", "end"}
              /\ i = writer_pos /\ ~entry_complete(ring[i])])

(* A UCX receive that waited too long is abandoned.  end and request_done  *)
(* are stable, so the loads and the compare-and-swap act like one step.    *)
TryAbandon ==
  /\ mon = "taken"
  /\ IF /\ ~request_ready(Item) /\ run_thread /\ entry_complete(Item)
        /\ Item.lifecycle.state = "PENDING"
     THEN /\ Store(reader_pos, [Item EXCEPT !.lifecycle.state = "ABANDONED"])
          /\ Dispose(reader_pos, "abandoned")
          /\ held' = FALSE /\ mon' = "top"
     ELSE mon' = "caught" /\ UNCHANGED <<ring, held, out>>
  /\ UNCHANGED <<writer_pos, reader_pos, ticket_counter, lapped, appVars, waited, run_thread>>

\* Mutant of CaughtUp: the newest entry is not waited for either.
CaughtUp_NoWait ==
  /\ mon = "caught"
  /\ mon' = "write"
  /\ UNCHANGED <<ringVars, appVars, held, waited, out, run_thread>>

(* Only the entry the writer is at is waited for.                          *)
CaughtUp ==
  /\ mon = "caught"
  /\ mon' = IF reader_pos = writer_pos THEN "wait" ELSE "write"
  /\ UNCHANGED <<ringVars, appVars, held, waited, out, run_thread>>

WaitEnd ==
  /\ mon = "wait"
  /\ "tv_nsec" \in Item.end \/ ~run_thread
  /\ mon' = "write"
  /\ UNCHANGED <<ringVars, appVars, held, waited, out, run_thread>>

Write ==
  /\ mon = "write"
  /\ Dispose(reader_pos, IF request_ready(Item) \/ waited \/ ~run_thread THEN "ready" ELSE "early")
  /\ held' = FALSE /\ mon' = "top"
  /\ UNCHANGED <<ringVars, appVars, waited, run_thread>>

(* run_thread is zero: write everything that is left.                      *)
Shutdown ==
  /\ mon = "top" /\ ~run_thread
  /\ mon' = "final"
  /\ UNCHANGED <<ringVars, appVars, held, waited, out, run_thread>>

Final ==
  /\ mon = "final" /\ reader_pos # writer_pos
  /\ reader_pos' = NextPos
  /\ Dispose(NextPos, "final")
  /\ UNCHANGED <<writer_pos, ring, ticket_counter, lapped, appVars, mon, held, waited, run_thread>>

Stop ==
  /\ mon = "final" /\ reader_pos = writer_pos
  /\ mon' = "stopped"
  /\ UNCHANGED <<ringVars, appVars, held, waited, out, run_thread>>

Monitor ==
  \/ (\E elapsed \in BOOLEAN : Hold(elapsed)) \/ Take \/ TryAbandon \/ CaughtUp
  \/ WaitEnd \/ Write \/ Shutdown \/ Final \/ Stop

Next ==
  \/ Application
  \/ Finalize
  \/ Monitor
  \/ (mon = "stopped" /\ UNCHANGED vars)

Spec == Init /\ [][Next]_vars

(* Fairness.  The monitor thread is scheduled, and an entry that is looked *)
(* at again and again is looked at after its wait has passed.  A claim and *)
(* a completion are short pieces of code that end once they have begun,    *)
(* unless the ring is full.  An MPI call may take for ever.                *)
Running == {"claim", "zero", "advance", "claimed", "irecv", "end", "cas", "stamp", "done",
            "nsec", "sec"} \cup Halves
Fairness ==
  /\ WF_vars(Monitor) /\ SF_vars(Hold(TRUE))
  /\ WF_vars(pc[frame] \in Running /\ Application)

FairSpec == Spec /\ Fairness

-----------------------------------------------------------------------------
Rows == [ticket : Nat, call : Nat, data : BOOLEAN, open : BOOLEAN,
         why : {"ready", "early", "abandoned", "final"}]
Recv == [call : Nat, q : Index, ticket : Nat]

(* Every variable has its type; a position is -1 only before the first     *)
(* claim or read.                                                          *)
TypeOK ==
  /\ writer_pos \in Index \cup {-1} /\ reader_pos \in Index \cup {-1}
  /\ ring \in [Index -> Entry] /\ ticket_counter \in Nat
  /\ pc \in [Frames -> Running \cup {"idle", "own"}] /\ pos \in [Frames -> Index]
  /\ frame \in Frames /\ (frame = "call" <=> pc["callback"] = "idle")
  /\ recvs \subseteq Recv /\ recv \in Recv
  /\ mon \in {"top", "test", "taken", "caught", "wait", "write", "final", "stopped"}
  /\ held \in BOOLEAN /\ waited \in BOOLEAN /\ lapped \in BOOLEAN /\ run_thread \in BOOLEAN
  /\ out \in Seq(Rows)

(* What the writer's comment says, "Ringbuffer ist voll, es muessen erst   *)
(* Items ausgelesen werden": no entry is overwritten before it was read,   *)
(* so in the end every claimed entry was taken out.                        *)
EveryEntryRead == mon = "stopped" => Len(out) = ticket_counter

(* As long as the writer has not wrapped onto a slot that was not read,    *)
(* entries leave the ring in the order of their tickets, none twice, and   *)
(* in the end none is missing: although the first claim and a claim that   *)
(* wraps publish the position before they reset the entry.                 *)
InOrderUnlessLapped ==
  ~lapped => EveryEntryRead /\ \A i \in 1..Len(out) : out[i].ticket = i

(* The monitor thread does not write the newest entry without an end while *)
(* its call is running, also if it takes it in the middle of the claim.    *)
NewestIsWaitedFor == ~lapped => \A i \in 1..Len(out) : ~out[i].open

(* The two ways in which the monitor thread stops reading while the        *)
(* program runs: it waits for the end of a call that returned early and    *)
(* will not set it, or the entry in slot 0 looks like an empty ring.       *)
WaitsForNoOne ==
  /\ mon = "wait" /\ run_thread /\ "tv_nsec" \notin Item.end
  /\ \A f \in Frames : pc[f] = "idle" \/ pos[f] # reader_pos
LooksEmpty == reader_pos = N - 1 /\ writer_pos = 0

(* The monitor thread gets to every entry: it always catches up with the   *)
(* claims or waits for a call that is running, and gets past receives that *)
(* never finish, unless the writer has lapped the reader or the reader     *)
(* stops in one of the two ways above.                                     *)
EveryEntryTaken ==
  []<>(\/ Len(out) = ticket_counter
       \/ \E f \in Frames : pc[f] = "own" /\ pos[f] = reader_pos
       \/ lapped \/ WaitsForNoOne \/ LooksEmpty)
=============================================================================

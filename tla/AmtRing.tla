------------------------------- MODULE AmtRing -------------------------------
(***************************************************************************)
(* The multi-producer / single-consumer event ring of EduMPI's AMT mode    *)
(* (ompi/mpi/c/edumpi_ring.h): any number of MPI threads claim entries,    *)
(* one monitor thread drains them in claim order.  One action is one       *)
(* access to shared memory, or several accesses to memory that no other    *)
(* thread can change in between (the comments say why).                    *)
(***************************************************************************)
EXTENDS QEntry, Sequences, FiniteSets

CONSTANTS Producers,   \* the threads that call MPI
          Size,        \* slots of the ring (MAX_RINGSIZE in init.c)
          MaxClaims    \* bound: calls of edumpi_amt_ring_claim in a behaviour

ASSUME SizeAssumption == Size \in Nat \ {0}
ASSUME MaxClaimsAssumption == MaxClaims \in Nat
ASSUME FiniteProducers == IsFiniteSet(Producers)
ASSUME ProducersAssumption == \A i \in 0..(Size - 1) : i \notin Producers

VARIABLES head, tail,  \* next ticket to take / next ticket to consume
          states,      \* FREE or ACTIVE, per slot
          slots,       \* the entries: the ring's and every thread's scratch
          dropped,     \* events that found the ring full
          stalled,     \* consumer: the entry at the tail was seen unfinished
          run_thread,  \* cleared by MPI_Finalize
          pc, h, entry,  \* per producer: step of its MPI call, its ticket, its entry
          mon,         \* step of the monitor thread in edumpi_amt_ring_drain
          force,       \* the drain is the one of the shutdown
          why,         \* why the entry in hand is taken out of the ring
          out,         \* history: what was taken out of the ring, in order
          claims       \* history: number of claim calls

ringVars == <<head, tail, states, slots, dropped>>
prodVars == <<pc, h, entry, claims>>
monVars  == <<stalled, mon, force, why, out>>
vars     == <<ringVars, prodVars, monVars, run_thread>>

Index == 0..(Size - 1)
Slot(n) == n % Size

Init ==
  /\ head = 0 /\ tail = 0 /\ dropped = 0 /\ claims = 0
  /\ states = [i \in Index |-> "FREE"]
  /\ slots = [i \in Index \cup Producers |-> Reset(0)]
  /\ stalled = FALSE /\ run_thread = TRUE
  /\ pc = [p \in Producers |-> "idle"]
  /\ h = [p \in Producers |-> 0]
  /\ entry = [p \in Producers |-> p]
  /\ mon = "peek" /\ force = FALSE /\ why = "none" /\ out = << >>

-----------------------------------------------------------------------------
(* The producers: edumpi_amt_ring_claim and the MPI wrapper around it.     *)

Claiming == {"reset", "activate"}
Owning   == {"claimed", "own", "tv_nsec"}

Goto(p, l) == pc' = [pc EXCEPT ![p] = l]

(* A call of claim begins: it loads head.                                  *)
LoadHead(p) ==
  /\ pc[p] = "idle" /\ claims < MaxClaims
  /\ claims' = claims + 1
  /\ h' = [h EXCEPT ![p] = head]
  /\ Goto(p, "tail")
  /\ UNCHANGED <<ringVars, monVars, run_thread, entry>>

\* Mutants of LoadTail: the full test off by one, in each direction.
LoadTail_OneTooMany(p) ==
  /\ pc[p] = "tail"
  /\ Goto(p, IF h[p] - tail > Size THEN "drop" ELSE "cas")
  /\ UNCHANGED <<ringVars, monVars, run_thread, h, entry, claims>>

LoadTail_OneTooFew(p) ==
  /\ pc[p] = "tail"
  /\ Goto(p, IF h[p] - tail >= Size - 1 THEN "drop" ELSE "cas")
  /\ UNCHANGED <<ringVars, monVars, run_thread, h, entry, claims>>

(* Load tail and decide whether the ring is full.                          *)
LoadTail(p) ==
  /\ pc[p] = "tail"
  /\ Goto(p, IF h[p] - tail >= Size THEN "drop" ELSE "cas")
  /\ UNCHANGED <<ringVars, monVars, run_thread, h, entry, claims>>

\* Mutant of Drop: the event is not counted.
Drop_NotCounted(p) ==
  /\ pc[p] = "drop"
  /\ slots' = [slots EXCEPT ![p] = Reset(0)]
  /\ entry' = [entry EXCEPT ![p] = p]
  /\ Goto(p, "claimed")
  /\ UNCHANGED <<head, tail, states, dropped, monVars, run_thread, h, claims>>

(* Full: count the event and hand out the thread's own scratch entry.      *)
Drop(p) ==
  /\ pc[p] = "drop"
  /\ dropped' = dropped + 1
  /\ slots' = [slots EXCEPT ![p] = Reset(0)]
  /\ entry' = [entry EXCEPT ![p] = p]
  /\ Goto(p, "claimed")
  /\ UNCHANGED <<head, tail, states, monVars, run_thread, h, claims>>

(* The compare-and-swap on head; a failure reloads h and tries again.      *)
TakeTicket(p) ==
  /\ pc[p] = "cas"
  /\ \/ /\ head = h[p]
        /\ head' = head + 1
        /\ Goto(p, "reset")
        /\ UNCHANGED h
     \/ /\ head # h[p]
        /\ h' = [h EXCEPT ![p] = head]
        /\ Goto(p, "tail")
        /\ UNCHANGED head
  /\ UNCHANGED <<tail, states, slots, dropped, monVars, run_thread, entry, claims>>

ResetSlot(p) ==
  /\ pc[p] = "reset"
  /\ slots' = [slots EXCEPT ![Slot(h[p])] = Reset(h[p] + 1)]
  /\ Goto(p, "activate")
  /\ UNCHANGED <<head, tail, states, dropped, monVars, run_thread, h, entry, claims>>

\* Mutant of Activate: the index of the entry is not reduced modulo the size.
Activate_NoWrap(p) ==
  /\ pc[p] = "activate"
  /\ states' = [states EXCEPT ![Slot(h[p])] = "ACTIVE"]
  /\ entry' = [entry EXCEPT ![p] = h[p]]
  /\ Goto(p, "claimed")
  /\ UNCHANGED <<head, tail, slots, dropped, monVars, run_thread, h, claims>>

Activate(p) ==
  /\ pc[p] = "activate"
  /\ states' = [states EXCEPT ![Slot(h[p])] = "ACTIVE"]
  /\ entry' = [entry EXCEPT ![p] = Slot(h[p])]
  /\ Goto(p, "claimed")
  /\ UNCHANGED <<head, tail, slots, dropped, monVars, run_thread, h, claims>>

(* The wrapper fills in its entry (start, initQentry); MPI_Irecv also sets *)
(* pending_request.  It writes through the pointer it was given, whatever  *)
(* became of the slot meanwhile.                                           *)
InitEntry(p) ==
  /\ pc[p] = "claimed"
  /\ \E request \in BOOLEAN :
       slots' = [slots EXCEPT ![entry[p]] =
                   [@ EXCEPT !.call = h[p] + 1, !.pending_request = request]]
  /\ Goto(p, "own")
  /\ UNCHANGED <<head, tail, states, dropped, monVars, run_thread, h, entry, claims>>

(* The wrapper returns: its pointer and its ticket are gone.               *)
Return(p) ==
  /\ Goto(p, "idle")
  /\ h' = [h EXCEPT ![p] = 0]
  /\ entry' = [entry EXCEPT ![p] = p]

(* clock_gettime(&item->end) stores the stamp in two halves.  All who read *)
(* it in the ring accept either half (entry_complete), so it makes no      *)
(* difference which one comes first.                                       *)
WriteEnd(p) ==
  /\ \/ /\ pc[p] = "own"
        /\ slots' = [slots EXCEPT ![entry[p]].end = @ \cup {"tv_sec"}]
        /\ Goto(p, "tv_nsec") /\ UNCHANGED <<h, entry>>
     \/ /\ pc[p] = "tv_nsec"
        /\ slots' = [slots EXCEPT ![entry[p]].end = @ \cup {"tv_nsec"}]
        /\ Return(p)
  /\ UNCHANGED <<head, tail, states, dropped, monVars, run_thread, claims>>

(* A wrapper that returns early (parameter error, MPI_PROC_NULL, nothing   *)
(* to do) never sets end.                                                  *)
ReturnEarly(p) ==
  /\ pc[p] = "own"
  /\ Return(p)
  /\ UNCHANGED <<ringVars, monVars, run_thread, claims>>

(* What the PML may do to the entry of a pending request, at any time: the *)
(* moves of the lifecycle word and the request_done flag.  The module      *)
(* AmtUcx replaces this by the code of the UCX PML.                        *)
PmlStore(i) ==
  /\ slots[i].pending_request
  /\ LET e == slots[i] IN
       \/ /\ e.lifecycle.state = "NONE"
          /\ slots' = [slots EXCEPT ![i].lifecycle.state = "PENDING"]
       \/ /\ e.lifecycle.state = "PENDING"
          /\ slots' = [slots EXCEPT ![i].lifecycle.state = "FINISHING"]
       \/ /\ e.lifecycle.state \in {"NONE", "FINISHING"} /\ ~e.request_done
          /\ slots' = [slots EXCEPT ![i].request_done = TRUE]
  /\ UNCHANGED <<head, tail, states, dropped, prodVars, monVars, run_thread>>

(* MPI_Finalize.  MPI requires that no thread is inside another MPI call.  *)
Finalize ==
  /\ run_thread
  /\ \A p \in Producers : pc[p] = "idle"
  /\ run_thread' = FALSE
  /\ UNCHANGED <<ringVars, prodVars, monVars>>

-----------------------------------------------------------------------------
(* The consumer: edumpi_amt_ring_drain, called again and again by the      *)
(* monitor thread.  A break out of the loop leads to the next call, that   *)
(* is back to "peek".                                                      *)

\* Mutant of Peekable: a taken ticket is enough, the state is not looked at.
Peekable_AnyState == tail < head

Peekable == tail < head /\ states[Slot(tail)] = "ACTIVE"

(* Loads head and the state of the slot.  Once true, both tests stay true  *)
(* until the consumer itself changes tail.                                 *)
Peek ==
  /\ mon = "peek" /\ Peekable
  /\ mon' = "inspect"
  /\ UNCHANGED <<ringVars, prodVars, run_thread, stalled, force, why, out>>

Break == mon' = "peek" /\ UNCHANGED why
Take(reason) == mon' = "emit" /\ why' = reason

\* Mutant of Inspect: the stall timeout is never noticed.
Inspect_NoStall(elapsed) ==
  /\ mon = "inspect"
  /\ LET e == slots[Slot(tail)] IN
       \/ /\ force \/ (entry_complete(e) /\ request_ready(e))
          /\ Take("ready") /\ UNCHANGED stalled
       \/ /\ ~force /\ entry_complete(e) /\ ~request_ready(e)
          /\ IF elapsed THEN mon' = "lifecycle" /\ UNCHANGED why ELSE Break
          /\ UNCHANGED stalled
       \/ /\ ~force /\ ~entry_complete(e)
          /\ Break /\ stalled' = TRUE
  /\ UNCHANGED <<ringVars, prodVars, run_thread, force, out>>

(* Reads the entry at the tail and decides what to do with it.  end and    *)
(* request_done are never cleared while the slot is in the ring, so the    *)
(* loads behave like one.  elapsed: the timeout that applies (request_wait *)
(* or stall) has passed; nothing else is known about time.                 *)
Inspect(elapsed) ==
  /\ mon = "inspect"
  /\ LET e == slots[Slot(tail)] IN
       \/ /\ force \/ (entry_complete(e) /\ request_ready(e))
          /\ Take("ready") /\ UNCHANGED stalled
       \/ /\ ~force /\ entry_complete(e) /\ ~request_ready(e)
          /\ IF elapsed THEN mon' = "lifecycle" /\ UNCHANGED why ELSE Break
          /\ UNCHANGED stalled
       \/ /\ ~force /\ ~entry_complete(e)
          /\ IF stalled /\ elapsed THEN Take("timeout") ELSE Break
          /\ stalled' = TRUE
  /\ UNCHANGED <<ringVars, prodVars, run_thread, force, out>>

(* The completion callback is filling in the entry: leave it for now.      *)
CheckFinishing ==
  /\ mon = "lifecycle"
  /\ mon' = IF slots[Slot(tail)].lifecycle.state = "FINISHING"
            THEN "peek" ELSE "abandon"
  /\ UNCHANGED <<ringVars, prodVars, run_thread, stalled, force, why, out>>

(* One entry leaves the ring.  open: a thread will still store into it.    *)
Dispose(reason, open) ==
  out' = Append(out, [call |-> slots[Slot(tail)].call,
                      data |-> slots[Slot(tail)].recvDatasize,
                      why |-> reason, open |-> open])

(* edumpi_lifecycle_try_abandon: its load and its compare-and-swap both    *)
(* have to see PENDING, so it acts like one atomic step.                   *)
TryAbandon(open) ==
  /\ mon = "abandon"
  /\ \/ /\ slots[Slot(tail)].lifecycle.state = "PENDING"
        /\ slots' = [slots EXCEPT ![Slot(tail)].lifecycle.state = "ABANDONED"]
        /\ Dispose("abandoned", open)
        /\ stalled' = FALSE /\ mon' = "free" /\ UNCHANGED why
     \/ /\ slots[Slot(tail)].lifecycle.state # "PENDING"
        /\ Take("timeout")
        /\ UNCHANGED <<slots, stalled, out>>
  /\ UNCHANGED <<head, tail, states, dropped, prodVars, run_thread, force>>

(* emit(e, ctx): the entry becomes a row of the COPY stream.               *)
Emit(open) ==
  /\ mon = "emit"
  /\ Dispose(why, open)
  /\ stalled' = FALSE /\ mon' = "free" /\ why' = "none"
  /\ UNCHANGED <<ringVars, prodVars, run_thread, force>>

\* Mutant of FreeSlot: tail is advanced twice.
FreeSlot_Twice ==
  /\ mon = "free"
  /\ states' = [states EXCEPT ![Slot(tail)] = "FREE"]
  /\ tail' = tail + 2
  /\ mon' = "peek"
  /\ UNCHANGED <<head, slots, dropped, prodVars, run_thread, stalled, force, why, out>>

(* The two stores that give the slot back; producers look at tail only.    *)
FreeSlot ==
  /\ mon = "free"
  /\ states' = [states EXCEPT ![Slot(tail)] = "FREE"]
  /\ tail' = tail + 1
  /\ mon' = "peek"
  /\ UNCHANGED <<head, slots, dropped, prodVars, run_thread, stalled, force, why, out>>

(* The main loop of the monitor thread sees run_thread == 0 between two    *)
(* drains (a drain also returns after AMT_DRAIN_BATCH entries).            *)
Shutdown ==
  /\ mon = "peek" /\ ~run_thread /\ ~force
  /\ force' = TRUE
  /\ UNCHANGED <<ringVars, prodVars, run_thread, stalled, mon, why, out>>

(* The last forced drain hands over nothing: the monitor thread is done.   *)
Stop ==
  /\ mon = "peek" /\ force /\ ~Peekable
  /\ mon' = "stopped"
  /\ UNCHANGED <<ringVars, prodVars, run_thread, stalled, force, why, out>>

Terminated == mon = "stopped" /\ UNCHANGED vars

Produce(p) ==
  \/ (run_thread /\ LoadHead(p)) \/ LoadTail(p) \/ Drop(p) \/ TakeTicket(p) \/ ResetSlot(p)
  \/ Activate(p) \/ InitEntry(p) \/ WriteEnd(p) \/ ReturnEarly(p)

(* The call of the ticket at the tail still holds the pointer.             *)
CallOpen == \E p \in Producers : pc[p] \in Owning /\ entry[p] = Slot(tail) /\ h[p] = tail

Drain ==
  \/ Peek \/ (\E elapsed \in BOOLEAN : Inspect(elapsed)) \/ CheckFinishing
  \/ TryAbandon(CallOpen) \/ Emit(CallOpen) \/ FreeSlot \/ Shutdown \/ Stop

Next ==
  \/ \E p \in Producers : Produce(p)
  \/ \E i \in Index : PmlStore(i)
  \/ Finalize
  \/ Drain
  \/ Terminated

Spec == Init /\ [][Next]_vars

-----------------------------------------------------------------------------
(* A claim after its first load.                                           *)
ClaimStep(p) ==
  LoadTail(p) \/ Drop(p) \/ TakeTicket(p) \/ ResetSlot(p) \/ Activate(p)

-----------------------------------------------------------------------------
Pcs      == {"idle", "tail", "cas", "drop"} \cup Claiming \cup Owning
Reasons  == {"none", "ready", "timeout", "abandoned"}
Row      == [call : Nat, data : BOOLEAN, why : Reasons, open : BOOLEAN]

(* Every variable has its type: in particular the entry a producer holds   *)
(* is a slot of the ring or its own scratch, never another thread's.       *)
TypeOK ==
  /\ head \in Nat /\ tail \in Nat /\ dropped \in Nat /\ claims \in Nat
  /\ states \in [Index -> {"FREE", "ACTIVE"}]
  /\ slots \in [Index \cup Producers -> Entry]
  /\ stalled \in BOOLEAN /\ run_thread \in BOOLEAN /\ force \in BOOLEAN
  /\ pc \in [Producers -> Pcs]
  /\ h \in [Producers -> Nat]
  /\ entry \in [Producers -> Index \cup Producers]
  /\ \A p \in Producers : entry[p] \in Index \cup {p}
  /\ mon \in {"peek", "inspect", "lifecycle", "abandon", "emit", "free", "stopped"}
  /\ why \in Reasons
  /\ out \in Seq(Row)

(* The zeroing of a claimed slot (edumpi_entry_reset) is free of races     *)
(* without any lock: no two threads zero the same slot, and none zeroes    *)
(* the slot the monitor thread is reading, however the claims, the failed  *)
(* compare-and-swaps and the stale loads of tail interleave.               *)
SlotExclusive ==
  /\ \A p, q \in Producers :
       p # q /\ pc[p] \in Claiming /\ pc[q] \in Claiming => Slot(h[p]) # Slot(h[q])
  /\ \A p \in Producers :
       pc[p] \in Claiming /\ mon \notin {"peek", "stopped"} => Slot(h[p]) # Slot(tail)

(* A row that leaves the ring as finished describes the call that claimed  *)
(* its ticket, rows leave in ticket order and none is skipped or repeated, *)
(* unless an earlier entry of the same slot was taken out while its call   *)
(* still held the pointer (timeout, shutdown, or half an end stamp).       *)
RowsInClaimOrder ==
  /\ Len(out) = tail + IF mon = "free" THEN 1 ELSE 0
  /\ \A i \in 1..Len(out) :
       /\ out[i].why = "ready"
       /\ \A j \in 1..(i - 1) : Slot(j - 1) = Slot(i - 1) => ~out[j].open
       => out[i].call = i

(* When the monitor thread has stopped, every event of every MPI call was  *)
(* taken out of the ring or counted as dropped, exactly once.              *)
AllAccounted == mon = "stopped" => tail = head /\ claims = Len(out) + dropped

(* An event is only refused at a moment when all slots really are taken,   *)
(* although the head the producer compares with may be out of date.        *)
DropOnlyWhenFull ==
  [][\A p \in Producers :
       pc[p] = "tail" /\ pc'[p] = "drop" => head - tail = Size]_vars

(* No call can hold back the entries behind it for ever: the monitor       *)
(* thread always gets to the last ticket taken (claims are bounded), also  *)
(* if a call never sets end or a request never finishes.                   *)
EveryTicketConsumed == []<>(tail = head)

(* The ring implements the buffer.  A producer that found the ring full    *)
(* has already been refused, before it adds 1 to dropped.                  *)
Dropping == {p \in Producers : pc[p] = "drop"}
Buffer == INSTANCE EventBuffer WITH Capacity <- Size, accepted <- head,
            consumed <- tail, refused <- dropped + Cardinality(Dropping)
ImplementsBuffer == Buffer!Spec
=============================================================================
